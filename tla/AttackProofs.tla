---------------------------- MODULE AttackProofs ----------------------------
(***************************************************************************)
(* Proofs about the attack algorithms: what they share, then an invariant  *)
(* for each of the algorithms, then what all of them may spend.            *)
(***************************************************************************)
EXTENDS AttackRunner, FoldProofs

-----------------------------------------------------------------------------
(***************************************************************************)
(* What all algorithms share                                               *)
(***************************************************************************)
LEMMA ScoresAre == HeuristicScores \subseteq {10, 20, 25, 40}
BY DEF HeuristicScores, HeuristicScore

Pairs(n) == {ij \in (1..n) \X (1..n) : ij[1] < ij[2]}
PairsInLine(n) ==
  {xy \in Pairs(n) \X Pairs(n) :
     xy[1][1] < xy[2][1] \/ (xy[1][1] = xy[2][1] /\ xy[1][2] < xy[2][2])}
\* From two principles on there is a pair.
LEMMA PairsAreRanked ==
  ASSUME NEW n \in Nat, n >= 2
  PROVE  Len(PrinciplePairs(n)) \in Nat \ {0}
<1> DEFINE P == Pairs(n)
           c == Cardinality(P)
<1>1. P \subseteq (1..n) \X (1..n)  BY DEF Pairs
<1>2. IsFiniteSet((1..n) \X (1..n))
  <2>1. IsFiniteSet(1..n)  BY FS_Interval
  <2> QED  BY <2>1, FS_Product
<1>3. IsFiniteSet(P) /\ c \in Nat  BY <1>1, <1>2, FS_Subset, FS_CardinalityType
<1>4. InLine(P, PairsInLine(n))
  <2>1. \A x, y \in P : <<x, y>> \in PairsInLine(n) <=>
                           x[1] < y[1] \/ (x[1] = y[1] /\ x[2] < y[2])
    BY DEF PairsInLine
  <2>2. \A x \in P : x[1] \in Int /\ x[2] \in Int /\ x = <<x[1], x[2]>>  BY DEF Pairs
  <2> HIDE DEF P
  <2>3. \A x, y \in P : x # y => x[1] # y[1] \/ x[2] # y[2]  BY <2>2, Zenon
  <2> QED  BY <2>1, <2>2, <2>3 DEF InLine
<1>5. Sortable(P, PairsInLine(n))  BY <1>3, <1>4, LinesCanBeSorted
<1>6. PICK q : Sorted(q, P, PairsInLine(n))  BY <1>5 DEF Sortable
<1>7. q \in [1..c -> P] /\ \A i, j \in 1..c : i < j =>
          q[i][1] < q[j][1] \/ (q[i][1] = q[j][1] /\ q[i][2] < q[j][2])
  BY <1>6 DEF Sorted, PairsInLine
<1>8. PrinciplePairs(n) \in [1..c -> P]  BY <1>7, Zenon DEF PrinciplePairs, Ranked, Pairs
<1>9. <<1, 2>> \in P  BY DEF Pairs
<1>10. c # 0  BY <1>3, <1>9, FS_EmptySet
<1> HIDE DEF P, c
<1> QED  BY <1>3, <1>8, <1>10

\* A composed plan has a strategy.
LEMMA CopPlansSomething ==
  ASSUME NEW n \in Nat, NEW triggers, triggers \in [1..n -> Range(triggers)]
  PROVE  Len(CopStrategies(triggers)) \in Nat \ {0}
<1> DEFINE seqs == [i \in 1..n |-> Principles(triggers[i])]
           ps == FlattenSeq(seqs)
           Y == {<<"principle", t, k>> : t \in Range(triggers), k \in 1..2}
<1>1. Len(triggers) = n  OBVIOUS
<1>2. CASE n = 0
  <2>1. ps = <<>>  BY <1>2 DEF FlattenSeq
  <2>2. CopStrategies(triggers) = << <<"authority_trust_AND_scarcity_urgency">> >>
    BY <1>1, <2>1 DEF CopStrategies
  <2> QED  BY <2>2
<1>3. CASE n # 0
  <2>1. \A i \in 1..n : Principles(triggers[i]) \in Seq(Y) /\ Len(Principles(triggers[i])) = 2
    <3>1. 2 \in Nat  OBVIOUS
    <3>2. ASSUME NEW i \in 1..n PROVE Principles(triggers[i]) \in [1..2 -> Y]
      <4>1. triggers[i] \in Range(triggers)  OBVIOUS
      <4> QED  BY <4>1 DEF Principles
    <3> HIDE DEF Y
    <3> QED  BY <3>1, <3>2, ListLength, Zenon
  <2> HIDE DEF Y
  <2>2. seqs \in [1..n -> Seq(Y)] /\ Len(seqs[1]) = 2  BY <1>3, <2>1
  <2> HIDE DEF seqs
  <2>3. ps \in Seq(Y) /\ Len(ps) >= 2  BY <1>3, <2>2, FlattenLength
  <2>4. ps # <<>> /\ Len(ps) \in Nat  BY <2>3
  <2> HIDE DEF ps
  <2>5. CopStrategies(triggers) = AndStrategies(ps) \o ThenStrategies(ps)
    <3>1. ps = FlattenSeq([i \in 1..Len(triggers) |-> Principles(triggers[i])])
      BY <1>1 DEF ps, seqs
    <3> QED  BY <2>4, <3>1, Zenon DEF CopStrategies
  <2> DEFINE pairs == PrinciplePairs(Len(ps))
             a == Min({5, Len(pairs)})
  <2>6. Len(pairs) \in Nat \ {0}  BY <2>3, <2>4, PairsAreRanked
  <2>7. AndStrategies(ps) = [k \in 1..a |-> <<"AND", ps[pairs[k][1]], ps[pairs[k][2]]>>]
    BY Zenon DEF AndStrategies
  <2> HIDE DEF pairs
  <2>8. a \in Nat \ {0}  BY <2>6, MinOfTwo
  <2> HIDE DEF a
  <2>9. AndStrategies(ps) = [k \in 1..a |-> AndStrategies(ps)[k]] /\ Len(AndStrategies(ps)) = a
    BY <2>7, <2>8
  <2> DEFINE m == Min({3 - Len(AndStrategies(ps)), Len(ps) - 1})
             t == Max({0, m})
  <2>10. ThenStrategies(ps) = [k \in 1..t |-> <<"THEN", ps[1], ps[k + 1]>>]
    BY Zenon DEF ThenStrategies
  <2>11. t \in Nat
    <3>1. 3 - Len(AndStrategies(ps)) \in Int /\ Len(ps) - 1 \in Int  BY <2>4, <2>8, <2>9
    <3>2. m \in Int  BY <3>1, MinOfTwo
    <3> HIDE DEF m
    <3> QED  BY <3>2, MaxOfTwo
  <2> HIDE DEF t
  <2>12. ThenStrategies(ps) = [k \in 1..t |-> ThenStrategies(ps)[k]]  BY <2>10
  <2>13. Len(AndStrategies(ps) \o ThenStrategies(ps)) = a + t
    BY <2>8, <2>9, <2>11, <2>12, ListsInARow
  <2> QED  BY <2>5, <2>8, <2>11, <2>13
<1> QED  BY <1>2, <1>3

LEMMA PlansSomething ==
  ASSUME NEW p \in Personas, NEW c \in BOOLEAN
  PROVE  Len(DeriveStrategies(p, c)) \in Nat \ {0}
<1>1. p.allowed \in Seq(Range(p.allowed)) /\ p.triggers \in Seq(Range(p.triggers))
  BY AttackAssumption
<1>2. CASE p.allowed # <<>>  BY <1>1, <1>2 DEF DeriveStrategies
<1>3. CASE p.allowed = <<>> /\ c
  <2>1. /\ Len(p.triggers) \in Nat
        /\ p.triggers \in [1..Len(p.triggers) -> Range(p.triggers)]
    BY <1>1
  <2>2. Len(CopStrategies(p.triggers)) \in Nat \ {0}  BY <2>1, CopPlansSomething
  <2> QED  BY <1>3, <2>2 DEF DeriveStrategies
<1>4. CASE p.allowed = <<>> /\ ~c /\ p.triggers = <<>>
  BY <1>4 DEF DeriveStrategies
<1>5. CASE p.allowed = <<>> /\ ~c /\ p.triggers # <<>>
  <2> DEFINE n == Len(p.triggers)
             seqs == [i \in 1..n |-> TriggerStrategies(p.triggers[i])]
             Y == {<<t, k>> : t \in Range(p.triggers), k \in 1..3}
  <2>1. n \in Nat /\ n # 0  BY <1>1, <1>5
  <2>2. \A i \in 1..n : /\ TriggerStrategies(p.triggers[i]) \in Seq(Y)
                        /\ Len(TriggerStrategies(p.triggers[i])) = 3
    <3>1. 3 \in Nat  OBVIOUS
    <3>2. ASSUME NEW i \in 1..n PROVE TriggerStrategies(p.triggers[i]) \in [1..3 -> Y]
      <4>1. p.triggers[i] \in Range(p.triggers)  BY <1>1 DEF Range
      <4> QED  BY <4>1 DEF TriggerStrategies
    <3> HIDE DEF Y
    <3> QED  BY <3>1, <3>2, ListLength, Zenon
  <2>3. DeriveStrategies(p, c) = FlattenSeq(seqs)  BY <1>5 DEF DeriveStrategies
  <2> HIDE DEF Y, n
  <2>4. seqs \in [1..n -> Seq(Y)] /\ Len(seqs[1]) = 3  BY <2>1, <2>2
  <2> HIDE DEF seqs
  <2>5. FlattenSeq(seqs) \in Seq(Y) /\ Len(FlattenSeq(seqs)) >= 3  BY <2>1, <2>4, FlattenLength
  <2> QED  BY <2>3, <2>5
<1> QED  BY <1>2, <1>3, <1>4, <1>5

-----------------------------------------------------------------------------
\* No step is another algorithm's.
LEMMA AlgorithmStays == [AttackNext]_attackVars => UNCHANGED atkSettings
<1> USE DEF atkSettings, atkVars, Running, Sent, SendRaised, ExchangeRaised, Finish
<1>1. PairNext => UNCHANGED atkSettings
  BY DEF PairNext, PairSkip, PairPrompt, PairQuery
<1>2. TapNext => UNCHANGED atkSettings
  BY DEF TapNext, TapDryRun, TapBranch, TapPruneOffTopic, TapQuery
<1>3. CresNext => UNCHANGED atkSettings
  BY DEF CresNext, CresSkip, CresRecommend, CresPromptAttacker, CresQuery
<1>4. MctsNext => UNCHANGED atkSettings
  BY DEF MctsNext, MctsSkip, MctsStop, MctsSelect, MctsExpand, MctsRollout, MctsBackpropagate
<1>5. ChainNext => UNCHANGED atkSettings
  BY DEF ChainNext, ChainSkip, ReconProbe, SocialPhase, ExploitPhase
<1>6. JudgeTrace => UNCHANGED atkSettings  BY DEF JudgeTrace
<1>7. UNCHANGED attackVars => UNCHANGED atkSettings  BY DEF attackVars
<1> QED  BY <1>1, <1>2, <1>3, <1>4, <1>5, <1>6, <1>7
     DEF AttackNext, Pair, Tap, Crescendo, Mcts, Chain, Judge

LEMMA OwnSteps ==
  ASSUME [AttackNext]_attackVars
  PROVE  \/ algorithm = "pair" /\ PairNext
         \/ algorithm = "tap" /\ TapNext
         \/ algorithm = "crescendo" /\ CresNext
         \/ algorithm = "mcts" /\ MctsNext
         \/ algorithm = "agent_chain" /\ ChainNext
         \/ Judge
         \/ UNCHANGED attackVars
<1> USE DEF Running
<1>1. PairNext => algorithm = "pair"
  BY DEF PairNext, PairSkip, PairPrompt, PairQuery
<1>2. TapNext => algorithm = "tap"
  BY DEF TapNext, TapDryRun, TapBranch, TapPruneOffTopic, TapQuery
<1>3. CresNext => algorithm = "crescendo"
  BY DEF CresNext, CresSkip, CresRecommend, CresPromptAttacker, CresQuery
<1>4. MctsNext => algorithm = "mcts"
  BY DEF MctsNext, MctsSkip, MctsStop, MctsSelect, MctsExpand, MctsRollout, MctsBackpropagate
<1>5. ChainNext => algorithm = "agent_chain"
  BY DEF ChainNext, ChainSkip, ReconProbe, SocialPhase, ExploitPhase
<1> QED  BY <1>1, <1>2, <1>3, <1>4, <1>5 DEF AttackNext, Pair, Tap, Crescendo, Mcts, Chain

-----------------------------------------------------------------------------
(***************************************************************************)
(* Crescendo                                                               *)
(***************************************************************************)
CresTurns == [number : Nat, level : Nat, score : Int, backtracks : Int, shown : Seq(Nat)]

\* The history is what escalated, one entry for each.
CresShape ==
  /\ atkTurns \in Seq(CresTurns)
  /\ cresHistory \in Seq(Nat) /\ cresLevel \in Nat /\ cresAttempt \in Nat
  /\ cresTurn = Len(atkTurns) + 1
  /\ Len(cresHistory) = Cardinality(EscalatedIn(atkTurns, Len(atkTurns)))

CresHistoryInv == algorithm = "crescendo" => CresShape /\ HistoryIsTheEscalatedTurns

\* What one more turn escalates.
LEMMA EscalatedGrows ==
  ASSUME NEW turns \in Seq(CresTurns), NEW r \in CresTurns
  PROVE  /\ \A m \in 0..Len(turns) : EscalatedIn(Append(turns, r), m) = EscalatedIn(turns, m)
         /\ Escalates(r.score) => EscalatedIn(Append(turns, r), Len(turns) + 1)
                                     = EscalatedIn(turns, Len(turns)) \cup {Len(turns) + 1}
         /\ ~Escalates(r.score) => EscalatedIn(Append(turns, r), Len(turns) + 1)
                                     = EscalatedIn(turns, Len(turns))
         /\ Len(turns) + 1 \notin EscalatedIn(turns, Len(turns))
         /\ IsFiniteSet(EscalatedIn(turns, Len(turns)))
<1> DEFINE n == Len(turns)
           new == Append(turns, r)
<1>1. n \in Nat /\ new[n + 1] = r /\ \A k \in 1..n : new[k] = turns[k]  OBVIOUS
<1>2. ASSUME NEW m \in 0..n PROVE EscalatedIn(new, m) = EscalatedIn(turns, m)
  <2>1. \A k \in 1..m : new[k] = turns[k]  BY <1>1
  <2> QED  BY <2>1 DEF EscalatedIn
<1>3. \A k : k \in EscalatedIn(new, n + 1) <=> k \in 1..(n + 1) /\ Escalates(new[k].score)
  BY DEF EscalatedIn
<1>4. \A k : k \in EscalatedIn(turns, n) <=> k \in 1..n /\ Escalates(turns[k].score)
  BY DEF EscalatedIn
<1>5. \A k : k \in 1..(n + 1) <=> (k \in 1..n \/ k = n + 1)  BY <1>1
<1>6. n + 1 \notin 1..n  BY <1>1
<1>7. IsFiniteSet(1..n)  BY <1>1, FS_Interval
<1>8. IsFiniteSet(EscalatedIn(turns, n))  BY <1>7, FS_Subset DEF EscalatedIn
<1> HIDE DEF n, new
<1>9. Escalates(r.score) => EscalatedIn(new, n + 1) = EscalatedIn(turns, n) \cup {n + 1}
  BY <1>1, <1>3, <1>4, <1>5
<1>10. ~Escalates(r.score) => EscalatedIn(new, n + 1) = EscalatedIn(turns, n)
  BY <1>1, <1>3, <1>4, <1>5
<1>11. n + 1 \notin EscalatedIn(turns, n)  BY <1>4, <1>6
<1> QED  BY <1>2, <1>8, <1>9, <1>10, <1>11 DEF n, new
\* The property of a next state, in terms of its turns.
LEMMA HistoryThen ==
  ASSUME Range(cresHistory') = EscalatedIn(atkTurns', Len(atkTurns')),
         cresLevel' = Min({5, Len(cresHistory')}),
         \A k \in 1..Len(atkTurns') :
            /\ Range(atkTurns'[k].shown) = EscalatedIn(atkTurns', k - 1)
            /\ atkTurns'[k].level = Min({5, Cardinality(EscalatedIn(atkTurns', k - 1))}),
         atkTurns' \in Seq(CresTurns)
  PROVE  HistoryIsTheEscalatedTurns'
<1>1. DOMAIN atkTurns' = 1..Len(atkTurns')  OBVIOUS
<1>2. \A m : EscalatedIn(atkTurns, m)' = EscalatedIn(atkTurns', m)  BY DEF EscalatedIn, Escalates
<1> QED  BY <1>1, <1>2, Zenon DEF HistoryIsTheEscalatedTurns

\* What an accepted turn does to the trace, the history and the level.
LEMMA CresAccepted ==
  ASSUME CresShape, HistoryIsTheEscalatedTurns, algorithm = "crescendo", algorithm' = algorithm,
         NEW s \in HeuristicScores, CresAccept(s)
  PROVE  CresShape' /\ HistoryIsTheEscalatedTurns'
<1> DEFINE n == Len(atkTurns)
           r == [number |-> cresTurn, level |-> cresLevel, score |-> s,
                 backtracks |-> cresAttempt - 1, shown |-> cresHistory]
           E == EscalatedIn(atkTurns, n)
<1>1. n \in Nat /\ cresTurn = n + 1 /\ r \in CresTurns
  BY ScoresAre DEF CresShape, CresTurns
<1>2. atkTurns' = Append(atkTurns, r) /\ cresTurn' = n + 2 /\ cresAttempt' = 1
  BY <1>1 DEF CresAccept
<1>3. /\ atkTurns' \in Seq(CresTurns) /\ Len(atkTurns') = n + 1
      /\ atkTurns'[n + 1] = r /\ \A k \in 1..n : atkTurns'[k] = atkTurns[k]
  <2> HIDE DEF r
  <2> QED  BY <1>1, <1>2 DEF CresShape
<1>4. r.score = s /\ r.level = cresLevel /\ r.shown = cresHistory  OBVIOUS
<1>5. /\ \A m \in 0..n : EscalatedIn(atkTurns, m)' = EscalatedIn(atkTurns, m)
      /\ EscalatedIn(atkTurns', n + 1) = IF Escalates(s) THEN E \cup {n + 1} ELSE E
      /\ n + 1 \notin E /\ IsFiniteSet(E)
  <2> HIDE DEF r
  <2>1. atkTurns \in Seq(CresTurns)  BY DEF CresShape
  <2> QED  BY <1>1, <1>2, <1>4, <2>1, EscalatedGrows
<1>6. Range(cresHistory) = E /\ cresLevel = Min({5, Len(cresHistory)})
      /\ Len(cresHistory) = Cardinality(E) /\ cresHistory \in Seq(Nat)
  BY DEF HistoryIsTheEscalatedTurns, CresShape
<1>7. \A k \in 1..(n + 1) :
        /\ Range(atkTurns'[k].shown) = EscalatedIn(atkTurns', k - 1)
        /\ atkTurns'[k].level = Min({5, Cardinality(EscalatedIn(atkTurns', k - 1))})
  <2> SUFFICES ASSUME NEW k \in 1..(n + 1)
               PROVE  /\ Range(atkTurns'[k].shown) = EscalatedIn(atkTurns', k - 1)
                      /\ atkTurns'[k].level = Min({5, Cardinality(EscalatedIn(atkTurns', k - 1))})
    OBVIOUS
  <2>1. EscalatedIn(atkTurns', k - 1) = EscalatedIn(atkTurns, k - 1)
    <3>1. k - 1 \in 0..n  BY <1>1
    <3>2. EscalatedIn(atkTurns, k - 1)' = EscalatedIn(atkTurns', k - 1)  BY DEF EscalatedIn, Escalates
    <3> QED  BY <1>5, <3>1, <3>2
  <2>2. CASE k \in 1..n
    <3>1. k \in DOMAIN atkTurns  BY <2>2 DEF CresShape
    <3>2. atkTurns'[k] = atkTurns[k]  BY <1>3, <2>2
    <3> QED  BY <2>1, <3>1, <3>2 DEF HistoryIsTheEscalatedTurns
  <2>3. CASE k = n + 1
    <3>1. k - 1 = n  BY <1>1, <2>3
    <3>2. EscalatedIn(atkTurns', k - 1) = E  BY <2>1, <3>1
    <3>3. atkTurns'[k] = r  BY <1>3, <2>3
    <3> HIDE DEF r, E
    <3> QED  BY <1>4, <1>6, <3>2, <3>3
  <2> QED  BY <1>1, <2>2, <2>3
<1> HIDE DEF r, E
<1>p. EscalatedIn(atkTurns, Len(atkTurns))' = EscalatedIn(atkTurns', n + 1)
  BY <1>3 DEF EscalatedIn, Escalates
<1>8. CASE Escalates(s)
  <2>1. cresHistory' = Append(cresHistory, n + 1) /\ cresLevel' = Min({cresLevel + 1, 5})
    BY <1>1, <1>8 DEF CresAccept
  <2>2. EscalatedIn(atkTurns', n + 1) = E \cup {n + 1}  BY <1>5, <1>8
  <2>3. cresHistory' \in Seq(Nat) /\ Len(cresHistory') = Len(cresHistory) + 1
    BY <1>1, <1>6, <2>1
  <2>4. Range(cresHistory') = Range(cresHistory) \cup {n + 1}
    <3> DEFINE h == cresHistory'
    <3>1. DOMAIN h = DOMAIN cresHistory \cup {Len(cresHistory) + 1}  BY <1>6, <2>1
    <3>2. h[Len(cresHistory) + 1] = n + 1
      BY <1>6, <2>1
    <3>3. \A i \in DOMAIN cresHistory : h[i] = cresHistory[i]  BY <1>6, <2>1
    <3> HIDE DEF h
    <3> QED  BY <3>1, <3>2, <3>3 DEF Range, h
  <2>5. Cardinality(E \cup {n + 1}) = Cardinality(E) + 1  BY <1>5, FS_AddElement
  <2>6. cresLevel' = Min({5, Len(cresHistory')}) /\ cresLevel' \in Nat
    <3> DEFINE l == Len(cresHistory)
    <3>1. l \in Nat /\ Len(cresHistory') = l + 1  BY <1>6, <2>3
    <3>2. cresLevel = IF 5 <= l THEN 5 ELSE l  BY <1>6, <3>1, MinOfTwo
    <3>3. cresLevel' = IF cresLevel + 1 <= 5 THEN cresLevel + 1 ELSE 5
      BY <2>1, <3>1, <3>2, MinOfTwo
    <3>4. Min({5, l + 1}) = IF 5 <= l + 1 THEN 5 ELSE l + 1  BY <3>1, MinOfTwo
    <3> HIDE DEF l
    <3> QED  BY <3>1, <3>2, <3>3, <3>4
  <2>7. CresShape'
    <3>1. cresTurn' = Len(atkTurns') + 1 /\ cresAttempt' \in Nat  BY <1>1, <1>2, <1>3
    <3>2. Len(cresHistory') = Cardinality(EscalatedIn(atkTurns, Len(atkTurns))')
      BY <1>6, <1>p, <2>2, <2>3, <2>5
    <3>3. atkTurns' \in Seq(CresTurns) /\ cresHistory' \in Seq(Nat) /\ cresLevel' \in Nat
      BY <1>3, <2>3, <2>6
    <3> QED  BY <3>1, <3>2, <3>3, Zenon DEF CresShape
  <2>8. HistoryIsTheEscalatedTurns'
    <3>1. Range(cresHistory') = EscalatedIn(atkTurns', Len(atkTurns'))
      BY <1>3, <1>6, <2>2, <2>4
    <3>2. cresLevel' = Min({5, Len(cresHistory')})  BY <2>6
    <3> QED  BY <1>3, <1>7, <3>1, <3>2, HistoryThen
  <2> QED  BY <2>7, <2>8
<1>9. CASE ~Escalates(s)
  <2>1. cresHistory' = cresHistory /\ cresLevel' = cresLevel  BY <1>9 DEF CresAccept
  <2>2. EscalatedIn(atkTurns', n + 1) = E  BY <1>5, <1>9
  <2>3. CresShape'
    <3>1. cresTurn' = Len(atkTurns') + 1 /\ cresAttempt' \in Nat  BY <1>1, <1>2, <1>3
    <3>2. Len(cresHistory') = Cardinality(EscalatedIn(atkTurns, Len(atkTurns))')
      BY <1>6, <1>p, <2>1, <2>2
    <3>3. atkTurns' \in Seq(CresTurns) /\ cresHistory' \in Seq(Nat) /\ cresLevel' \in Nat
      BY <1>3, <1>6, <2>1 DEF CresShape
    <3> QED  BY <3>1, <3>2, <3>3, Zenon DEF CresShape
  <2>4. HistoryIsTheEscalatedTurns'
    <3>1. Range(cresHistory') = EscalatedIn(atkTurns', Len(atkTurns'))
      BY <1>3, <1>6, <2>1, <2>2
    <3>2. cresLevel' = Min({5, Len(cresHistory')})  BY <1>6, <2>1
    <3> QED  BY <1>3, <1>7, <3>1, <3>2, HistoryThen
  <2> QED  BY <2>3, <2>4
<1> QED  BY <1>8, <1>9

LEMMA CresHistoryInit == AttackInit => CresHistoryInv
<1> SUFFICES ASSUME AttackInit PROVE CresShape /\ HistoryIsTheEscalatedTurns
  BY DEF CresHistoryInv
<1>1. atkTurns = <<>> /\ cresHistory = <<>> /\ cresLevel = 0 /\ cresTurn = 1 /\ cresAttempt = 1
  BY DEF AttackInit, AtkInit, CresInit
<1>2. EscalatedIn(atkTurns, Len(atkTurns)) = {}  BY <1>1 DEF EscalatedIn
<1>3. Min({5, 0}) = 0  BY MinOfTwo
<1>4. CresShape  BY <1>1, <1>2, FS_EmptySet DEF CresShape
<1> QED  BY <1>1, <1>2, <1>3, <1>4 DEF HistoryIsTheEscalatedTurns, Range

LEMMA CresHistoryNext == CresHistoryInv /\ [AttackNext]_attackVars => CresHistoryInv'
<1> SUFFICES ASSUME CresHistoryInv, [AttackNext]_attackVars, algorithm' = "crescendo"
             PROVE  CresShape' /\ HistoryIsTheEscalatedTurns'
  BY DEF CresHistoryInv
<1>1. algorithm = "crescendo"  BY AlgorithmStays DEF atkSettings
<1>2. CresShape /\ HistoryIsTheEscalatedTurns  BY <1>1 DEF CresHistoryInv
<1>3. ASSUME UNCHANGED <<atkTurns, cresHistory, cresLevel, cresTurn>>, cresAttempt' \in Nat
      PROVE  CresShape' /\ HistoryIsTheEscalatedTurns'
  BY <1>1, <1>2, <1>3 DEF CresShape, HistoryIsTheEscalatedTurns, EscalatedIn, Escalates
<1>4. cresAttempt \in Nat /\ cresAttempt + 1 \in Nat  BY <1>2 DEF CresShape
<1>5. CASE Judge \/ UNCHANGED attackVars
  BY <1>3, <1>4, <1>5 DEF Judge, JudgeTrace, attackVars, atkVars, cresVars
<1>6. CASE CresSkip \/ CresRecommend
  BY <1>3, <1>4, <1>6 DEF CresSkip, CresRecommend, atkVars, cresVars
<1>7. CASE CresPromptAttacker
  BY <1>3, <1>4, <1>7 DEF CresPromptAttacker, SendRaised, cresVars
<1>8. CASE CresQuery
  <2>1. CASE SendRaised /\ UNCHANGED cresVars
    BY <1>3, <1>4, <2>1 DEF SendRaised, cresVars
  <2>2. CASE \E s \in HeuristicScores : CresAccept(s)
    BY <1>1, <1>2, <2>2, CresAccepted
  <2>3. CASE cresAttempt' = cresAttempt + 1 /\ UNCHANGED <<atkTurns, cresTurn, cresLevel, cresHistory>>
    BY <1>3, <1>4, <2>3
  <2> QED  BY <1>8, <2>1, <2>2, <2>3 DEF CresQuery
<1> QED  BY <1>1, <1>5, <1>6, <1>7, <1>8, OwnSteps DEF CresNext

\* For every number of turns and retries, whatever the target answers: Crescendo's
\* history is what escalated (core/crescendo.py, run).
THEOREM EscalatedTurnsAreShown == AttackSpec => []HistoryIsTheEscalatedTurns
<1>1. CresHistoryInv => HistoryIsTheEscalatedTurns
  BY DEF CresHistoryInv, HistoryIsTheEscalatedTurns
<1> QED  BY CresHistoryInit, CresHistoryNext, <1>1, PTL DEF AttackSpec
-----------------------------------------------------------------------------
(***************************************************************************)
(* Search trees                                                            *)
(***************************************************************************)
\* A list of nodes grown from a root, every node after its parent.
Tree(nodes, n) ==
  /\ n \in Nat \ {0} /\ DOMAIN nodes = 1..n
  /\ \A i \in 1..n :
        /\ nodes[i].depth \in Nat
        /\ IF i = 1 THEN nodes[i].parent = 0 /\ nodes[i].depth = 0
           ELSE /\ nodes[i].parent \in 1..(i - 1)
                /\ nodes[i].depth = nodes[nodes[i].parent].depth + 1

\* The walk from k up, one depth at a time.
Walk(up, nodes, n, k, d) ==
  /\ up \in [0..d -> 1..n]
  /\ up[0] = k
  /\ \A j \in 1..d : up[j] = nodes[up[j - 1]].parent
  /\ \A j \in 0..d : nodes[up[j]].depth = d - j

LEMMA WalkUpIs ==
  ASSUME NEW nodes, NEW n, Tree(nodes, n), NEW k \in 1..n
  PROVE  Walk(WalkUp(nodes, k), nodes, n, k, nodes[k].depth)
<1> DEFINE d == nodes[k].depth
           W(up) == up = [j \in 0..d |-> IF j = 0 THEN k ELSE nodes[up[j - 1]].parent]
           g == [x \in Nat \X Int |-> IF x[1] \in 1..n THEN nodes[x[1]].parent ELSE 0]
<1>0. n \in Nat \ {0} /\ d \in Nat /\ k \in Nat  BY DEF Tree
<1>1. \A i \in 1..n : /\ nodes[i].parent \in Nat /\ nodes[i].depth \in Nat
                      /\ nodes[i].depth # 0 => /\ nodes[i].parent \in 1..n
                                               /\ nodes[nodes[i].parent].depth = nodes[i].depth - 1
  <2> SUFFICES ASSUME NEW i \in 1..n
               PROVE  /\ nodes[i].parent \in Nat /\ nodes[i].depth \in Nat
                      /\ nodes[i].depth # 0 => /\ nodes[i].parent \in 1..n
                                               /\ nodes[nodes[i].parent].depth = nodes[i].depth - 1
    OBVIOUS
  <2>1. nodes[i].depth \in Nat  BY DEF Tree
  <2>2. CASE i = 1  BY <2>1, <2>2 DEF Tree
  <2>3. CASE i # 1
    <3>1. nodes[i].parent \in 1..(i - 1) /\ nodes[i].depth = nodes[nodes[i].parent].depth + 1
      BY <2>3 DEF Tree
    <3>2. nodes[i].parent \in 1..n /\ nodes[i].parent \in Nat  BY <1>0, <3>1
    <3>3. nodes[nodes[i].parent].depth \in Nat  BY <3>2 DEF Tree
    <3> QED  BY <2>1, <3>1, <3>2, <3>3
  <2> QED  BY <2>2, <2>3
<1>2. g \in [Nat \X Int -> Nat]  BY <1>1
<1> HIDE DEF g
<1>3. Stepped(Nat, k, g, 0, 0 + d)
  <2>1. 0 \in Int  OBVIOUS
  <2>2. \A m \in Nat : Stepped(Nat, k, g, 0, 0 + m)
    BY <1>0, <1>2, <2>1, StepsExist, Zenon
  <2> QED  BY <1>0, <2>2
<1>4. 0 + d = d  BY <1>0
<1>k. nodes[k].depth = d  OBVIOUS
<1> HIDE DEF d
<1>5. PICK f \in [0..d -> Nat] : Steps(f, k, g, 0, d)  BY <1>3, <1>4 DEF Stepped
<1>6. \A j \in 0..d : f[j] = IF j = 0 THEN k ELSE g[<<f[j - 1], j>>]  BY <1>5 DEF Steps
<1>f. f[0] = k
  <2>1. 0 \in 0..d  BY <1>0
  <2>2. f[0] = IF 0 = 0 THEN k ELSE g[<<f[0 - 1], 0>>]  BY <1>6, <2>1
  <2> QED  BY <2>2
<1> DEFINE Fine(h) == {j \in Nat : j <= d => h[j] \in 1..n /\ nodes[h[j]].depth = d - j}
<1>7. \A j \in Nat : j \in Fine(f)
  <2>1. 0 \in Fine(f)
    <3>1. f[0] = k  BY <1>f
    <3>2. nodes[k].depth = d - 0  BY <1>0, <1>k
    <3> QED  BY <3>1, <3>2
  <2>2. ASSUME NEW j \in Nat, j \in Fine(f) PROVE j + 1 \in Fine(f)
    <3> SUFFICES ASSUME j + 1 <= d PROVE f[j + 1] \in 1..n /\ nodes[f[j + 1]].depth = d - (j + 1)
      OBVIOUS
    <3>1. f[j] \in 1..n /\ nodes[f[j]].depth = d - j  BY <1>0, <2>2
    <3>2. j + 1 \in 0..d /\ j + 1 # 0 /\ (j + 1) - 1 = j  BY <1>0
    <3>3. f[j + 1] = g[<<f[j], j + 1>>]  BY <1>6, <3>2
    <3>4. <<f[j], j + 1>> \in Nat \X Int  BY <1>0, <3>1
    <3>5. f[j + 1] = nodes[f[j]].parent  BY <3>1, <3>3, <3>4 DEF g
    <3>6. nodes[f[j]].depth # 0  BY <1>0, <3>1
    <3>7. d - j - 1 = d - (j + 1)  BY <1>0
    <3> QED  BY <1>1, <3>1, <3>5, <3>6, <3>7
  <2> DEFINE F == Fine(f)
  <2>3. 0 \in F /\ \A j \in Nat : j \in F => j + 1 \in F  BY <2>1, <2>2
  <2> HIDE DEF F
  <2>4. \A j \in Nat : j \in F  BY <2>3, NaturalsAreIn
  <2> QED  BY <2>4 DEF F
<1>8. W(f)
  <2>1. ASSUME NEW j \in 0..d, j # 0 PROVE f[j] = nodes[f[j - 1]].parent
    <3>1. j - 1 \in Nat /\ j - 1 <= d /\ j \in Int  BY <1>0, <2>1
    <3>2. f[j - 1] \in 1..n  BY <1>7, <3>1
    <3>3. f[j] = g[<<f[j - 1], j>>]  BY <1>6, <2>1
    <3>4. <<f[j - 1], j>> \in Nat \X Int  BY <1>0, <3>1, <3>2
    <3> QED  BY <3>2, <3>3, <3>4 DEF g
  <2>2. f[0] = k  BY <1>f
  <2> QED  BY <1>5, <2>1, <2>2
<1> DEFINE up == CHOOSE h : W(h)
<1>9. WalkUp(nodes, k) = up  BY <1>k DEF WalkUp
<1>10. W(up)  BY <1>8
<1> HIDE DEF up
<1>11. up[0] = k /\ \A j \in 1..d : up[j] = nodes[up[j - 1]].parent
  BY <1>0, <1>10
<1>12. \A j \in Nat : j \in Fine(up)
  <2>1. 0 \in Fine(up)
    <3>1. nodes[k].depth = d - 0  BY <1>0, <1>k
    <3> QED  BY <1>11, <3>1
  <2>2. ASSUME NEW j \in Nat, j \in Fine(up) PROVE j + 1 \in Fine(up)
    <3> SUFFICES ASSUME j + 1 <= d PROVE up[j + 1] \in 1..n /\ nodes[up[j + 1]].depth = d - (j + 1)
      OBVIOUS
    <3>1. up[j] \in 1..n /\ nodes[up[j]].depth = d - j  BY <1>0, <2>2
    <3>2. j + 1 \in 1..d /\ (j + 1) - 1 = j  BY <1>0
    <3>5. up[j + 1] = nodes[up[j]].parent  BY <1>11, <3>2
    <3>6. nodes[up[j]].depth # 0  BY <1>0, <3>1
    <3>7. d - j - 1 = d - (j + 1)  BY <1>0
    <3> QED  BY <1>1, <3>1, <3>5, <3>6, <3>7
  <2> DEFINE F == Fine(up)
  <2>3. 0 \in F /\ \A j \in Nat : j \in F => j + 1 \in F  BY <2>1, <2>2
  <2> HIDE DEF F
  <2>4. \A j \in Nat : j \in F  BY <2>3, NaturalsAreIn
  <2> QED  BY <2>4 DEF F
<1>13. \A j \in 0..d : up[j] \in 1..n /\ nodes[up[j]].depth = d - j
  BY <1>0, <1>12
<1>14. up \in [0..d -> 1..n]
  <2>1. DOMAIN up = 0..d /\ up = [j \in 0..d |-> up[j]]  BY <1>10
  <2> HIDE DEF W
  <2> QED  BY <1>13, <2>1
<1> HIDE DEF W
<1>15. Walk(up, nodes, n, k, d)  BY <1>11, <1>13, <1>14 DEF Walk
<1> QED  BY <1>9, <1>15 DEF d

\* The ancestry of a node: it, its parent, and so on, one at each depth.
Ancestry(A, nodes, n, k) ==
  /\ A \subseteq 1..n /\ k \in A
  /\ \A x \in A : x # 1 => nodes[x].parent \in A
  /\ \A x \in A : x # k => \E c \in A : nodes[c].parent = x
  /\ \A x, y \in A : nodes[x].depth = nodes[y].depth => x = y

LEMMA AncestryIs ==
  ASSUME NEW nodes, NEW n, Tree(nodes, n), NEW k \in 1..n
  PROVE  Ancestry(Range(WalkUp(nodes, k)), nodes, n, k)
<1> DEFINE d == nodes[k].depth
           up == WalkUp(nodes, k)
           A == Range(up)
<1>1. Walk(up, nodes, n, k, d)  BY WalkUpIs
<1>2. d \in Nat /\ n \in Nat  BY DEF Tree
<1> HIDE DEF up, d
<1>3. /\ up \in [0..d -> 1..n] /\ up[0] = k
      /\ \A j \in 1..d : up[j] = nodes[up[j - 1]].parent
      /\ \A j \in 0..d : nodes[up[j]].depth = d - j
  BY <1>1 DEF Walk
<1>4. \A x \in A : \E j \in 0..d : x = up[j]  BY <1>3 DEF Range
<1>5. \A j \in 0..d : up[j] \in A  BY <1>3 DEF Range
<1> HIDE DEF A
<1>6. A \subseteq 1..n /\ k \in A
  <2>1. 0 \in 0..d  BY <1>2
  <2> QED  BY <1>3, <1>4, <1>5, <2>1
<1>7. ASSUME NEW x \in A, x # 1 PROVE nodes[x].parent \in A
  <2>1. PICK j \in 0..d : x = up[j]  BY <1>4
  <2>2. nodes[x].depth = d - j  BY <1>3, <2>1
  <2>3. nodes[x].depth # 0
    <3>1. x \in 1..n  BY <1>6
    <3>2. nodes[x].parent \in 1..(x - 1) /\ nodes[x].depth = nodes[nodes[x].parent].depth + 1
      BY <1>7, <3>1 DEF Tree
    <3>3. nodes[x].parent \in 1..n  BY <1>2, <3>1, <3>2
    <3>4. nodes[nodes[x].parent].depth \in Nat  BY <3>3 DEF Tree
    <3> QED  BY <3>2, <3>4
  <2>4. j + 1 \in 1..d /\ (j + 1) - 1 = j /\ j + 1 \in 0..d  BY <1>2, <2>2, <2>3
  <2>5. up[j + 1] = nodes[x].parent  BY <1>3, <2>1, <2>4
  <2> QED  BY <1>5, <2>4, <2>5
<1>8. ASSUME NEW x \in A, x # k PROVE \E c \in A : nodes[c].parent = x
  <2>1. PICK j \in 0..d : x = up[j]  BY <1>4
  <2>2. j # 0  BY <1>3, <1>8, <2>1
  <2>3. j \in 1..d /\ j - 1 \in 0..d  BY <1>2, <2>2
  <2>4. nodes[up[j - 1]].parent = x  BY <1>3, <2>1, <2>3
  <2> QED  BY <1>5, <2>3, <2>4
<1>9. ASSUME NEW x \in A, NEW y \in A, nodes[x].depth = nodes[y].depth PROVE x = y
  <2>1. PICK i \in 0..d : x = up[i]  BY <1>4
  <2>2. PICK j \in 0..d : y = up[j]  BY <1>4
  <2>3. d - i = d - j  BY <1>3, <1>9, <2>1, <2>2
  <2>4. i = j  BY <1>2, <2>3
  <2> QED  BY <2>1, <2>2, <2>4
<1>10. Ancestry(A, nodes, n, k)  BY <1>6, <1>7, <1>8, <1>9 DEF Ancestry
<1> QED  BY <1>10 DEF A, up
-----------------------------------------------------------------------------
(***************************************************************************)
(* MCTS                                                                    *)
(***************************************************************************)
MctsNodes == [parent : Nat, depth : Nat, visits : Int, reward : Int,
              expanded : BOOLEAN, terminal : BOOLEAN]

KidsOf(nodes, i) == {k \in DOMAIN nodes : nodes[k].parent = i}
VisitsOf(nodes)  == [i \in DOMAIN nodes |-> nodes[i].visits]
Eldest(nodes, i) == i # 1 /\ i = Min(KidsOf(nodes, nodes[i].parent))

\* The visits of a node are those of its children, and one if it was rolled out.
AddsUp(nodes, i, fresh) ==
  nodes[i].visits = (IF Eldest(nodes, i) /\ i \notin fresh THEN 1 ELSE 0)
                      + SumFunctionOnSet(VisitsOf(nodes), KidsOf(nodes, i))

Fresh == IF mctsPc = "select" THEN {} ELSE Range(mctsKids)

MctsTree ==
  /\ mctsNodes \in Seq(MctsNodes) /\ Tree(mctsNodes, Len(mctsNodes))
  /\ mctsLeaf \in 1..Len(mctsNodes)
  /\ mctsKids \in Seq(1..Len(mctsNodes))
  /\ mctsPc \in {"select", "expand", "rollout"}

\* A node with children is expanded; those of the leaf being expanded are new.
MctsKidsAre ==
  /\ \A i \in 1..Len(mctsNodes) :
        KidsOf(mctsNodes, i) # {} /\ (i = mctsLeaf => mctsPc = "select") => mctsNodes[i].expanded
  /\ mctsPc # "select" =>
        /\ Range(mctsKids) = KidsOf(mctsNodes, mctsLeaf)
        /\ \A k \in Range(mctsKids) : /\ mctsNodes[k].visits = 0
                                      /\ KidsOf(mctsNodes, k) = {}
                                      /\ mctsKids[1] <= k
  /\ mctsPc = "rollout" => mctsKids # <<>> /\ mctsNodes[mctsLeaf].expanded

MctsCounts == \A i \in 1..Len(mctsNodes) : AddsUp(mctsNodes, i, Fresh)

MctsInv == algorithm = "mcts" => MctsTree /\ MctsKidsAre /\ MctsCounts

\* Only parents and visits count.
LEMMA SameCounts ==
  ASSUME NEW nodes, NEW other, NEW n, DOMAIN nodes = 1..n, DOMAIN other = 1..n,
         \A i \in 1..n : nodes[i].parent = other[i].parent
  PROVE  /\ \A i : KidsOf(other, i) = KidsOf(nodes, i)
         /\ \A i \in 1..n : Eldest(other, i) <=> Eldest(nodes, i)
         /\ (\A i \in 1..n : nodes[i].visits = other[i].visits) =>
               /\ VisitsOf(other) = VisitsOf(nodes)
               /\ \A fresh : \A i \in 1..n : AddsUp(nodes, i, fresh) => AddsUp(other, i, fresh)
<1>1. \A i : KidsOf(other, i) = KidsOf(nodes, i)  BY DEF KidsOf
<1>2. \A i \in 1..n : Eldest(other, i) <=> Eldest(nodes, i)  BY <1>1 DEF Eldest
<1>3. ASSUME \A i \in 1..n : nodes[i].visits = other[i].visits
      PROVE  /\ VisitsOf(other) = VisitsOf(nodes)
             /\ \A fresh : \A i \in 1..n : AddsUp(nodes, i, fresh) => AddsUp(other, i, fresh)
  <2>1. VisitsOf(other) = VisitsOf(nodes)  BY <1>3 DEF VisitsOf
  <2> QED  BY <1>1, <1>2, <1>3, <2>1, Zenon DEF AddsUp
<1> QED  BY <1>1, <1>2, <1>3

\* One more child of a leaf whose children are all new.
Grown(nodes, other, n, leaf) ==
  /\ KidsOf(other, leaf) = KidsOf(nodes, leaf) \cup {n + 1}
  /\ \A i : i # leaf => KidsOf(other, i) = KidsOf(nodes, i)
  /\ \A i : leaf # i /\ i \in KidsOf(nodes, leaf) \cup {n + 1} => KidsOf(other, i) = {}
  /\ (\A i \in 1..n : AddsUp(nodes, i, KidsOf(nodes, leaf))) =>
        \A i \in 1..(n + 1) : AddsUp(other, i, KidsOf(other, leaf))

LEMMA GrownCounts ==
  ASSUME NEW n, NEW nodes, Tree(nodes, n), NEW leaf \in 1..n, NEW other, Tree(other, n + 1),
         \A i \in 1..n : nodes[i].parent = other[i].parent /\ nodes[i].visits = other[i].visits,
         \A i \in 1..n : nodes[i].visits \in Int,
         other[n + 1].parent = leaf, other[n + 1].visits = 0,
         \A k \in KidsOf(nodes, leaf) : nodes[k].visits = 0 /\ KidsOf(nodes, k) = {}
  PROVE  Grown(nodes, other, n, leaf)
<1> DEFINE K == KidsOf(nodes, leaf)
           L == KidsOf(other, leaf)
<1>0. n \in Nat \ {0} /\ DOMAIN nodes = 1..n /\ DOMAIN other = 1..(n + 1)  BY DEF Tree
<1>a. \A i : i \in 1..(n + 1) <=> i \in 1..n \/ i = n + 1  BY <1>0
<1>b. n + 1 \notin 1..n /\ leaf # n + 1  BY <1>0
<1>c. \A i \in 1..n : nodes[i].parent # i /\ nodes[i].parent # n + 1
  <2> SUFFICES ASSUME NEW i \in 1..n PROVE nodes[i].parent # i /\ nodes[i].parent # n + 1
    OBVIOUS
  <2>1. CASE i = 1
    <3>1. nodes[i].parent = 0  BY <2>1 DEF Tree
    <3> QED  BY <1>0, <2>1, <3>1
  <2>2. CASE i # 1
    <3>1. nodes[i].parent \in 1..(i - 1)  BY <2>2 DEF Tree
    <3> QED  BY <1>0, <3>1
  <2> QED  BY <2>1, <2>2
<1>1. L = K \cup {n + 1}  BY <1>0, <1>a, <1>b DEF KidsOf
<1>2. \A i : i # leaf => KidsOf(other, i) = KidsOf(nodes, i)  BY <1>0, <1>a, <1>b DEF KidsOf
<1>3. KidsOf(nodes, n + 1) = {}  BY <1>0, <1>c DEF KidsOf
<1>4. \A i : leaf # i /\ i \in K \cup {n + 1} => KidsOf(other, i) = {}
  BY <1>2, <1>3
<1>5. ASSUME \A i \in 1..n : AddsUp(nodes, i, K), NEW i \in 1..(n + 1)
      PROVE  AddsUp(other, i, L)
  <2> DEFINE f == VisitsOf(nodes)
             g == VisitsOf(other)
  <2>f. \A x \in 1..n : f[x] = g[x] /\ f[x] = nodes[x].visits
    BY <1>0, <1>a DEF VisitsOf
  <2>g. g[n + 1] = 0  BY <1>0, <1>a DEF VisitsOf
  <2>k. \A j : KidsOf(nodes, j) \subseteq 1..n /\ IsFiniteSet(KidsOf(nodes, j))
    <3>1. \A j : KidsOf(nodes, j) \subseteq 1..n  BY <1>0 DEF KidsOf
    <3>2. IsFiniteSet(1..n)  BY <1>0, FS_Interval
    <3> QED  BY <3>1, <3>2, FS_Subset
  <2>l. leaf \notin K  BY <1>c DEF KidsOf
  <2> HIDE DEF f, g, K, L
  <2>s. \A j : SumFunctionOnSet(f, KidsOf(nodes, j)) = SumFunctionOnSet(g, KidsOf(nodes, j))
    <3> SUFFICES ASSUME NEW j
                 PROVE SumFunctionOnSet(f, KidsOf(nodes, j)) = SumFunctionOnSet(g, KidsOf(nodes, j))
      OBVIOUS
    <3>1. \A x \in KidsOf(nodes, j) : f[x] \in Int /\ f[x] = g[x]  BY <2>f, <2>k
    <3> QED  BY <2>k, <3>1, SumSame
  <2>1. CASE i \in L
    <3>1. i # leaf /\ (i \in K \/ i = n + 1)  BY <1>1, <1>b, <2>l, <2>1
    <3>2. KidsOf(other, i) = {}  BY <1>4, <3>1 DEF K
    <3>3. other[i].visits = 0
      <4>1. CASE i \in K
        <5>1. i \in 1..n  BY <2>k, <4>1 DEF K
        <5>2. nodes[i].visits = 0  BY <4>1 DEF K
        <5> QED  BY <5>1, <5>2
      <4> QED  BY <3>1, <4>1
    <3>4. SumFunctionOnSet(g, {}) = 0  BY FS_EmptySet, SumOf
    <3> QED  BY <2>1, <3>2, <3>3, <3>4 DEF AddsUp, g
  <2>2. CASE i = leaf
    <3>1. SumFunctionOnSet(g, L) = SumFunctionOnSet(g, K)
      <4>1. IsFiniteSet(K) /\ K \subseteq 1..n  BY <2>k DEF K
      <4>2. IsFiniteSet(L) /\ n + 1 \in L /\ L \ {n + 1} = K
        BY <1>1, <1>b, <4>1, FS_AddElement
      <4>3. \A x \in L : g[x] \in Int  BY <1>1, <2>f, <2>g, <4>1
      <4>4. SumFunctionOnSet(g, L) = g[n + 1] + SumFunctionOnSet(g, L \ {n + 1})
        BY <4>2, <4>3, SumOf
      <4>5. SumFunctionOnSet(g, K) \in Int
        <5>1. \A x \in K : g[x] \in Int  BY <1>1, <4>3
        <5> QED  BY <4>1, <5>1, SumOf
      <4>6. SumFunctionOnSet(g, L) = 0 + SumFunctionOnSet(g, K)  BY <2>g, <4>2, <4>4
      <4> QED  BY <4>5, <4>6
    <3>2. Eldest(other, leaf) <=> Eldest(nodes, leaf)
      <4>1. KidsOf(other, other[leaf].parent) = KidsOf(nodes, nodes[leaf].parent)
        BY <1>2, <1>c
      <4> QED  BY <4>1 DEF Eldest
    <3>3. leaf \notin L  BY <1>1, <1>b, <2>l
    <3>4. AddsUp(nodes, leaf, K) /\ other[leaf].visits = nodes[leaf].visits  BY <1>5
    <3>5. SumFunctionOnSet(f, K) = SumFunctionOnSet(g, K)  BY <2>s DEF K
    <3> QED  BY <2>2, <2>l, <3>1, <3>2, <3>3, <3>4, <3>5 DEF AddsUp, f, g, K, L
  <2>3. CASE i \notin L /\ i # leaf
    <3>1. i \in 1..n /\ i \notin K  BY <1>1, <1>a, <2>3
    <3>2. nodes[i].parent # leaf  BY <1>0, <3>1 DEF K, KidsOf
    <3>3. Eldest(other, i) <=> Eldest(nodes, i)
      <4>1. KidsOf(other, other[i].parent) = KidsOf(nodes, nodes[i].parent)
        BY <1>2, <3>1, <3>2
      <4> QED  BY <4>1 DEF Eldest
    <3>4. KidsOf(other, i) = KidsOf(nodes, i)  BY <1>2, <2>3
    <3>5. AddsUp(nodes, i, K) /\ other[i].visits = nodes[i].visits  BY <1>5, <3>1
    <3>6. SumFunctionOnSet(f, KidsOf(nodes, i)) = SumFunctionOnSet(g, KidsOf(nodes, i))  BY <2>s
    <3> QED  BY <2>3, <3>1, <3>3, <3>4, <3>5, <3>6 DEF AddsUp, f, g
  <2> QED  BY <2>1, <2>2, <2>3
<1> QED  BY <1>1, <1>2, <1>4, <1>5 DEF Grown, K, L

\* A visit more for every node on the walk from a child that was rolled out.
LEMMA VisitedCounts ==
  ASSUME NEW n, NEW nodes, Tree(nodes, n), NEW other, DOMAIN other = 1..n,
         NEW k \in 1..n, NEW A, Ancestry(A, nodes, n, k), NEW fresh,
         \A i \in 1..n : nodes[i].visits \in Int,
         \A i \in 1..n : /\ other[i].parent = nodes[i].parent
                         /\ other[i].visits = nodes[i].visits + (IF i \in A THEN 1 ELSE 0),
         \A i \in 1..n : AddsUp(nodes, i, fresh),
         k \in fresh, \A i \in fresh : /\ nodes[i].visits = 0 /\ KidsOf(nodes, i) = {}
                                       /\ Eldest(nodes, i) <=> i = k
  PROVE  \A i \in 1..n : AddsUp(other, i, {})
<1> SUFFICES ASSUME NEW i \in 1..n PROVE AddsUp(other, i, {})  OBVIOUS
<1> DEFINE f == VisitsOf(nodes)
           g == VisitsOf(other)
           C == KidsOf(nodes, i)
<1>0. n \in Nat \ {0} /\ DOMAIN nodes = 1..n  BY DEF Tree
<1>1. KidsOf(other, i) = C /\ (Eldest(other, i) <=> Eldest(nodes, i))
  <2>1. \A j \in 1..n : nodes[j].parent = other[j].parent  OBVIOUS
  <2> HIDE DEF C
  <2>2. /\ \A j : KidsOf(other, j) = KidsOf(nodes, j)
        /\ \A j \in 1..n : Eldest(other, j) <=> Eldest(nodes, j)
    BY <1>0, <2>1, SameCounts, Zenon
  <2> QED  BY <2>2 DEF C
<1>2. C \subseteq 1..n /\ IsFiniteSet(C)
  <2>1. C \subseteq 1..n  BY <1>0 DEF KidsOf
  <2>2. IsFiniteSet(1..n)  BY <1>0, FS_Interval
  <2> QED  BY <2>1, <2>2, FS_Subset
<1>3. \A x \in 1..n : /\ f[x] = nodes[x].visits /\ f[x] \in Int
                      /\ g[x] = f[x] + (IF x \in A THEN 1 ELSE 0)
  BY <1>0 DEF VisitsOf
<1>4. \A c \in C : c \in A => i \in A /\ \A e \in C : e \in A => e = c
  <2> SUFFICES ASSUME NEW c \in C, c \in A
               PROVE  i \in A /\ \A e \in C : e \in A => e = c
    OBVIOUS
  <2>1. nodes[c].parent = i /\ c \in 1..n  BY <1>0 DEF KidsOf
  <2>2. c # 1  BY <1>0, <2>1 DEF Tree
  <2>3. i \in A  BY <2>1, <2>2 DEF Ancestry
  <2>4. ASSUME NEW e \in C, e \in A PROVE e = c
    <3>1. nodes[e].parent = i /\ e \in 1..n  BY <1>0 DEF KidsOf
    <3>2. e # 1  BY <1>0, <3>1 DEF Tree
    <3>3. nodes[e].depth = nodes[i].depth + 1 /\ nodes[c].depth = nodes[i].depth + 1
      BY <2>1, <2>2, <3>1, <3>2 DEF Tree
    <3> QED  BY <2>4, <3>3 DEF Ancestry
  <2> QED  BY <2>3, <2>4
<1>5. AddsUp(nodes, i, fresh)  OBVIOUS
<1>i. SumFunctionOnSet(f, C) \in Int
  <2>1. \A x \in C : f[x] \in Int  BY <1>2, <1>3
  <2> HIDE DEF f, C
  <2> QED  BY <1>2, <2>1, SumOf
<1>6. CASE i \in A /\ i # k
  <2>1. PICK c \in A : nodes[c].parent = i  BY <1>6 DEF Ancestry
  <2>2. c \in C
    <3>1. c \in 1..n  BY DEF Ancestry
    <3> QED  BY <1>0, <2>1, <3>1 DEF KidsOf
  <2> HIDE DEF f, g, C
  <2>3. \A x \in C : f[x] \in Int  BY <1>2, <1>3
  <2>4. \A x \in C \ {c} : f[x] = g[x]
    <3> SUFFICES ASSUME NEW x \in C \ {c} PROVE f[x] = g[x]  OBVIOUS
    <3>1. x \notin A  BY <1>4, <2>2
    <3> QED  BY <1>2, <1>3, <3>1
  <2>5. g[c] = f[c] + 1 /\ g[c] \in Int  BY <1>2, <1>3, <2>2
  <2>6. SumFunctionOnSet(g, C) = SumFunctionOnSet(f, C) + g[c] - f[c]
    <3>1. IsFiniteSet(C)  BY <1>2
    <3>2. g[c] \in Int  BY <2>5
    <3> QED  BY <2>2, <2>3, <2>4, <3>1, <3>2, SumChange
  <2>7. SumFunctionOnSet(g, C) = SumFunctionOnSet(f, C) + 1  BY <1>i, <2>2, <2>3, <2>5, <2>6
  <2>8. i \notin fresh  BY <2>2 DEF C
  <2>9. nodes[i].visits = (IF Eldest(nodes, i) THEN 1 ELSE 0) + SumFunctionOnSet(f, C)
    BY <1>5, <2>8 DEF AddsUp, f, C
  <2>10. other[i].visits = (IF Eldest(other, i) THEN 1 ELSE 0) + SumFunctionOnSet(g, C)
    BY <1>1, <1>6, <1>i, <2>7, <2>9
  <2> QED  BY <1>1, <2>10 DEF AddsUp, g
<1>7. CASE i = k
  <2>1. C = {} /\ nodes[i].visits = 0 /\ Eldest(nodes, i)  BY <1>7
  <2>2. other[i].visits = 1
    <3>1. i \in A  BY <1>7 DEF Ancestry
    <3> QED  BY <2>1, <3>1
  <2>3. SumFunctionOnSet(g, {}) = 0  BY FS_EmptySet, SumOf
  <2> QED  BY <1>1, <2>1, <2>2, <2>3 DEF AddsUp
<1>8. CASE i \notin A
  <2>1. \A x \in C : f[x] \in Int /\ f[x] = g[x]
    <3> SUFFICES ASSUME NEW x \in C PROVE f[x] \in Int /\ f[x] = g[x]  OBVIOUS
    <3>1. x \notin A  BY <1>4, <1>8
    <3> HIDE DEF f, g, C
    <3> QED  BY <1>2, <1>3, <3>1
  <2>2. SumFunctionOnSet(f, C) = SumFunctionOnSet(g, C)
    <3> HIDE DEF f, g, C
    <3> QED  BY <1>2, <2>1, SumSame
  <2>3. other[i].visits = nodes[i].visits  BY <1>8, <1>3
  <2>4. i \in fresh => ~Eldest(nodes, i)
    <3>1. i # k  BY <1>8 DEF Ancestry
    <3> QED  BY <3>1
  <2>5. nodes[i].visits = (IF Eldest(nodes, i) THEN 1 ELSE 0) + SumFunctionOnSet(f, C)
    BY <1>5, <2>4 DEF AddsUp
  <2> HIDE DEF f, C
  <2> QED  BY <1>1, <2>2, <2>3, <2>5 DEF AddsUp
<1> QED  BY <1>6, <1>7, <1>8

LEMMA MctsStarts == AttackInit => MctsInv
<1> SUFFICES ASSUME AttackInit PROVE MctsTree /\ MctsKidsAre /\ MctsCounts  BY DEF MctsInv
<1>1. /\ mctsNodes = <<MctsNode(0, 0)>> /\ mctsPc = "select" /\ mctsLeaf = 1
      /\ mctsKids = <<>>
  BY DEF AttackInit, MctsInit
<1>2. MctsNode(0, 0) \in MctsNodes  BY DEF MctsNode, MctsNodes
<1>3. /\ mctsNodes \in Seq(MctsNodes) /\ Len(mctsNodes) = 1 /\ mctsNodes[1] = MctsNode(0, 0)
      /\ DOMAIN mctsNodes = 1..1
  BY <1>1, <1>2
<1>4. Tree(mctsNodes, 1)  BY <1>3 DEF Tree, MctsNode
<1>5. KidsOf(mctsNodes, 1) = {}  BY <1>3 DEF KidsOf, MctsNode
<1>6. MctsTree  BY <1>1, <1>3, <1>4 DEF MctsTree
<1>7. MctsKidsAre  BY <1>1, <1>3, <1>5 DEF MctsKidsAre
<1>8. AddsUp(mctsNodes, 1, Fresh)
  <2>1. SumFunctionOnSet(VisitsOf(mctsNodes), {}) = 0  BY FS_EmptySet, SumOf
  <2>2. mctsNodes[1].visits = 0  BY <1>3 DEF MctsNode
  <2> QED  BY <1>5, <2>1, <2>2 DEF AddsUp, Eldest
<1>9. MctsCounts  BY <1>3, <1>8 DEF MctsCounts
<1> QED  BY <1>6, <1>7, <1>9

\* A leaf at the maximal depth becomes terminal, or an expansion begins.
LEMMA MctsSelects ==
  ASSUME MctsTree, MctsKidsAre, MctsCounts, MctsSelect
  PROVE  MctsTree' /\ MctsKidsAre' /\ MctsCounts'
<1> DEFINE n == Len(mctsNodes)
<1>1. mctsPc = "select" /\ mctsKids' = <<>>  BY DEF MctsSelect
<1>2. mctsNodes \in Seq(MctsNodes) /\ n \in Nat \ {0} /\ DOMAIN mctsNodes = 1..n
      /\ Tree(mctsNodes, n)
  BY DEF MctsTree, Tree
<1>3. PICK i \in SelectableLeaves :
         /\ mctsLeaf' = i
         /\ IF mctsNodes[i].depth >= MctsMaxDepth
            THEN mctsNodes' = [mctsNodes EXCEPT ![i].terminal = TRUE] /\ UNCHANGED mctsPc
            ELSE mctsPc' = "expand" /\ UNCHANGED mctsNodes
  BY DEF MctsSelect
<1>4. i \in 1..n /\ ~Descends(i)  BY <1>2, <1>3 DEF SelectableLeaves
<1>5. Fresh = {}  BY <1>1 DEF Fresh
<1>6. Fresh' = {}  BY <1>1 DEF Fresh, Range
<1>7. \A k \in 1..n : KidsOf(mctsNodes, k) # {} => mctsNodes[k].expanded
  BY <1>1 DEF MctsKidsAre
<1>8. CASE mctsNodes[i].depth >= MctsMaxDepth
  <2> DEFINE m == [mctsNodes[i] EXCEPT !.terminal = TRUE]
  <2>1. m \in MctsNodes /\ m.parent = mctsNodes[i].parent /\ m.depth = mctsNodes[i].depth
        /\ m.visits = mctsNodes[i].visits /\ m.expanded = mctsNodes[i].expanded
    <3>1. mctsNodes[i] \in MctsNodes  BY <1>2, <1>4
    <3> QED  BY <3>1 DEF MctsNodes
  <2>2. mctsNodes' = [mctsNodes EXCEPT ![i] = m] /\ mctsPc' = "select"  BY <1>1, <1>3, <1>8
  <2> HIDE DEF m
  <2>3. /\ mctsNodes' \in Seq(MctsNodes) /\ Len(mctsNodes') = n /\ DOMAIN mctsNodes' = 1..n
        /\ \A k \in 1..n : mctsNodes'[k] = IF k = i THEN m ELSE mctsNodes[k]
    BY <1>2, <1>4, <2>1, <2>2
  <2>4. \A k \in 1..n : /\ mctsNodes[k].parent = mctsNodes'[k].parent
                        /\ mctsNodes[k].depth = mctsNodes'[k].depth
                        /\ mctsNodes[k].visits = mctsNodes'[k].visits
                        /\ mctsNodes[k].expanded = mctsNodes'[k].expanded
    BY <2>1, <2>3
  <2> HIDE DEF n
  <2>5. /\ \A k : KidsOf(mctsNodes', k) = KidsOf(mctsNodes, k)
        /\ \A fresh : \A k \in 1..n : AddsUp(mctsNodes, k, fresh) => AddsUp(mctsNodes', k, fresh)
    BY <1>2, <2>3, <2>4, SameCounts, Zenon
  <2>6. Tree(mctsNodes', n)
    <3>1. \A k \in 1..n : k # 1 => mctsNodes[k].parent \in 1..n  BY <1>2 DEF Tree
    <3> SUFFICES ASSUME NEW k \in 1..n
                 PROVE  /\ mctsNodes'[k].depth \in Nat
                        /\ IF k = 1 THEN mctsNodes'[k].parent = 0 /\ mctsNodes'[k].depth = 0
                           ELSE /\ mctsNodes'[k].parent \in 1..(k - 1)
                                /\ mctsNodes'[k].depth = mctsNodes'[mctsNodes'[k].parent].depth + 1
      BY <1>2, <2>3 DEF Tree
    <3>2. mctsNodes'[k].depth = mctsNodes[k].depth /\ mctsNodes'[k].parent = mctsNodes[k].parent
      BY <2>4
    <3>3. k # 1 => mctsNodes'[mctsNodes[k].parent].depth = mctsNodes[mctsNodes[k].parent].depth
      BY <2>4, <3>1
    <3> QED  BY <1>2, <3>2, <3>3 DEF Tree
  <2>7. MctsTree'
    <3>1. mctsLeaf' \in 1..Len(mctsNodes')  BY <1>3, <1>4, <2>3
    <3>2. mctsKids' \in Seq(1..Len(mctsNodes'))  BY <1>1
    <3> QED  BY <2>2, <2>3, <2>6, <3>1, <3>2 DEF MctsTree
  <2>8. MctsKidsAre'
    <3>1. \A k \in 1..n : KidsOf(mctsNodes', k) # {} => mctsNodes'[k].expanded
      BY <1>7, <2>4, <2>5
    <3>2. Len(mctsNodes') = n /\ mctsPc' = "select"  BY <2>2, <2>3
    <3> QED  BY <3>1, <3>2, Zenon DEF MctsKidsAre
  <2>9. MctsCounts'  BY <1>5, <1>6, <2>3, <2>5 DEF MctsCounts, n
  <2> QED  BY <2>7, <2>8, <2>9
<1>9. CASE ~(mctsNodes[i].depth >= MctsMaxDepth)
  <2>1. mctsNodes' = mctsNodes /\ mctsPc' = "expand"  BY <1>3, <1>9
  <2>2. KidsOf(mctsNodes, i) = {}
    <3>1. mctsNodes[i].depth \in Nat /\ MctsMaxDepth \in Nat  BY <1>2, <1>4, MctsAssumption DEF Tree
    <3>2. ~mctsNodes[i].expanded \/ MctsChildren(i) = {}  BY <1>4, <1>9, <3>1 DEF Descends
    <3> QED  BY <1>4, <1>7, <3>2 DEF MctsChildren, KidsOf
  <2>3. MctsTree'
    <3>1. mctsLeaf' \in 1..Len(mctsNodes')  BY <1>3, <1>4, <2>1
    <3>2. mctsKids' \in Seq(1..Len(mctsNodes'))  BY <1>1
    <3> QED  BY <1>2, <2>1, <3>1, <3>2 DEF MctsTree
  <2>4. MctsKidsAre'
    <3>1. Range(mctsKids') = {}  BY <1>1 DEF Range
    <3> QED  BY <1>1, <1>3, <1>7, <2>1, <2>2, <3>1 DEF MctsKidsAre
  <2>5. MctsCounts'  BY <1>5, <1>6, <2>1 DEF MctsCounts
  <2> QED  BY <2>3, <2>4, <2>5
<1> QED  BY <1>8, <1>9

MctsGrows ==
  /\ mctsPc = "expand"
  /\ mctsKids' = Append(mctsKids, Len(mctsNodes) + 1)
  /\ LET grown == Append(mctsNodes, MctsNode(mctsLeaf, mctsNodes[mctsLeaf].depth + 1))
         last  == Len(mctsKids') = SampledStrategies
     IN  /\ mctsNodes' = [grown EXCEPT ![mctsLeaf].expanded = last]
         /\ mctsPc' = IF last THEN "rollout" ELSE "expand"
  /\ UNCHANGED mctsLeaf

\* A child for one more strategy.
LEMMA MctsExpands ==
  ASSUME MctsTree, MctsKidsAre, MctsCounts, MctsGrows
  PROVE  MctsTree' /\ MctsKidsAre' /\ MctsCounts'
<1> DEFINE n == Len(mctsNodes)
           leaf == mctsLeaf
           last == Len(mctsKids') = SampledStrategies
           new == MctsNode(leaf, mctsNodes[leaf].depth + 1)
           grown == Append(mctsNodes, new)
           m == [mctsNodes[leaf] EXCEPT !.expanded = last]
<1>1. mctsNodes \in Seq(MctsNodes) /\ n \in Nat \ {0} /\ DOMAIN mctsNodes = 1..n
      /\ Tree(mctsNodes, n) /\ leaf \in 1..n /\ mctsKids \in Seq(1..n)
  BY DEF MctsTree, Tree
<1>2. /\ mctsNodes[leaf] \in MctsNodes /\ mctsNodes[leaf].depth \in Nat
      /\ \A i \in 1..n : mctsNodes[i].visits \in Int
  <2>1. \A i \in 1..n : mctsNodes[i] \in MctsNodes  BY <1>1
  <2>2. \A m1 \in MctsNodes : m1.visits \in Int /\ m1.depth \in Nat  BY DEF MctsNodes
  <2> QED  BY <1>1, <2>1, <2>2
<1>3. new \in MctsNodes /\ new.parent = leaf /\ new.visits = 0
      /\ new.depth = mctsNodes[leaf].depth + 1
  BY <1>1, <1>2 DEF MctsNode, MctsNodes
<1>4. m \in MctsNodes /\ m.parent = mctsNodes[leaf].parent /\ m.depth = mctsNodes[leaf].depth
      /\ m.visits = mctsNodes[leaf].visits /\ m.expanded = last
  BY <1>2 DEF MctsNodes
<1>5. mctsNodes' = [grown EXCEPT ![leaf].expanded = last] /\ mctsLeaf' = leaf
  BY DEF MctsGrows
<1> HIDE DEF new, last
<1>6. grown \in Seq(MctsNodes) /\ Len(grown) = n + 1 /\ grown[n + 1] = new
      /\ \A i \in 1..n : grown[i] = mctsNodes[i]
  BY <1>1, <1>3
<1>7. mctsNodes' = [grown EXCEPT ![leaf] = m]
  <2>1. grown[leaf] = mctsNodes[leaf]  BY <1>1, <1>6
  <2> HIDE DEF grown
  <2> QED  BY <1>5, <2>1
<1> HIDE DEF grown, m
<1>8. /\ mctsNodes' \in Seq(MctsNodes) /\ Len(mctsNodes') = n + 1
      /\ DOMAIN mctsNodes' = 1..(n + 1)
      /\ mctsNodes'[n + 1] = new /\ mctsNodes'[leaf] = m
      /\ \A i \in 1..n : i # leaf => mctsNodes'[i] = mctsNodes[i]
  <2>1. leaf \in 1..(n + 1) /\ leaf # n + 1 /\ n + 1 \in 1..(n + 1)  BY <1>1
  <2>2. \A i \in 1..n : i \in 1..(n + 1)  BY <1>1
  <2> QED  BY <1>4, <1>6, <1>7, <2>1, <2>2
<1>9. \A i \in 1..n : /\ mctsNodes[i].parent = mctsNodes'[i].parent
                      /\ mctsNodes[i].depth = mctsNodes'[i].depth
                      /\ mctsNodes[i].visits = mctsNodes'[i].visits
                      /\ i # leaf => mctsNodes[i].expanded = mctsNodes'[i].expanded
  BY <1>4, <1>8
<1>a. \A i : i \in 1..(n + 1) <=> i \in 1..n \/ i = n + 1  BY <1>1
<1>10. Tree(mctsNodes', n + 1)
  <2> SUFFICES ASSUME NEW i \in 1..(n + 1)
               PROVE  /\ mctsNodes'[i].depth \in Nat
                      /\ IF i = 1 THEN mctsNodes'[i].parent = 0 /\ mctsNodes'[i].depth = 0
                         ELSE /\ mctsNodes'[i].parent \in 1..(i - 1)
                              /\ mctsNodes'[i].depth = mctsNodes'[mctsNodes'[i].parent].depth + 1
    BY <1>1, <1>8 DEF Tree
  <2>1. CASE i \in 1..n
    <3>a. Tree(mctsNodes, n) /\ n \in Nat  BY <1>1
    <3>b. i # 1 => mctsNodes[i].parent \in 1..(i - 1)  BY <3>a, <2>1 DEF Tree
    <3>1. i # 1 => mctsNodes[i].parent \in 1..n  BY <3>a, <3>b, <2>1
    <3>2. mctsNodes'[i].depth = mctsNodes[i].depth /\ mctsNodes'[i].parent = mctsNodes[i].parent
      BY <1>9, <2>1
    <3>3. i # 1 => mctsNodes'[mctsNodes[i].parent].depth = mctsNodes[mctsNodes[i].parent].depth
      BY <1>9, <3>1
    <3> QED  BY <1>1, <2>1, <3>2, <3>3 DEF Tree
  <2>2. CASE i = n + 1
    <3>1. i # 1 /\ leaf \in 1..(i - 1)  BY <1>1, <2>2
    <3>2. mctsNodes'[leaf].depth = mctsNodes[leaf].depth  BY <1>1, <1>9
    <3> QED  BY <1>2, <1>3, <1>8, <2>2, <3>1, <3>2
  <2> QED  BY <1>a, <2>1, <2>2
<1> DEFINE K == KidsOf(mctsNodes, leaf)
           L == KidsOf(mctsNodes', leaf)
<1>11. mctsPc = "expand" /\ mctsKids' = Append(mctsKids, n + 1)  BY DEF MctsGrows
<1>12. /\ Range(mctsKids) = K /\ Fresh = K
       /\ \A k \in K : mctsNodes[k].visits = 0 /\ KidsOf(mctsNodes, k) = {} /\ mctsKids[1] <= k
  BY <1>11 DEF MctsKidsAre, Fresh
<1> HIDE DEF n, leaf
<1>13. /\ L = K \cup {n + 1}
       /\ \A i : i # leaf => KidsOf(mctsNodes', i) = KidsOf(mctsNodes, i)
       /\ \A i : leaf # i /\ i \in K \cup {n + 1} => KidsOf(mctsNodes', i) = {}
       /\ (\A i \in 1..n : AddsUp(mctsNodes, i, K)) => \A i \in 1..(n + 1) : AddsUp(mctsNodes', i, L)
  <2>1. mctsNodes'[n + 1].parent = leaf /\ mctsNodes'[n + 1].visits = 0  BY <1>3, <1>8
  <2>2. \A i \in 1..n : /\ mctsNodes[i].parent = mctsNodes'[i].parent
                        /\ mctsNodes[i].visits = mctsNodes'[i].visits
    BY <1>9
  <2>3. \A k \in KidsOf(mctsNodes, leaf) : mctsNodes[k].visits = 0 /\ KidsOf(mctsNodes, k) = {}
    BY <1>12
  <2>4. Tree(mctsNodes, n) /\ leaf \in 1..n  BY <1>1
  <2>5. \A i \in 1..n : mctsNodes[i].visits \in Int  BY <1>2
  <2>6. Grown(mctsNodes, mctsNodes', n, leaf)
    BY <1>10, <2>1, <2>2, <2>3, <2>4, <2>5, GrownCounts
  <2> QED  BY <2>6, Zenon DEF Grown
<1>14. /\ mctsKids' \in Seq(1..(n + 1)) /\ Len(mctsKids') = Len(mctsKids) + 1
       /\ mctsKids' # <<>> /\ Range(mctsKids') = K \cup {n + 1}
       /\ mctsKids'[1] = IF Len(mctsKids) = 0 THEN n + 1 ELSE mctsKids[1]
  <2> DEFINE h == mctsKids'
             l == Len(mctsKids)
  <2>1. \A s \in Seq(1..n) : s \in Seq(1..(n + 1))
    <3>1. 1..n \subseteq 1..(n + 1)  BY <1>1
    <3>2. \A A, B : A \subseteq B => Seq(A) \subseteq Seq(B)  OBVIOUS
    <3> QED  BY <3>1, <3>2
  <2>2. mctsKids \in Seq(1..(n + 1)) /\ n + 1 \in 1..(n + 1) /\ l \in Nat  BY <1>1, <2>1
  <2>3. /\ h \in Seq(1..(n + 1)) /\ Len(h) = l + 1 /\ h[l + 1] = n + 1
        /\ \A i \in 1..l : h[i] = mctsKids[i]
    BY <1>11, <2>2
  <2>4. DOMAIN h = 1..(l + 1) /\ DOMAIN mctsKids = 1..l  BY <2>2, <2>3
  <2>5. \A i : i \in 1..(l + 1) <=> i \in 1..l \/ i = l + 1  BY <2>2
  <2>6. l # 0 => 1 \in 1..l  BY <2>2
  <2> HIDE DEF h, l
  <2>7. Range(h) = Range(mctsKids) \cup {n + 1}  BY <2>3, <2>4, <2>5 DEF Range
  <2>8. h # <<>>  BY <2>2, <2>3
  <2>9. h[1] = IF l = 0 THEN n + 1 ELSE mctsKids[1]  BY <2>3, <2>6
  <2> QED  BY <1>12, <2>3, <2>7, <2>8, <2>9 DEF h, l
<1>15. mctsPc' \in {"rollout", "expand"} /\ (mctsPc' = "rollout" => last)
  BY DEF MctsGrows, last
<1>16. MctsTree'
  <2>1. mctsLeaf' \in 1..Len(mctsNodes')  BY <1>1, <1>5, <1>8
  <2>2. Tree(mctsNodes', Len(mctsNodes')) /\ mctsKids' \in Seq(1..Len(mctsNodes'))
    BY <1>8, <1>10, <1>14
  <2> QED  BY <1>8, <1>15, <2>1, <2>2 DEF MctsTree
<1>17. MctsKidsAre'
  <2>1. ASSUME NEW i \in 1..(n + 1), KidsOf(mctsNodes', i) # {}, i # leaf
        PROVE  mctsNodes'[i].expanded
    <3>1. i # n + 1 /\ i \in 1..n  BY <1>13, <1>a, <2>1
    <3>2. KidsOf(mctsNodes, i) # {}  BY <1>13, <2>1
    <3>3. mctsNodes[i].expanded  BY <2>1, <3>1, <3>2 DEF MctsKidsAre, n, leaf
    <3> QED  BY <1>9, <2>1, <3>1, <3>3
  <2>2. Range(mctsKids') = L  BY <1>13, <1>14
  <2>3. ASSUME NEW k \in L
        PROVE  mctsNodes'[k].visits = 0 /\ KidsOf(mctsNodes', k) = {} /\ mctsKids'[1] <= k
    <3>1. k # leaf
      <4>1. leaf # n + 1  BY <1>1
      <4>2. leaf \notin K
        <5>1. CASE leaf = 1
          <6>1. mctsNodes[leaf].parent = 0  BY <1>1, <5>1 DEF Tree
          <6> QED  BY <5>1, <6>1 DEF KidsOf
        <5>2. CASE leaf # 1
          <6>1. mctsNodes[leaf].parent \in 1..(leaf - 1)  BY <1>1, <5>2 DEF Tree
          <6>2. mctsNodes[leaf].parent # leaf  BY <1>1, <6>1
          <6> QED  BY <6>2 DEF KidsOf
        <5> QED  BY <5>1, <5>2
      <4> QED  BY <1>13, <2>3, <4>1, <4>2
    <3>2. KidsOf(mctsNodes', k) = {}  BY <1>13, <2>3, <3>1
    <3>3. CASE k = n + 1
      <4>1. mctsNodes'[k].visits = 0  BY <1>3, <1>8, <3>3
      <4>2. mctsKids'[1] <= n + 1
        <5>1. mctsKids'[1] \in 1..(n + 1)  BY <1>1, <1>14
        <5> QED  BY <1>1, <5>1
      <4> QED  BY <3>2, <3>3, <4>1, <4>2
    <3>4. CASE k \in K
      <4>1. k \in 1..n  BY <1>1, <3>4 DEF KidsOf
      <4>2. mctsNodes'[k].visits = 0  BY <1>9, <1>12, <3>4, <4>1
      <4>3. Len(mctsKids) # 0
        <5>1. k \in Range(mctsKids)  BY <1>12, <3>4
        <5> QED  BY <1>1, <5>1 DEF Range
      <4> QED  BY <1>12, <1>14, <3>2, <3>4, <4>2, <4>3
    <3> QED  BY <1>13, <2>3, <3>3, <3>4
  <2>4. mctsPc' = "rollout" => mctsNodes'[leaf].expanded  BY <1>4, <1>8, <1>15
  <2>5. mctsPc' # "select"  BY <1>15
  <2>6. mctsLeaf' = leaf /\ Len(mctsNodes') = n + 1  BY <1>5, <1>8
  <2> HIDE DEF K, L
  <2>7. Range(mctsKids') = KidsOf(mctsNodes', mctsLeaf')  BY <2>2, <2>6 DEF L
  <2>8. \A k \in Range(mctsKids') : /\ mctsNodes'[k].visits = 0
                                    /\ KidsOf(mctsNodes', k) = {}
                                    /\ mctsKids'[1] <= k
    BY <2>2, <2>3
  <2> QED  BY <1>14, <2>1, <2>4, <2>5, <2>6, <2>7, <2>8 DEF MctsKidsAre
<1>18. MctsCounts'
  <2>1. Fresh' = L  BY <1>13, <1>14, <1>15 DEF Fresh
  <2>2. \A i \in 1..n : AddsUp(mctsNodes, i, K)  BY <1>12 DEF MctsCounts, n
  <2>3. \A i \in 1..(n + 1) : AddsUp(mctsNodes', i, L)  BY <1>13, <2>2
  <2> QED  BY <1>8, <2>1, <2>3 DEF MctsCounts
<1> QED  BY <1>16, <1>17, <1>18
LEMMA EldestIs ==
  ASSUME NEW S, NEW k \in S, S \subseteq Nat, \A j \in S : k <= j
  PROVE  \A i : i = Min(S) <=> i = k
<1>1. /\ Min(S) \in S
      /\ \A y \in S : Min(S) <= y
  <2>1. \E x \in S : \A y \in S : x <= y  OBVIOUS
  <2> QED  BY <2>1 DEF Min
<1>2. Min(S) \in Nat /\ k \in Nat /\ Min(S) <= k /\ k <= Min(S)  BY <1>1
<1>3. Min(S) = k  BY <1>2
<1> QED  BY <1>3

\* A node with one more visit, and a reward added.
LEMMA Rewarded ==
  ASSUME NEW x \in MctsNodes, NEW r \in Int
  PROVE  LET y == [x EXCEPT !.visits = @ + 1, !.reward = @ + r]
         IN  /\ y \in MctsNodes /\ x.visits \in Int
             /\ y.parent = x.parent /\ y.depth = x.depth /\ y.expanded = x.expanded
             /\ y.visits = x.visits + 1
<1> DEFINE y == [x EXCEPT !.visits = @ + 1, !.reward = @ + r]
<1>1. x.visits + 1 \in Int /\ x.reward + r \in Int /\ x.visits \in Int  BY DEF MctsNodes
<1>2. \A v, w \in Int : [x EXCEPT !.visits = v, !.reward = w] \in MctsNodes  BY DEF MctsNodes
<1>3. y = [x EXCEPT !.visits = x.visits + 1, !.reward = x.reward + r]  OBVIOUS
<1>4. y \in MctsNodes  BY <1>1, <1>2, <1>3
<1>5. /\ y.parent = x.parent /\ y.depth = x.depth /\ y.expanded = x.expanded
      /\ y.visits = x.visits + 1
  BY DEF MctsNodes
<1> QED  BY <1>1, <1>4, <1>5

\* The reward goes up from the first child.
LEMMA MctsPropagates ==
  ASSUME MctsTree, MctsKidsAre, MctsCounts, MctsBackpropagate
  PROVE  MctsTree' /\ MctsKidsAre' /\ MctsCounts'
<1> DEFINE n == Len(mctsNodes)
           k == mctsKids[1]
           A == MctsAncestry(k)
<1>1. mctsNodes \in Seq(MctsNodes) /\ n \in Nat \ {0} /\ DOMAIN mctsNodes = 1..n
      /\ Tree(mctsNodes, n) /\ mctsLeaf \in 1..n /\ mctsKids \in Seq(1..n)
  BY DEF MctsTree, Tree
<1>2. mctsPc = "rollout" /\ mctsPc' = "select" /\ mctsLeaf' = mctsLeaf /\ mctsKids' = mctsKids
  BY DEF MctsBackpropagate
<1>3. PICK r \in HeuristicScores :
         mctsNodes' = [i \in 1..n |-> IF i \in A
                                      THEN [mctsNodes[i] EXCEPT !.visits = @ + 1, !.reward = @ + r]
                                      ELSE mctsNodes[i]]
  BY <1>1 DEF MctsBackpropagate
<1>4. r \in Int  BY ScoresAre
<1>5. mctsKids # <<>> /\ k \in 1..n /\ k \in Range(mctsKids)
  <2>1. mctsKids # <<>>  BY <1>2 DEF MctsKidsAre
  <2> QED  BY <1>1, <2>1 DEF Range
<1>6. Ancestry(A, mctsNodes, n, k)  BY <1>1, <1>5, AncestryIs DEF MctsAncestry
<1>7. \A i \in 1..n : mctsNodes[i] \in MctsNodes  BY <1>1
<1> HIDE DEF A, n
<1>8. ASSUME NEW i \in 1..n
      PROVE  /\ mctsNodes'[i] \in MctsNodes
             /\ mctsNodes'[i].parent = mctsNodes[i].parent
             /\ mctsNodes'[i].depth = mctsNodes[i].depth
             /\ mctsNodes'[i].expanded = mctsNodes[i].expanded
             /\ mctsNodes'[i].visits = mctsNodes[i].visits + (IF i \in A THEN 1 ELSE 0)
  <2> DEFINE x == mctsNodes[i]
             y == [x EXCEPT !.visits = @ + 1, !.reward = @ + r]
  <2>1. x \in MctsNodes  BY <1>7
  <2>2. y \in MctsNodes /\ y.parent = x.parent /\ y.depth = x.depth /\ y.expanded = x.expanded
        /\ y.visits = x.visits + 1 /\ x.visits \in Int
    BY <1>4, <2>1, Rewarded
  <2>3. mctsNodes'[i] = IF i \in A THEN y ELSE x  BY <1>3
  <2> HIDE DEF x, y
  <2>4. CASE i \in A
    <3>1. mctsNodes'[i] = y  BY <2>3, <2>4
    <3> QED  BY <2>2, <2>4, <3>1 DEF x
  <2>5. CASE i \notin A
    <3>1. mctsNodes'[i] = x  BY <2>3, <2>5
    <3>2. x.visits = x.visits + 0  BY <2>2
    <3> QED  BY <2>1, <2>2, <2>5, <3>1, <3>2 DEF x
  <2> QED  BY <2>4, <2>5
<1>9. mctsNodes' \in Seq(MctsNodes) /\ Len(mctsNodes') = n /\ DOMAIN mctsNodes' = 1..n
  <2> DEFINE h == mctsNodes'
  <2>1. DOMAIN h = 1..n /\ h = [i \in 1..n |-> h[i]]  BY <1>3
  <2>2. \A i \in 1..n : h[i] \in MctsNodes  BY <1>8
  <2> HIDE DEF h
  <2>3. h \in [1..n -> MctsNodes]  BY <2>1, <2>2
  <2>4. n \in Nat  BY <1>1
  <2>5. h \in Seq(MctsNodes) /\ Len(h) = n  BY <2>3, <2>4, ListLength, Zenon
  <2> QED  BY <2>1, <2>5 DEF h
<1>10. Tree(mctsNodes', n)
  <2>1. \A j \in 1..n : j # 1 => mctsNodes[j].parent \in 1..n  BY <1>1 DEF Tree
  <2> SUFFICES ASSUME NEW j \in 1..n
               PROVE  /\ mctsNodes'[j].depth \in Nat
                      /\ IF j = 1 THEN mctsNodes'[j].parent = 0 /\ mctsNodes'[j].depth = 0
                         ELSE /\ mctsNodes'[j].parent \in 1..(j - 1)
                              /\ mctsNodes'[j].depth = mctsNodes'[mctsNodes'[j].parent].depth + 1
    BY <1>1, <1>9 DEF Tree
  <2>2. mctsNodes'[j].depth = mctsNodes[j].depth /\ mctsNodes'[j].parent = mctsNodes[j].parent
    BY <1>8
  <2>3. j # 1 => mctsNodes'[mctsNodes[j].parent].depth = mctsNodes[mctsNodes[j].parent].depth
    BY <1>8, <2>1
  <2> QED  BY <1>1, <2>2, <2>3 DEF Tree
<1>11. /\ \A j : KidsOf(mctsNodes', j) = KidsOf(mctsNodes, j)
  <2>1. \A i \in 1..n : mctsNodes[i].parent = mctsNodes'[i].parent  BY <1>8
  <2> QED  BY <1>1, <1>9, <2>1, SameCounts
<1>12. MctsTree'
  <2>1. mctsLeaf' \in 1..Len(mctsNodes') /\ mctsKids' \in Seq(1..Len(mctsNodes'))
    BY <1>1, <1>2, <1>9
  <2>2. Tree(mctsNodes', Len(mctsNodes'))  BY <1>9, <1>10
  <2> QED  BY <1>2, <1>9, <2>1, <2>2 DEF MctsTree
<1>13. MctsKidsAre'
  <2>1. \A i \in 1..n : KidsOf(mctsNodes, i) # {} => mctsNodes[i].expanded
    BY <1>2 DEF MctsKidsAre, n
  <2>2. \A i \in 1..n : KidsOf(mctsNodes', i) # {} => mctsNodes'[i].expanded
    BY <1>8, <1>11, <2>1
  <2> QED  BY <1>2, <1>9, <2>2, Zenon DEF MctsKidsAre
<1>14. MctsCounts'
  <2> DEFINE fresh == Range(mctsKids)
  <2>1. /\ fresh = KidsOf(mctsNodes, mctsLeaf) /\ Fresh = fresh
        /\ \A i \in fresh : mctsNodes[i].visits = 0 /\ KidsOf(mctsNodes, i) = {} /\ k <= i
    BY <1>2 DEF MctsKidsAre, Fresh
  <2>2. \A i \in 1..n : AddsUp(mctsNodes, i, fresh)  BY <2>1 DEF MctsCounts, n
  <2>3. k \in fresh  BY <1>5
  <2> HIDE DEF fresh, k
  <2>4. fresh \subseteq Nat /\ \A i \in fresh : i \in 1..n /\ mctsNodes[i].parent = mctsLeaf
    BY <1>1, <2>1 DEF KidsOf
  <2>5. \A i : i = Min(fresh) <=> i = k  BY <2>1, <2>3, <2>4, EldestIs
  <2>6. \A i \in fresh : Eldest(mctsNodes, i) <=> i = k
    <3> SUFFICES ASSUME NEW i \in fresh PROVE Eldest(mctsNodes, i) <=> i = k  OBVIOUS
    <3>1. i # 1
      <4>1. mctsNodes[i].parent # 0  BY <1>1, <2>4
      <4> QED  BY <1>1, <4>1 DEF Tree
    <3>2. KidsOf(mctsNodes, mctsNodes[i].parent) = fresh  BY <2>1, <2>4
    <3> QED  BY <2>5, <3>1, <3>2 DEF Eldest
  <2>7. \A i \in fresh : /\ mctsNodes[i].visits = 0 /\ KidsOf(mctsNodes, i) = {}
                         /\ Eldest(mctsNodes, i) <=> i = k
    BY <2>1, <2>6
  <2>8. \A i \in 1..n : mctsNodes[i].visits \in Int  BY <1>7 DEF MctsNodes
  <2>9. \A i \in 1..n : /\ mctsNodes'[i].parent = mctsNodes[i].parent
                        /\ mctsNodes'[i].visits = mctsNodes[i].visits + (IF i \in A THEN 1 ELSE 0)
    BY <1>8
  <2>10. Tree(mctsNodes, n) /\ DOMAIN mctsNodes' = 1..n /\ k \in 1..n  BY <1>1, <1>5, <1>9
  <2>11. \A i \in 1..n : AddsUp(mctsNodes', i, {})
    BY <1>6, <2>2, <2>3, <2>7, <2>8, <2>9, <2>10, VisitedCounts
  <2>12. Fresh' = {}  BY <1>2 DEF Fresh
  <2> QED  BY <1>9, <2>11, <2>12 DEF MctsCounts
<1> QED  BY <1>12, <1>13, <1>14

LEMMA MctsStays == MctsInv /\ [AttackNext]_attackVars => MctsInv'
<1> SUFFICES ASSUME MctsInv, [AttackNext]_attackVars, algorithm' = "mcts"
             PROVE  MctsTree' /\ MctsKidsAre' /\ MctsCounts'
  BY DEF MctsInv
<1>1. algorithm = "mcts"  BY AlgorithmStays DEF atkSettings
<1>2. MctsTree /\ MctsKidsAre /\ MctsCounts  BY <1>1 DEF MctsInv
<1>3. ASSUME UNCHANGED <<mctsPc, mctsNodes, mctsLeaf, mctsKids>>
      PROVE  MctsTree' /\ MctsKidsAre' /\ MctsCounts'
  <2>1. Fresh' = Fresh  BY <1>3 DEF Fresh
  <2> QED  BY <1>2, <1>3, <2>1 DEF MctsTree, MctsKidsAre, MctsCounts
<1>4. CASE Judge \/ UNCHANGED attackVars
  BY <1>3, <1>4 DEF Judge, attackVars, mctsVars
<1>5. CASE MctsSkip \/ MctsStop \/ MctsRollout
  BY <1>3, <1>5 DEF MctsSkip, MctsStop, MctsRollout, ExchangeRaised, mctsVars
<1>6. CASE MctsSelect  BY <1>2, <1>6, MctsSelects
<1>7. CASE MctsExpand
  <2>1. CASE ExchangeRaised  BY <1>3, <2>1 DEF ExchangeRaised, mctsVars
  <2>2. CASE ~ExchangeRaised
    <3>1. MctsGrows  BY <1>7, <2>2 DEF MctsExpand, MctsGrows
    <3> QED  BY <1>2, <3>1, MctsExpands
  <2> QED  BY <2>1, <2>2
<1>8. CASE MctsBackpropagate  BY <1>2, <1>8, MctsPropagates
<1> QED  BY <1>1, <1>4, <1>5, <1>6, <1>7, <1>8, OwnSteps DEF MctsNext

\* However deep and wide the tree: what select reads is what the simulations did
\* (core/mcts.py, MCTSNode.uct_score and backpropagate_mcts).
THEOREM VisitsAddUp == AttackSpec => []MctsVisitsAddUp
<1>1. MctsInv => MctsVisitsAddUp
  <2> SUFFICES ASSUME MctsInv, algorithm = "mcts", mctsPc = "select", NEW i \in DOMAIN mctsNodes
               PROVE  MctsVisits[i] = (IF RolledOut(i) THEN 1 ELSE 0)
                                        + SumFunctionOnSet(MctsVisits, MctsChildren(i))
    BY DEF MctsVisitsAddUp
  <2>1. i \in 1..Len(mctsNodes)  BY DEF MctsInv, MctsTree
  <2>2. AddsUp(mctsNodes, i, {})  BY <2>1 DEF MctsInv, MctsCounts, Fresh
  <2>3. MctsVisits = VisitsOf(mctsNodes) /\ MctsVisits[i] = mctsNodes[i].visits
    BY DEF MctsVisits, VisitsOf
  <2>4. MctsChildren(i) = KidsOf(mctsNodes, i)  BY DEF MctsChildren, KidsOf
  <2>5. RolledOut(i) <=> Eldest(mctsNodes, i)  BY DEF RolledOut, Eldest, MctsChildren, KidsOf
  <2> QED  BY <2>2, <2>3, <2>4, <2>5 DEF AddsUp
<1> QED  BY MctsStarts, MctsStays, <1>1, PTL DEF AttackSpec
-----------------------------------------------------------------------------
(***************************************************************************)
(* TAP                                                                     *)
(***************************************************************************)
TapNodes == [parent : Nat, depth : Nat, score : Int, offTopic : BOOLEAN,
             pruned : BOOLEAN, answered : BOOLEAN]

\* A node whose parent may be branched: the root, or one that was answered.
Grows(nodes, i) == i = 1 \/ nodes[i].answered

\* No answered node was forgotten without one in the running that is as good.
Matched(nodes) ==
  \A i \in DOMAIN nodes : nodes[i].answered =>
     \E j \in TapEvaluated(nodes) : nodes[i].score <= nodes[j].score

\* The nodes of the trace: what has a score was answered, after its parent was.
TapTree(nodes) ==
  /\ nodes \in Seq(TapNodes) /\ Tree(nodes, Len(nodes))
  /\ \A i \in 1..Len(nodes) : /\ nodes[i].answered <=> nodes[i].score > 0
                              /\ i # 1 => Grows(nodes, nodes[i].parent)
  /\ Matched(nodes)

\* A list of the members of a set, each once.
Listed(q, S) ==
  /\ q \in Seq(S) /\ Len(q) = Cardinality(S) /\ Cardinality(S) \in Nat /\ Range(q) = S
  /\ \A i, j \in 1..Len(q) : q[i] = q[j] => i = j

LEMMA SortedIsListed ==
  ASSUME NEW S, IsFiniteSet(S), NEW R, InLine(S, R), NEW q, Sorted(q, S, R)
  PROVE  Listed(q, S)
<1>1. /\ q \in Seq(S) /\ Len(q) = Cardinality(S)
      /\ \A i, j \in 1..Len(q) : q[i] = q[j] => i = j
      /\ Range(q) = S
  BY SortedHasAll
<1>2. Cardinality(S) \in Nat  BY FS_CardinalityType
<1> QED  BY <1>1, <1>2, Zenon DEF Listed

Lesser(S) == {xy \in S \X S : xy[1] < xy[2]}
LEMMA InOrder ==
  ASSUME NEW n \in Nat, NEW S \in SUBSET (1..n)
  PROVE  Listed(Ranked(S, <), S)
<1>1. IsFiniteSet(S) /\ Cardinality(S) \in Nat  BY Parts
<1>2. InLine(S, Lesser(S))
  <2>1. \A x, y \in S : <<x, y>> \in Lesser(S) <=> x < y  BY DEF Lesser
  <2>2. \A x \in S : x \in Int  OBVIOUS
  <2> QED  BY <2>1, <2>2 DEF InLine
<1>3. PICK p : Sorted(p, S, Lesser(S))  BY <1>1, <1>2, LinesCanBeSorted DEF Sortable
<1> DEFINE q == Ranked(S, <)
<1>4. p \in [1..Cardinality(S) -> S] /\ \A i, j \in 1..Cardinality(S) : i < j => p[i] < p[j]
  BY <1>3 DEF Sorted, Lesser
<1>5. q \in [1..Cardinality(S) -> S] /\ \A i, j \in 1..Cardinality(S) : i < j => q[i] < q[j]
  BY <1>4, Zenon DEF Ranked
<1> HIDE DEF q
<1>6. Sorted(q, S, Lesser(S))  BY <1>5 DEF Sorted, Lesser
<1>7. Listed(q, S)  BY <1>1, <1>2, <1>6, SortedIsListed
<1> QED  BY <1>7 DEF q

Better(nodes, S) == {xy \in S \X S : TapAhead(nodes, xy[1], xy[2])}
LEMMA BetterInLine ==
  ASSUME NEW nodes, NEW n \in Nat, NEW S \in SUBSET (1..n), \A i \in 1..n : nodes[i].score \in Int
  PROVE  InLine(S, Better(nodes, S))
<1>1. \A x, y \in S : <<x, y>> \in Better(nodes, S) <=>
          \/ nodes[x].score > nodes[y].score
          \/ nodes[x].score = nodes[y].score /\ x < y
  BY DEF Better, TapAhead
<1>2. ASSUME NEW x \in S PROVE x \in Int /\ nodes[x].score \in Int
  <2>1. x \in 1..n  OBVIOUS
  <2> QED  BY <2>1
<1> QED  BY <1>1, <1>2 DEF InLine

\* The first of the sorted nodes has the highest score.
LEMMA FirstIsBest ==
  ASSUME NEW nodes, NEW n \in Nat, NEW S \in SUBSET (1..n), \A i \in 1..n : nodes[i].score \in Int,
         NEW q, Sorted(q, S, Better(nodes, S))
  PROVE  /\ Listed(q, S)
         /\ \A j \in S : /\ q[1] \in S /\ nodes[j].score <= nodes[q[1]].score
                         /\ j # q[1] => TapAhead(nodes, q[1], j)
<1> DEFINE c == Cardinality(S)
<1>1. IsFiniteSet(S) /\ c \in Nat  BY Parts
<1>2. InLine(S, Better(nodes, S))  BY BetterInLine
<1>3. Listed(q, S)  BY <1>1, <1>2, SortedIsListed
<1>4. q \in [1..c -> S] /\ \A i, j \in 1..c : i < j => TapAhead(nodes, q[i], q[j])
  BY DEF Sorted, Better
<1> HIDE DEF c
<1>5. ASSUME NEW j \in S
      PROVE  /\ q[1] \in S /\ nodes[j].score <= nodes[q[1]].score
             /\ j # q[1] => TapAhead(nodes, q[1], j)
  <2>1. PICK k \in 1..c : q[k] = j
    <3>1. j \in Range(q)  BY <1>3 DEF Listed
    <3> QED  BY <1>4, <3>1 DEF Range
  <2>2. 1 \in 1..c /\ k \in Int /\ 1 <= k  BY <1>1, <2>1
  <2>3. q[1] \in S  BY <1>4, <2>2
  <2>4. nodes[j].score \in Int /\ nodes[q[1]].score \in Int
    <3>1. j \in 1..n /\ q[1] \in 1..n  BY <2>3
    <3> QED  BY <3>1
  <2>5. CASE k = 1  BY <2>1, <2>3, <2>4, <2>5
  <2>6. CASE k # 1
    <3>1. 1 < k  BY <2>2, <2>6
    <3>2. TapAhead(nodes, q[1], q[k])  BY <1>4, <2>1, <2>2, <3>1
    <3> QED  BY <2>1, <2>3, <2>4, <3>2 DEF TapAhead
  <2> QED  BY <2>5, <2>6
<1> QED  BY <1>3, <1>5

LEMMA ByScore ==
  ASSUME NEW nodes, NEW n \in Nat, NEW S \in SUBSET (1..n), \A i \in 1..n : nodes[i].score \in Int,
         NEW q, q = Ranked(S, LAMBDA i, j : TapAhead(nodes, i, j))
  PROVE  Sorted(q, S, Better(nodes, S))
<1>1. IsFiniteSet(S)  BY Parts
<1>2. InLine(S, Better(nodes, S))  BY BetterInLine
<1>3. PICK p : Sorted(p, S, Better(nodes, S))  BY <1>1, <1>2, LinesCanBeSorted DEF Sortable
<1>4. /\ p \in [1..Cardinality(S) -> S]
      /\ \A i, j \in 1..Cardinality(S) : i < j => TapAhead(nodes, p[i], p[j])
  BY <1>3 DEF Sorted, Better
<1>5. /\ q \in [1..Cardinality(S) -> S]
      /\ \A i, j \in 1..Cardinality(S) : i < j => TapAhead(nodes, q[i], q[j])
  BY <1>4, Zenon DEF Ranked
<1> QED  BY <1>5 DEF Sorted, Better

LEMMA TreeTypes ==
  ASSUME NEW nodes, TapTree(nodes)
  PROVE  /\ Len(nodes) \in Nat \ {0} /\ DOMAIN nodes = 1..Len(nodes)
         /\ nodes \in Seq(TapNodes) /\ Tree(nodes, Len(nodes))
         /\ \A i \in 1..Len(nodes) :
               /\ nodes[i] \in TapNodes
               /\ nodes[i].score \in Int /\ nodes[i].depth \in Nat
               /\ nodes[i].answered <=> nodes[i].score > 0
               /\ i # 1 => Grows(nodes, nodes[i].parent)
<1>1. nodes \in Seq(TapNodes) /\ Tree(nodes, Len(nodes))  BY DEF TapTree
<1>2. Len(nodes) \in Nat \ {0} /\ DOMAIN nodes = 1..Len(nodes)  BY <1>1 DEF Tree
<1>3. ASSUME NEW i \in 1..Len(nodes)
      PROVE  nodes[i] \in TapNodes /\ nodes[i].score \in Int /\ nodes[i].depth \in Nat
  <2>1. nodes[i] \in TapNodes  BY <1>1
  <2> QED  BY <2>1 DEF TapNodes
<1> QED  BY <1>1, <1>2, <1>3 DEF TapTree

\* The best evaluated node, whenever one was evaluated.
LEMMA TheBest ==
  ASSUME NEW nodes, TapTree(nodes), TapEvaluated(nodes) # {}
  PROVE  /\ TapBest(nodes) \in TapEvaluated(nodes)
         /\ \A j \in TapEvaluated(nodes) : nodes[j].score <= nodes[TapBest(nodes)].score
<1> DEFINE n == Len(nodes)
           E == TapEvaluated(nodes)
           b == TapBest(nodes)
<1>1. n \in Nat /\ DOMAIN nodes = 1..n /\ \A i \in 1..n : nodes[i].score \in Int
  BY TreeTypes
<1>2. E \in SUBSET (1..n)  BY <1>1 DEF TapEvaluated
<1>3. IsFiniteSet(E)
  <2> HIDE DEF E, n
  <2> QED  BY <1>1, <1>2, Parts
<1>4. InLine(E, Better(nodes, E))
  <2> HIDE DEF E, n
  <2> QED  BY <1>1, <1>2, BetterInLine
<1>5. \E x \in E : \A j \in E \ {x} : TapAhead(nodes, x, j)
  <2>1. PICK e \in E : TRUE  OBVIOUS
  <2> HIDE DEF E, n
  <2>2. PICK q : Sorted(q, E, Better(nodes, E))  BY <1>3, <1>4, LinesCanBeSorted DEF Sortable
  <2>3. \A j \in E : q[1] \in E /\ (j # q[1] => TapAhead(nodes, q[1], j))
    <3>1. n \in Nat /\ \A i \in 1..n : nodes[i].score \in Int  BY <1>1
    <3>2. /\ Listed(q, E)
          /\ \A j \in E : /\ q[1] \in E /\ nodes[j].score <= nodes[q[1]].score
                          /\ j # q[1] => TapAhead(nodes, q[1], j)
      BY <1>2, <2>2, <3>1, FirstIsBest
    <3> QED  BY <3>2
  <2> QED  BY <2>1, <2>3
<1>6. b \in E /\ \A j \in E \ {b} : TapAhead(nodes, b, j)
  <2> HIDE DEF E
  <2>1. b = CHOOSE i \in E : \A j \in E \ {i} : TapAhead(nodes, i, j)  BY DEF TapBest, E
  <2> QED  BY <1>5, <2>1, Zenon
<1>7. \A j \in E : nodes[j].score \in Int  BY <1>1, <1>2
<1> HIDE DEF E, b
<1>8. \A j \in E : nodes[j].score <= nodes[b].score  BY <1>6, <1>7 DEF TapAhead
<1> QED  BY <1>6, <1>8 DEF E, b

\* What the judge may be shown.
Judged(nodes, turns) ==
  turns # <<>> =>
     /\ \A k \in DOMAIN turns : nodes[turns[k]].answered
     /\ \A i \in DOMAIN nodes : nodes[i].answered => nodes[i].score <= nodes[Last(turns)].score

\* Every node on the way to an answered one was answered.
LEMMA PathIsAnswered ==
  ASSUME NEW nodes, TapTree(nodes), NEW i \in 1..Len(nodes), i # 1, nodes[i].answered,
         NEW path, path = TapPath(nodes, i)
  PROVE  /\ path # <<>> /\ Last(path) = i
         /\ \A k \in DOMAIN path : nodes[path[k]].answered
<1> DEFINE n == Len(nodes)
           d == nodes[i].depth
           up == WalkUp(nodes, i)
<1>1. n \in Nat \ {0} /\ Tree(nodes, n) /\ d \in Nat  BY TreeTypes
<1>2. d # 0
  <2>1. nodes[i].parent \in 1..(i - 1) /\ d = nodes[nodes[i].parent].depth + 1  BY <1>1 DEF Tree
  <2>2. nodes[i].parent \in 1..n  BY <1>1, <2>1
  <2>3. nodes[nodes[i].parent].depth \in Nat  BY <1>1, <2>2 DEF Tree
  <2> QED  BY <2>1, <2>3
<1>3. Walk(up, nodes, n, i, d)  BY <1>1, WalkUpIs
<1>4. path = [k \in 1..d |-> up[d - k]]  BY DEF TapPath
<1> HIDE DEF up, d, n
<1>5. /\ up \in [0..d -> 1..n] /\ up[0] = i
      /\ \A j \in 1..d : up[j] = nodes[up[j - 1]].parent
      /\ \A j \in 0..d : nodes[up[j]].depth = d - j
  BY <1>3 DEF Walk
<1>6. ASSUME NEW j \in 0..(d - 1) PROVE nodes[up[j]].answered
  <2>1. CASE j = 0  BY <1>5, <2>1
  <2>2. CASE j # 0
    <3>1. j \in 1..d /\ j - 1 \in 0..d /\ j \in 0..d /\ d - j > 0 /\ d - (j - 1) > 0  BY <1>1, <2>2
    <3>2. up[j - 1] \in 1..n /\ nodes[up[j - 1]].depth > 0  BY <1>5, <3>1
    <3>3. nodes[up[j]].depth > 0  BY <1>5, <3>1
    <3>4. nodes[1].depth = 0
      <4>1. 1 \in 1..n  BY <1>1
      <4> QED  BY <1>1, <4>1 DEF Tree
    <3>5. up[j - 1] # 1 /\ up[j] # 1  BY <3>2, <3>3, <3>4
    <3>6. Grows(nodes, nodes[up[j - 1]].parent)  BY <3>2, <3>5, TreeTypes DEF n
    <3> QED  BY <1>5, <3>1, <3>5, <3>6 DEF Grows
  <2> QED  BY <2>1, <2>2
<1>7. Len(path) = d /\ DOMAIN path = 1..d /\ d \in 1..d  BY <1>1, <1>2, <1>4
<1>8. path[d] = i
  <2>1. path[d] = up[d - d] /\ d - d = 0  BY <1>1, <1>4, <1>7
  <2> QED  BY <1>5, <2>1
<1>9. ASSUME NEW k \in 1..d PROVE nodes[path[k]].answered
  <2>1. d - k \in 0..(d - 1)  BY <1>1
  <2>2. path[k] = up[d - k]  BY <1>4
  <2> QED  BY <1>6, <2>1, <2>2
<1>10. path # <<>>  BY <1>2, <1>7
<1>11. Last(path) = i  BY <1>7, <1>8 DEF Last
<1> QED  BY <1>7, <1>9, <1>10, <1>11

\* The judge is shown the node that ended the search, or the best one.
LEMMA Finalized ==
  ASSUME NEW best, TapFinalize(best), TapTree(tapNodes'), atkTurns = <<>>,
         best # 0 => /\ best \in 1..Len(tapNodes') /\ best # 1 /\ tapNodes'[best].answered
                     /\ \A i \in DOMAIN tapNodes' :
                           tapNodes'[i].answered => tapNodes'[i].score <= tapNodes'[best].score
  PROVE  Judged(tapNodes', atkTurns') /\ atkStage' # "run"
<1> DEFINE h == tapNodes'
<1>1. CASE best = 0 /\ TapEvaluated(h) = {}
  BY <1>1 DEF TapFinalize, Finish, Judged
<1>2. CASE best # 0 \/ TapEvaluated(h) # {}
  <2> DEFINE b == IF best # 0 THEN best ELSE TapBest(h)
  <2>1. atkTurns' = TapPath(h, b) /\ atkStage' = "judge"
    BY <1>2 DEF TapFinalize
  <2>2. /\ b \in 1..Len(h) /\ b # 1 /\ h[b].answered
        /\ \A i \in DOMAIN h : h[i].answered => h[i].score <= h[b].score
    <3>1. CASE best # 0  BY <3>1
    <3>2. CASE best = 0
      <4> DEFINE t == TapBest(h)
      <4>1. t \in TapEvaluated(h) /\ \A j \in TapEvaluated(h) : h[j].score <= h[t].score
        BY <1>2, <3>2, TheBest
      <4> HIDE DEF h, t
      <4>2. TapTree(h)  BY DEF h
      <4>3. t \in 1..Len(h) /\ h[t].depth > 0 /\ h[t].score > 0
        BY <4>1, <4>2, TreeTypes DEF TapEvaluated
      <4>4. h[t].answered  BY <4>2, <4>3, TreeTypes
      <4>5. t # 1
        <5>1. Tree(h, Len(h))  BY <4>2, TreeTypes
        <5>2. h[1].depth = 0  BY <4>3, <5>1 DEF Tree
        <5> QED  BY <4>3, <5>2
      <4>6. ASSUME NEW i \in DOMAIN h, h[i].answered PROVE h[i].score <= h[t].score
        <5>1. PICK j \in TapEvaluated(h) : h[i].score <= h[j].score
          BY <4>2, <4>6 DEF TapTree, Matched
        <5>2. i \in 1..Len(h) /\ j \in 1..Len(h) /\ h[j].score <= h[t].score
          BY <4>1, <4>2, TreeTypes DEF TapEvaluated
        <5>3. h[i].score \in Int /\ h[j].score \in Int /\ h[t].score \in Int
          BY <4>2, <4>3, <5>2, TreeTypes
        <5> QED  BY <5>1, <5>2, <5>3
      <4> QED  BY <3>2, <4>3, <4>4, <4>5, <4>6 DEF t
    <3> QED  BY <3>1, <3>2
  <2> HIDE DEF b, h
  <2>3. TapTree(h)  BY DEF h
  <2>4. /\ Last(atkTurns') = b
        /\ \A k \in DOMAIN atkTurns' : h[atkTurns'[k]].answered
    BY <2>1, <2>2, <2>3, PathIsAnswered
  <2> QED  BY <2>1, <2>2, <2>4 DEF Judged, h
<1> QED  BY <1>1, <1>2

LEMMA Joined ==
  ASSUME NEW Y, NEW a \in Seq(Y), NEW b \in Seq(Y), NEW h, h = a \o b
  PROVE  /\ h \in Seq(Y) /\ Len(h) = Len(a) + Len(b) /\ Len(a) \in Nat /\ Len(b) \in Nat
         /\ DOMAIN h = 1..(Len(a) + Len(b))
         /\ \A i \in 1..Len(a) : h[i] = a[i]
         /\ \A i \in 1..(Len(a) + Len(b)) : i > Len(a) => h[i] = b[i - Len(a)]
OBVIOUS

\* A branch as it is generated: not sent yet, below a node that may be branched.
Branch(b, nodes) ==
  /\ b \in TapNodes
  /\ b.parent \in 1..Len(nodes) /\ Grows(nodes, b.parent)
  /\ b.depth = nodes[b.parent].depth + 1
  /\ b.score = 0 /\ ~b.answered

MarkedBranches(new, m) == [k \in 1..m |-> [new[k] EXCEPT !.pruned = new[k].offTopic]]
BranchesMarkedIn(marked, new, m, nodes) ==
  /\ marked \in Seq(TapNodes) /\ Len(marked) = m
  /\ \A k \in 1..m : Branch(marked[k], nodes) /\ marked[k].depth = new[k].depth

LEMMA BranchesMarked ==
  ASSUME NEW nodes, NEW m \in Nat, NEW new, \A k \in 1..m : Branch(new[k], nodes),
         NEW marked, marked = MarkedBranches(new, m)
  PROVE  BranchesMarkedIn(marked, new, m, nodes)
<1>1. ASSUME NEW k \in 1..m
      PROVE  marked[k] \in TapNodes /\ Branch(marked[k], nodes) /\ marked[k].depth = new[k].depth
  <2>1. new[k] \in TapNodes  BY DEF Branch
  <2>2. \A b \in TapNodes : LET c == [b EXCEPT !.pruned = b.offTopic]
                            IN  /\ c \in TapNodes /\ c.parent = b.parent /\ c.depth = b.depth
                                /\ c.score = b.score /\ c.answered = b.answered
    BY DEF TapNodes
  <2>3. /\ marked[k] \in TapNodes /\ marked[k].parent = new[k].parent
        /\ marked[k].depth = new[k].depth /\ marked[k].score = new[k].score
        /\ marked[k].answered = new[k].answered
    BY <2>1, <2>2 DEF MarkedBranches
  <2> QED  BY <2>3 DEF Branch
<1>2. marked \in [1..m -> TapNodes]  BY <1>1 DEF MarkedBranches
<1>3. marked \in Seq(TapNodes) /\ Len(marked) = m  BY <1>2, ListLength, Zenon
<1> QED  BY <1>1, <1>3 DEF BranchesMarkedIn

Joins(h, nodes, new) ==
  /\ TapTree(h) /\ Len(h) = Len(nodes) + Len(new) /\ Len(new) \in Nat
  /\ \A i \in 1..Len(nodes) : h[i] = nodes[i]
  /\ \A i \in 1..Len(h) : i > Len(nodes) => /\ h[i].depth > 0 /\ h[i].score = 0
                                            /\ ~h[i].answered
                                            /\ i - Len(nodes) \in 1..Len(new)
                                            /\ h[i] = new[i - Len(nodes)]

\* The branches of a depth join the trace.
LEMMA BranchesJoin ==
  ASSUME NEW nodes, TapTree(nodes), NEW new \in Seq(TapNodes), NEW h, h = nodes \o new,
         \A k \in 1..Len(new) : Branch(new[k], nodes)
  PROVE  Joins(h, nodes, new)
<1> DEFINE n == Len(nodes)
           m == Len(new)
<1>1. /\ n \in Nat \ {0} /\ DOMAIN nodes = 1..n /\ nodes \in Seq(TapNodes)
      /\ Tree(nodes, n)
  BY TreeTypes
<1>2. m \in Nat /\ n + m \in Nat \ {0}  BY <1>1
<1>3. /\ h \in Seq(TapNodes) /\ Len(h) = n + m /\ DOMAIN h = 1..(n + m)
      /\ \A i \in 1..n : h[i] = nodes[i]
      /\ \A i \in 1..(n + m) : i > n => h[i] = new[i - n]
  BY <1>1, Joined
<1>4. \A k \in 1..m : Branch(new[k], nodes)  OBVIOUS
<1>t. TapTree(nodes)  OBVIOUS
<1> HIDE DEF m
<1>5. ASSUME NEW i \in 1..(n + m), i > n
      PROVE  /\ h[i].parent \in 1..n /\ Grows(nodes, h[i].parent)
             /\ h[i].depth = nodes[h[i].parent].depth + 1
             /\ h[i].score = 0 /\ ~h[i].answered
  <2>1. i - n \in 1..m  BY <1>1, <1>2, <1>5
  <2>2. h[i] = new[i - n]  BY <1>3, <1>5
  <2> QED  BY <1>4, <2>1, <2>2 DEF Branch
<1> HIDE DEF n
<1>6. \A i \in 1..n : i \in 1..(n + m) /\ h[i] = nodes[i]  BY <1>1, <1>2, <1>3
<1>7. \A i \in 1..n : Grows(nodes, i) => Grows(h, i)  BY <1>6 DEF Grows
<1>8. ASSUME NEW i \in 1..n
      PROVE  /\ nodes[i].depth \in Nat
             /\ i = 1 => nodes[i].parent = 0 /\ nodes[i].depth = 0
             /\ i # 1 => /\ nodes[i].parent \in 1..(i - 1) /\ nodes[i].parent \in 1..n
                         /\ nodes[i].depth = nodes[nodes[i].parent].depth + 1
  <2>1. /\ nodes[i].depth \in Nat
        /\ i = 1 => nodes[i].parent = 0 /\ nodes[i].depth = 0
        /\ i # 1 => /\ nodes[i].parent \in 1..(i - 1)
                    /\ nodes[i].depth = nodes[nodes[i].parent].depth + 1
    BY <1>1 DEF Tree
  <2>2. i # 1 => nodes[i].parent \in 1..n  BY <1>1, <2>1
  <2> QED  BY <2>1, <2>2
<1>9. \A i \in 1..(n + m) : i > n \/ i \in 1..n  BY <1>1, <1>2
<1>10. ASSUME NEW i \in 1..(n + m)
       PROVE  /\ h[i].depth \in Nat
              /\ i = 1 => h[i].parent = 0 /\ h[i].depth = 0
              /\ i # 1 => /\ h[i].parent \in 1..(i - 1)
                          /\ h[i].depth = h[h[i].parent].depth + 1
              /\ i > n => h[i].depth > 0
  <2>1. CASE i > n
    <3> DEFINE p == h[i].parent
               d == nodes[p].depth
    <3>1. p \in 1..n /\ h[i].depth = d + 1  BY <1>5, <2>1
    <3>2. d \in Nat /\ h[p].depth = d  BY <1>6, <1>8, <3>1
    <3>3. i # 1 /\ p \in 1..(i - 1)
      <4>1. \A a \in 1..n : i # 1 /\ a \in 1..(i - 1)  BY <1>1, <1>2, <2>1
      <4> QED  BY <3>1, <4>1
    <3> HIDE DEF d
    <3>4. h[i].depth \in Nat /\ h[i].depth > 0  BY <3>1, <3>2
    <3> QED  BY <3>1, <3>2, <3>3, <3>4
  <2>2. CASE i \in 1..n /\ ~(i > n)
    <3>1. h[i] = nodes[i]  BY <1>6, <2>2
    <3>2. i # 1 => h[nodes[i].parent] = nodes[nodes[i].parent]  BY <1>6, <1>8, <2>2
    <3>3. /\ nodes[i].depth \in Nat
          /\ i = 1 => nodes[i].parent = 0 /\ nodes[i].depth = 0
          /\ i # 1 => /\ nodes[i].parent \in 1..(i - 1)
                      /\ nodes[i].depth = nodes[nodes[i].parent].depth + 1
      BY <1>8, <2>2
    <3> QED  BY <2>2, <3>1, <3>2, <3>3, Zenon
  <2> QED  BY <1>9, <2>1, <2>2, Zenon
<1>11. Tree(h, n + m)  BY <1>2, <1>3, <1>10 DEF Tree
<1>12. ASSUME NEW i \in 1..(n + m)
       PROVE  /\ h[i].answered <=> h[i].score > 0
              /\ i # 1 => Grows(h, h[i].parent)
  <2>1. CASE i > n
    <3>1. Grows(h, h[i].parent)  BY <1>5, <1>7, <2>1
    <3>2. h[i].score = 0 /\ ~h[i].answered  BY <1>5, <2>1
    <3>3. ~(h[i].score > 0)  BY <3>2
    <3> QED  BY <3>1, <3>2, <3>3, Zenon
  <2>2. CASE i \in 1..n
    <3>1. h[i] = nodes[i]  BY <1>6, <2>2
    <3>2. i # 1 => nodes[i].parent \in 1..n  BY <1>8, <2>2
    <3>3. /\ nodes[i].answered <=> nodes[i].score > 0
          /\ i # 1 => Grows(nodes, nodes[i].parent)
      BY <1>t, <2>2, TreeTypes DEF n
    <3> QED  BY <1>7, <2>2, <3>1, <3>2, <3>3
  <2> QED  BY <1>9, <2>1, <2>2
<1>13. Matched(h)
  <2> SUFFICES ASSUME NEW i \in DOMAIN h, h[i].answered
               PROVE  \E j \in TapEvaluated(h) : h[i].score <= h[j].score
    BY DEF Matched
  <2>1. i \in 1..n /\ h[i] = nodes[i]  BY <1>3, <1>5, <1>6, <1>9
  <2>2. PICK j \in TapEvaluated(nodes) : nodes[i].score <= nodes[j].score
    BY <1>1, <1>t, <2>1 DEF TapTree, Matched
  <2>3. j \in 1..n /\ h[j] = nodes[j]  BY <1>1, <1>6, <2>2 DEF TapEvaluated
  <2>4. j \in TapEvaluated(h)  BY <1>3, <1>6, <2>2, <2>3 DEF TapEvaluated
  <2> QED  BY <2>1, <2>2, <2>3, <2>4
<1>14. TapTree(h)  BY <1>3, <1>11, <1>12, <1>13 DEF TapTree
<1>15. \A i \in 1..(n + m) : i > n => i - n \in 1..m  BY <1>1, <1>2
<1> QED  BY <1>2, <1>3, <1>5, <1>10, <1>14, <1>15 DEF n, m, Joins

\* The trace with a node answered, or with some nodes pruned: nothing else changes.
Rewritten(nodes, h) ==
  /\ h \in Seq(TapNodes) /\ Len(h) = Len(nodes) /\ DOMAIN h = 1..Len(nodes)
  /\ \A i \in 1..Len(nodes) : h[i].parent = nodes[i].parent /\ h[i].depth = nodes[i].depth

LEMMA RewrittenTree ==
  ASSUME NEW nodes, TapTree(nodes), NEW h, Rewritten(nodes, h)
  PROVE  Tree(h, Len(nodes))
<1> DEFINE n == Len(nodes)
<1>1. Tree(nodes, n)  BY TreeTypes
<1> SUFFICES ASSUME NEW i \in 1..n
             PROVE  /\ h[i].depth \in Nat
                    /\ IF i = 1 THEN h[i].parent = 0 /\ h[i].depth = 0
                       ELSE /\ h[i].parent \in 1..(i - 1)
                            /\ h[i].depth = h[h[i].parent].depth + 1
  BY <1>1 DEF Tree, Rewritten
<1>2. h[i].depth = nodes[i].depth /\ h[i].parent = nodes[i].parent  BY DEF Rewritten
<1>3. i # 1 => nodes[i].parent \in 1..n
  <2>1. n \in Nat /\ (i # 1 => nodes[i].parent \in 1..(i - 1))  BY <1>1 DEF Tree
  <2> QED  BY <2>1
<1>4. i # 1 => h[nodes[i].parent].depth = nodes[nodes[i].parent].depth  BY <1>3 DEF Rewritten
<1> QED  BY <1>1, <1>2, <1>4 DEF Tree

LEMMA ListChanged ==
  ASSUME NEW Y, NEW f \in Seq(Y), NEW h, h = [i \in DOMAIN f |-> h[i]],
         \A i \in 1..Len(f) : h[i] \in Y
  PROVE  h \in Seq(Y) /\ Len(h) = Len(f) /\ DOMAIN h = 1..Len(f)
<1>1. Len(f) \in Nat /\ DOMAIN f = 1..Len(f)  OBVIOUS
<1>2. h \in [1..Len(f) -> Y]  BY <1>1
<1>3. h \in Seq(Y) /\ Len(h) = Len(f)  BY <1>1, <1>2, ListLength, Zenon
<1> QED  BY <1>2, <1>3

\* An answer below or above the threshold.
Scored(nodes, i, s) == [nodes EXCEPT ![i].score = s, ![i].answered = TRUE]

LEMMA ScoredIs ==
  ASSUME NEW nodes, TapTree(nodes), NEW i \in 1..Len(nodes), NEW s \in Int, s > 0,
         nodes[i].depth > 0, ~nodes[i].answered, ~nodes[i].pruned, NEW h, h = Scored(nodes, i, s)
  PROVE  /\ TapTree(h) /\ Len(h) = Len(nodes)
         /\ h[i].answered /\ h[i].score = s /\ h[i].pruned = nodes[i].pruned
         /\ h[i].depth = nodes[i].depth
         /\ \A j \in 1..Len(nodes) : j # i => h[j] = nodes[j]
<1> DEFINE n == Len(nodes)
<1>1. /\ n \in Nat \ {0} /\ DOMAIN nodes = 1..n /\ nodes \in Seq(TapNodes)
      /\ \A j \in 1..n : nodes[j] \in TapNodes
  BY TreeTypes
<1>2. h[i] = [nodes[i] EXCEPT !.score = s, !.answered = TRUE]  BY <1>1 DEF Scored
<1>3. \A x \in TapNodes : LET y == [x EXCEPT !.score = s, !.answered = TRUE]
                          IN  /\ y \in TapNodes /\ y.score = s /\ y.answered
                              /\ y.pruned = x.pruned /\ y.depth = x.depth
                              /\ y.parent = x.parent
  BY DEF TapNodes
<1>4. /\ h[i] \in TapNodes /\ h[i].score = s /\ h[i].answered
      /\ h[i].pruned = nodes[i].pruned /\ h[i].depth = nodes[i].depth
      /\ h[i].parent = nodes[i].parent
  BY ZenonT(40), <1>1, <1>2, <1>3
<1>5. \A j \in 1..n : j # i => h[j] = nodes[j]  BY <1>1 DEF Scored
<1>6. h = [j \in DOMAIN nodes |-> h[j]]  BY DEF Scored
<1>t. TapTree(nodes) /\ i \in 1..n /\ ~nodes[i].answered /\ ~nodes[i].pruned /\ nodes[i].depth > 0
  OBVIOUS
<1> HIDE DEF n
<1>7. \A j \in 1..n : h[j] \in TapNodes  BY <1>1, <1>4, <1>5
<1>8. h \in Seq(TapNodes) /\ Len(h) = n /\ DOMAIN h = 1..n  BY <1>1, <1>6, <1>7, ListChanged DEF n
<1>9. \A j \in 1..n : h[j].parent = nodes[j].parent /\ h[j].depth = nodes[j].depth
  BY <1>4, <1>5
<1>10. Rewritten(nodes, h)  BY <1>8, <1>9 DEF Rewritten, n
<1>11. Tree(h, n)  BY <1>t, <1>10, RewrittenTree DEF n
<1>12. \A j \in 1..n : Grows(nodes, j) => Grows(h, j)  BY <1>4, <1>5 DEF Grows
<1>13. ASSUME NEW j \in 1..n
       PROVE  /\ h[j].answered <=> h[j].score > 0
              /\ j # 1 => Grows(h, h[j].parent)
  <2>1. /\ nodes[j].answered <=> nodes[j].score > 0
        /\ j # 1 => Grows(nodes, nodes[j].parent)
    BY <1>t, TreeTypes DEF n
  <2>2. j # 1 => h[j].parent \in 1..n
    <3>1. j # 1 => h[j].parent \in 1..(j - 1)  BY <1>11 DEF Tree
    <3> QED  BY <1>1, <3>1
  <2>3. j # 1 => Grows(h, h[j].parent)  BY <1>9, <1>12, <2>1, <2>2
  <2>4. CASE j = i  BY <1>4, <2>3, <2>4
  <2>5. CASE j # i
    <3>1. h[j] = nodes[j]  BY <1>5, <2>5
    <3> QED  BY <2>1, <2>3, <3>1, Zenon
  <2> QED  BY <2>4, <2>5
<1>14. Matched(h)
  <2> SUFFICES ASSUME NEW j \in DOMAIN h, h[j].answered
               PROVE  \E k \in TapEvaluated(h) : h[j].score <= h[k].score
    BY DEF Matched
  <2>1. CASE j = i
    <3>1. i \in TapEvaluated(h)  BY <1>4, <1>8, <1>t DEF TapEvaluated
    <3>2. h[i].score \in Int  BY <1>4
    <3> QED  BY <2>1, <3>1, <3>2
  <2>2. CASE j # i
    <3>1. j \in 1..n /\ h[j] = nodes[j] /\ j \in DOMAIN nodes  BY <1>1, <1>5, <1>8, <2>2
    <3>2. PICK k \in TapEvaluated(nodes) : nodes[j].score <= nodes[k].score
      BY <1>t, <3>1 DEF TapTree, Matched
    <3>3. k \in 1..n /\ nodes[k].score > 0  BY <1>1, <3>2 DEF TapEvaluated
    <3>4. nodes[k].answered  BY <1>t, <3>3, TreeTypes DEF n
    <3>5. h[k] = nodes[k]  BY <1>5, <1>t, <3>3, <3>4
    <3>6. k \in TapEvaluated(h)  BY <1>8, <3>2, <3>3, <3>5 DEF TapEvaluated
    <3> QED  BY <3>1, <3>2, <3>5, <3>6
  <2> QED  BY <2>1, <2>2
<1>15. TapTree(h)  BY <1>8, <1>11, <1>13, <1>14 DEF TapTree
<1> QED  BY <1>4, <1>5, <1>8, <1>15 DEF n

\* The nodes that a better one has beaten are pruned.
Forgotten(nodes, P) ==
  [i \in DOMAIN nodes |-> IF i \in P THEN [nodes[i] EXCEPT !.pruned = TRUE] ELSE nodes[i]]

LEMMA ForgottenIs ==
  ASSUME NEW nodes, TapTree(nodes), NEW P, NEW t \in TapEvaluated(nodes), t \notin P,
         \A i \in P : nodes[i].score <= nodes[t].score, NEW h, h = Forgotten(nodes, P)
  PROVE  /\ TapTree(h) /\ Len(h) = Len(nodes)
         /\ \A i \in 1..Len(nodes) :
               /\ h[i].answered = nodes[i].answered /\ h[i].score = nodes[i].score
               /\ h[i].depth = nodes[i].depth
<1> DEFINE n == Len(nodes)
<1>1. /\ n \in Nat \ {0} /\ DOMAIN nodes = 1..n /\ nodes \in Seq(TapNodes)
      /\ \A j \in 1..n : nodes[j] \in TapNodes
  BY TreeTypes
<1>2. ASSUME NEW i \in 1..n
      PROVE  /\ h[i] \in TapNodes
             /\ h[i].parent = nodes[i].parent /\ h[i].depth = nodes[i].depth
             /\ h[i].score = nodes[i].score /\ h[i].answered = nodes[i].answered
             /\ i \notin P => h[i] = nodes[i]
  <2>1. \A x \in TapNodes : LET y == [x EXCEPT !.pruned = TRUE]
                            IN  /\ y \in TapNodes /\ y.parent = x.parent /\ y.depth = x.depth
                                /\ y.score = x.score /\ y.answered = x.answered
    BY DEF TapNodes
  <2>2. h[i] = IF i \in P THEN [nodes[i] EXCEPT !.pruned = TRUE] ELSE nodes[i]
    BY <1>1 DEF Forgotten
  <2> QED  BY <1>1, <2>1, <2>2
<1>3. h = [j \in DOMAIN nodes |-> h[j]]  BY DEF Forgotten
<1>t. /\ TapTree(nodes) /\ t \in TapEvaluated(nodes) /\ t \notin P
      /\ \A i \in P : nodes[i].score <= nodes[t].score
  OBVIOUS
<1> HIDE DEF n
<1>4. h \in Seq(TapNodes) /\ Len(h) = n /\ DOMAIN h = 1..n  BY <1>1, <1>2, <1>3, ListChanged DEF n
<1>5. Rewritten(nodes, h)  BY <1>2, <1>4 DEF Rewritten, n
<1>6. Tree(h, n)  BY <1>t, <1>5, RewrittenTree DEF n
<1>7. \A j \in 1..n : Grows(nodes, j) => Grows(h, j)  BY <1>2 DEF Grows
<1>8. ASSUME NEW j \in 1..n
      PROVE  /\ h[j].answered <=> h[j].score > 0
             /\ j # 1 => Grows(h, h[j].parent)
  <2>1. /\ nodes[j].answered <=> nodes[j].score > 0
        /\ j # 1 => Grows(nodes, nodes[j].parent)
    BY <1>t, TreeTypes DEF n
  <2>2. j # 1 => h[j].parent \in 1..n
    <3>1. j # 1 => h[j].parent \in 1..(j - 1)  BY <1>6 DEF Tree
    <3> QED  BY <1>1, <3>1
  <2>3. h[j].parent = nodes[j].parent /\ h[j].score = nodes[j].score
        /\ h[j].answered = nodes[j].answered
    BY <1>2
  <2> QED  BY <1>7, <2>1, <2>2, <2>3, Zenon
<1>9. \A k \in TapEvaluated(nodes) : k \in 1..n /\ (k \notin P => k \in TapEvaluated(h))
  BY <1>1, <1>2, <1>4 DEF TapEvaluated
<1>10. Matched(h)
  <2> SUFFICES ASSUME NEW j \in DOMAIN h, h[j].answered
               PROVE  \E k \in TapEvaluated(h) : h[j].score <= h[k].score
    BY DEF Matched
  <2>1. j \in 1..n /\ h[j].score = nodes[j].score /\ nodes[j].answered /\ j \in DOMAIN nodes
    BY <1>1, <1>2, <1>4
  <2>2. PICK k \in TapEvaluated(nodes) : nodes[j].score <= nodes[k].score
    BY <1>t, <2>1 DEF TapTree, Matched
  <2>3. CASE k \notin P
    <3>1. k \in TapEvaluated(h) /\ h[k] = nodes[k]  BY <1>2, <1>9, <2>2, <2>3
    <3> QED  BY <2>1, <2>2, <3>1
  <2>4. CASE k \in P
    <3>1. t \in TapEvaluated(h) /\ h[t] = nodes[t] /\ t \in 1..n /\ k \in 1..n
      BY <1>2, <1>9, <1>t
    <3>2. nodes[k].score <= nodes[t].score  BY <1>t, <2>4
    <3>3. nodes[j].score \in Int /\ nodes[k].score \in Int /\ nodes[t].score \in Int
      BY <1>t, <2>1, <3>1, TreeTypes DEF n
    <3> QED  BY <2>1, <2>2, <3>1, <3>2, <3>3
  <2> QED  BY <2>3, <2>4
<1>11. TapTree(h)  BY <1>4, <1>6, <1>8, <1>10 DEF TapTree
<1> QED  BY <1>2, <1>4, <1>11 DEF n

\* The search goes on only while no answer has reached the threshold.
NoneReached(nodes, threshold) ==
  \A i \in 1..Len(nodes) : nodes[i].answered => nodes[i].score < threshold

\* What is branched at this depth, and the branches there are.
TapBranches ==
  /\ tapPc \in {"branch", "prune", "query"} /\ tapDepth \in 1..TreeDepth
  /\ tapLeaves \in Seq(1..Len(tapNodes)) /\ tapLeaves # <<>>
  /\ tapNew \in Seq(TapNodes)
  /\ \A k \in 1..Len(tapNew) : Branch(tapNew[k], tapNodes) /\ tapNew[k].depth = tapDepth
  /\ tapPc = "branch" =>
        /\ Len(tapNew) < Len(tapLeaves) * BranchingFactor
        /\ \A l \in Range(tapLeaves) : /\ Grows(tapNodes, l)
                                       /\ tapNodes[l].depth + 1 = tapDepth

\* The branches on topic are the leaves of this depth, until the last one has answered.
TapQueries ==
  tapPc = "query" =>
     /\ tapNew = <<>>
     /\ tapQueue \in Seq(Range(tapLeaves)) /\ tapQueue # <<>>
     /\ \A j, k \in 1..Len(tapQueue) : tapQueue[j] = tapQueue[k] => j = k
     /\ \A l \in Range(tapLeaves) : /\ tapNodes[l].depth = tapDepth /\ ~tapNodes[l].pruned
                                    /\ l \notin Range(tapQueue) => tapNodes[l].answered
                                    /\ l \in Range(tapQueue) => ~tapNodes[l].answered

TapRuns == /\ atkTurns = <<>> /\ TapTree(tapNodes) /\ NoneReached(tapNodes, atkThreshold)
           /\ TapBranches /\ TapQueries

TapInv ==
  algorithm = "tap" =>
     /\ atkThreshold \in Int
     /\ atkDry => atkTurns = <<>> /\ tapPc = "branch"
     /\ ~atkDry /\ atkStage = "run" => TapRuns
     /\ Judged(tapNodes, atkTurns)

LEMMA TapStarts == AttackInit => TapInv
<1> SUFFICES ASSUME AttackInit
             PROVE  /\ atkThreshold \in Int /\ atkTurns = <<>> /\ tapPc = "branch"
                    /\ TapRuns /\ Judged(tapNodes, atkTurns)
  BY DEF TapInv
<1>1. /\ tapNodes = <<TapNode(0, 0, FALSE)>> /\ tapPc = "branch" /\ tapDepth = 1
      /\ tapNew = <<>> /\ tapLeaves = <<1>> /\ tapQueue = <<>>
      /\ atkTurns = <<>> /\ atkThreshold \in SuccessThresholds
  BY DEF AttackInit, AtkInit, TapInit
<1>2. atkThreshold \in Int  BY <1>1, AttackAssumption
<1> DEFINE root == TapNode(0, 0, FALSE)
<1>3. /\ root \in TapNodes /\ root.parent = 0 /\ root.depth = 0 /\ root.score = 0
      /\ root.answered = FALSE
  BY DEF TapNode, TapNodes
<1> HIDE DEF root
<1>4. /\ tapNodes \in Seq(TapNodes) /\ Len(tapNodes) = 1 /\ tapNodes[1] = root
      /\ DOMAIN tapNodes = 1..1
  <2>1. tapNodes = <<root>>  BY <1>1 DEF root
  <2> QED  BY <1>3, <2>1
<1>5. \A i \in 1..1 : i = 1  OBVIOUS
<1>6. Tree(tapNodes, 1)  BY <1>3, <1>4, <1>5 DEF Tree
<1>7. Matched(tapNodes)  BY <1>3, <1>4, <1>5 DEF Matched
<1>8. TapTree(tapNodes)
  <2>1. ~(0 > 0)  OBVIOUS
  <2> QED  BY <1>3, <1>4, <1>5, <1>6, <1>7, <2>1 DEF TapTree
<1>9. NoneReached(tapNodes, atkThreshold)  BY <1>3, <1>4, <1>5 DEF NoneReached
<1>10. TapBranches
  <2>1. /\ tapLeaves \in Seq(1..1) /\ tapLeaves # <<>> /\ Len(tapLeaves) = 1
        /\ Range(tapLeaves) = {1}
    BY <1>1 DEF Range
  <2>2. tapNew \in Seq(TapNodes) /\ Len(tapNew) = 0  BY <1>1
  <2>3. 1 \in 1..TreeDepth /\ 0 < 1 * BranchingFactor  BY TapAssumption
  <2>4. \A k \in 1..0 : FALSE  OBVIOUS
  <2>5. \A l \in Range(tapLeaves) : Grows(tapNodes, l) /\ tapNodes[l].depth + 1 = tapDepth
    <3>0. tapDepth = 1  BY <1>1
    <3>1. tapNodes[1].depth + 1 = tapDepth  BY <1>3, <1>4, <3>0
    <3> QED  BY <2>1, <3>1 DEF Grows
  <2>6. /\ tapDepth \in 1..TreeDepth /\ Len(tapNew) < Len(tapLeaves) * BranchingFactor
        /\ \A k \in 1..Len(tapNew) : Branch(tapNew[k], tapNodes) /\ tapNew[k].depth = tapDepth
    BY <1>1, <2>1, <2>2, <2>3, <2>4
  <2> QED  BY <1>1, <1>4, <2>1, <2>2, <2>5, <2>6 DEF TapBranches
<1>11. TapQueries  BY <1>1 DEF TapQueries
<1> QED  BY <1>1, <1>2, <1>8, <1>9, <1>10, <1>11 DEF TapRuns, Judged

\* One branch more.
LEMMA TapGrows ==
  ASSUME TapRuns, tapPc = "branch",
         NEW off \in BOOLEAN,
         tapNew' = Append(tapNew, TapNode(tapLeaves[(Len(tapNew) \div BranchingFactor) + 1], tapDepth, off)),
         tapPc' = IF Len(tapNew') = Len(tapLeaves) * BranchingFactor THEN "prune" ELSE "branch",
         UNCHANGED <<atkTurns, atkThreshold, tapDepth, tapNodes, tapLeaves, tapQueue>>
  PROVE  TapRuns' /\ Len(tapNew') = Len(tapNew) + 1 /\ Len(tapNew) \in Nat
<1> DEFINE m == Len(tapNew)
           c == Len(tapLeaves)
           leaf == tapLeaves[(m \div BranchingFactor) + 1]
           b == TapNode(leaf, tapDepth, off)
<1>1. /\ tapDepth \in 1..TreeDepth /\ tapLeaves \in Seq(1..Len(tapNodes)) /\ tapLeaves # <<>>
      /\ tapNew \in Seq(TapNodes) /\ m < c * BranchingFactor
      /\ \A k \in 1..m : Branch(tapNew[k], tapNodes) /\ tapNew[k].depth = tapDepth
      /\ \A l \in Range(tapLeaves) : Grows(tapNodes, l) /\ tapNodes[l].depth + 1 = tapDepth
  BY DEF TapRuns, TapBranches
<1>2. BranchingFactor \in Nat \ {0} /\ TreeDepth \in Nat  BY TapAssumption
<1>3. m \in Nat /\ c \in Nat  BY <1>1
<1>4. (m \div BranchingFactor) + 1 \in 1..c  BY <1>1, <1>2, <1>3, Quotients
<1>5. leaf \in Range(tapLeaves) /\ leaf \in 1..Len(tapNodes)  BY <1>1, <1>4 DEF Range
<1>6. TapTree(tapNodes)  BY DEF TapRuns
<1> HIDE DEF leaf
<1>7. /\ b \in TapNodes /\ b.parent = leaf /\ b.depth = tapDepth /\ b.score = 0
      /\ b.answered = FALSE
  <2>1. Len(tapNodes) \in Nat  BY <1>6, TreeTypes
  <2>2. leaf \in Nat /\ tapDepth \in Nat  BY <1>1, <1>2, <1>5, <2>1
  <2> QED  BY <2>2 DEF TapNode, TapNodes
<1>8. Branch(b, tapNodes)  BY <1>1, <1>5, <1>7 DEF Branch
<1>9. tapNew' = Append(tapNew, b)  BY DEF leaf
<1> HIDE DEF b, m, c
<1>10. /\ tapNew' \in Seq(TapNodes) /\ Len(tapNew') = m + 1
       /\ tapNew'[m + 1] = b /\ \A k \in 1..m : tapNew'[k] = tapNew[k]
  BY <1>1, <1>7, <1>9 DEF m
<1>11. \A k \in 1..(m + 1) : Branch(tapNew'[k], tapNodes) /\ tapNew'[k].depth = tapDepth
  <2>1. \A k \in 1..(m + 1) : k \in 1..m \/ k = m + 1  BY <1>3
  <2> QED  BY <1>1, <1>7, <1>8, <1>10, <2>1
<1>12. tapPc' \in {"branch", "prune"} /\ (tapPc' = "branch" => m + 1 # c * BranchingFactor)
  BY <1>10 DEF c
<1>13. m + 1 # c * BranchingFactor => m + 1 < c * BranchingFactor
  <2>1. c * BranchingFactor \in Nat  BY <1>2, <1>3
  <2> QED  BY <1>1, <1>3, <2>1
<1>14. TapBranches'  BY <1>1, <1>10, <1>11, <1>12, <1>13 DEF TapBranches, c
<1>15. TapQueries'  BY <1>12 DEF TapQueries
<1> QED  BY <1>3, <1>10, <1>14, <1>15 DEF TapRuns, m

\* The branches on topic are the next to be sent; without one the search ends.
LEMMA TapPrunes ==
  ASSUME TapRuns, TapPruneOffTopic, atkThreshold \in Int
  PROVE  /\ atkStage' = "run" => TapRuns'
         /\ Judged(tapNodes', atkTurns')
         /\ Len(tapQueue') \in Nat /\ Len(tapQueue') <= Len(tapNew)
<1> DEFINE n == Len(tapNodes)
           m == Len(tapNew)
           marked == MarkedBranches(tapNew, m)
           h == tapNodes'
           S == {i \in DOMAIN h : i > n /\ ~h[i].pruned}
<1>1. /\ h = tapNodes \o marked /\ tapNew' = <<>> /\ tapLeaves' = tapQueue'
      /\ atkThreshold' = atkThreshold /\ tapDepth' = tapDepth
  BY Zenon DEF TapPruneOffTopic, MarkedBranches, atkSettings
<1>r. tapQueue' = Ranked(S, <)  BY Zenon DEF TapPruneOffTopic
<1>2. /\ atkTurns = <<>> /\ TapTree(tapNodes) /\ NoneReached(tapNodes, atkThreshold)
      /\ tapDepth \in 1..TreeDepth /\ tapNew \in Seq(TapNodes)
      /\ \A k \in 1..m : Branch(tapNew[k], tapNodes) /\ tapNew[k].depth = tapDepth
  BY DEF TapRuns, TapBranches
<1>3. m \in Nat /\ n \in Nat  BY <1>2, TreeTypes
<1>4. /\ marked \in Seq(TapNodes) /\ Len(marked) = m
      /\ \A k \in 1..m : Branch(marked[k], tapNodes) /\ marked[k].depth = tapDepth
  <2>1. \A k \in 1..m : Branch(tapNew[k], tapNodes)  BY <1>2
  <2> HIDE DEF m
  <2>2. BranchesMarkedIn(marked, tapNew, m, tapNodes)  BY <1>3, <2>1, BranchesMarked
  <2> HIDE DEF marked
  <2> QED  BY <1>2, <2>2 DEF BranchesMarkedIn, m
<1> HIDE DEF marked, h, S
<1>5. /\ TapTree(h) /\ Len(h) = n + m
      /\ \A i \in 1..n : h[i] = tapNodes[i]
      /\ \A i \in 1..(n + m) : i > n => /\ ~h[i].answered /\ i - n \in 1..m
                                        /\ h[i] = marked[i - n]
  <2>1. \A k \in 1..Len(marked) : Branch(marked[k], tapNodes)  BY <1>4
  <2>2. Joins(h, tapNodes, marked)  BY <1>1, <1>2, <1>4, <2>1, BranchesJoin
  <2> QED  BY <1>4, <2>2 DEF Joins
<1> HIDE DEF m, n
<1>6. DOMAIN h = 1..(n + m)  BY <1>5, TreeTypes
<1>7. \A i \in 1..(n + m) : i > n \/ i \in 1..n  BY <1>3
<1>8. NoneReached(h, atkThreshold)
  <2> SUFFICES ASSUME NEW i \in 1..(n + m), h[i].answered PROVE h[i].score < atkThreshold
    BY <1>5 DEF NoneReached
  <2>1. i \in 1..n /\ h[i] = tapNodes[i]  BY <1>5, <1>7
  <2> QED  BY <1>2, <2>1 DEF NoneReached, n
<1>9. S \in SUBSET (1..(n + m)) /\ n + m \in Nat  BY <1>3, <1>6 DEF S
<1>10. Listed(tapQueue', S)  BY <1>9, <1>r, InOrder
<1>11. Len(tapQueue') \in Nat /\ Len(tapQueue') <= m
  <2>1. S \in SUBSET ((n + 1)..(n + m))
    <3>1. \A i \in 1..(n + m) : i > n => i \in (n + 1)..(n + m)  BY <1>3
    <3>2. \A i \in S : i \in 1..(n + m) /\ i > n  BY <1>6 DEF S
    <3> QED  BY <3>1, <3>2
  <2>2. n + 1 \in Int /\ n + m \in Int  BY <1>3
  <2>3. /\ IsFiniteSet((n + 1)..(n + m))
        /\ Cardinality((n + 1)..(n + m)) = IF n + 1 > n + m THEN 0 ELSE (n + m) - (n + 1) + 1
    BY <2>2, FS_Interval
  <2>4. Cardinality((n + 1)..(n + m)) = m  BY <1>3, <2>3
  <2>5. Cardinality(S) <= m  BY ZenonT(40), <2>1, <2>3, <2>4, FS_Subset
  <2>6. Len(tapQueue') = Cardinality(S) /\ Cardinality(S) \in Nat  BY <1>10 DEF Listed
  <2> QED  BY <2>5, <2>6
<1>12. CASE tapQueue' = <<>>
  <2>1. TapFinalize(0)  BY <1>12 DEF TapPruneOffTopic
  <2>2. Judged(tapNodes', atkTurns') /\ atkStage' # "run"  BY <1>2, <1>5, <2>1, Finalized DEF h
  <2> QED  BY <1>11, <2>2 DEF m
<1>13. CASE tapQueue' # <<>>
  <2>1. tapPc' = "query" /\ atkTurns' = <<>>  BY <1>2, <1>13 DEF TapPruneOffTopic
  <2>2. /\ tapQueue' \in Seq(S) /\ Range(tapQueue') = S
        /\ \A i, j \in 1..Len(tapQueue') : tapQueue'[i] = tapQueue'[j] => i = j
    BY <1>10 DEF Listed
  <2>3. tapQueue' \in Seq(1..(n + m))
    <3>1. \A A, B : A \subseteq B => Seq(A) \subseteq Seq(B)  OBVIOUS
    <3> QED  BY <1>9, <2>2, <3>1
  <2>4. \A l \in S : h[l].depth = tapDepth /\ ~h[l].pruned /\ ~h[l].answered
    <3> SUFFICES ASSUME NEW l \in S PROVE h[l].depth = tapDepth /\ ~h[l].pruned /\ ~h[l].answered
      OBVIOUS
    <3>1. l \in 1..(n + m) /\ l > n /\ ~h[l].pruned  BY <1>6 DEF S
    <3>2. ~h[l].answered /\ l - n \in 1..m /\ h[l] = marked[l - n]  BY <1>5, <3>1
    <3> QED  BY <1>4, <3>1, <3>2
  <2>5. TapQueries'
    BY <1>1, <1>13, <2>2, <2>4 DEF TapQueries, h
  <2>6. TapBranches'
    <3>1. Len(tapNew') = 0 /\ tapNew' \in Seq(TapNodes) /\ \A k \in 1..0 : FALSE  BY <1>1
    <3> QED  BY <1>1, <1>2, <1>5, <1>13, <2>1, <2>3, <3>1 DEF TapBranches, h
  <2>7. TapRuns'  BY <1>1, <1>5, <1>8, <2>1, <2>5, <2>6 DEF TapRuns, h
  <2>8. Judged(tapNodes', atkTurns')  BY <2>1 DEF Judged
  <2> QED  BY <1>11, <2>7, <2>8 DEF m
<1> QED  BY <1>12, <1>13

\* The outcomes of an answer: the threshold is reached, the next is sent, or the
\* depth is over.
TapReaches(i, s) ==
  s >= atkThreshold /\ tapNodes' = Scored(tapNodes, i, s) /\ TapFinalize(i)
TapGoesOn(i, s) ==
  /\ ~(s >= atkThreshold) /\ Len(tapQueue) > 1
  /\ tapNodes' = Scored(tapNodes, i, s) /\ tapQueue' = Tail(tapQueue)
  /\ UNCHANGED <<atkStage, atkTurns, tapPc, tapDepth, tapLeaves>>
TapEndsDepth(i, s) ==
  LET scored == Scored(tapNodes, i, s)
      keep   == TapKeepBest(scored, tapLeaves)
  IN  /\ ~(s >= atkThreshold) /\ ~(Len(tapQueue) > 1)
      /\ tapNodes' = Forgotten(scored, keep.pruned)
      /\ tapQueue' = <<>> /\ tapLeaves' = keep.kept
      /\ IF tapDepth = TreeDepth THEN TapFinalize(0)
         ELSE /\ tapDepth' = tapDepth + 1 /\ tapPc' = "branch"
              /\ UNCHANGED <<atkStage, atkTurns>>

LEMMA TapOutcomes ==
  ASSUME TapQuery
  PROVE  \/ SendRaised /\ UNCHANGED tapVars
         \/ /\ Sent /\ UNCHANGED <<atkThreshold, tapNew>>
            /\ \E s \in HeuristicScores : \/ TapReaches(Head(tapQueue), s)
                                          \/ TapGoesOn(Head(tapQueue), s)
                                          \/ TapEndsDepth(Head(tapQueue), s)
<1>1. CASE SendRaised /\ UNCHANGED tapVars  BY <1>1
<1>2. CASE ~(SendRaised /\ UNCHANGED tapVars)
  <2>1. /\ Sent /\ UNCHANGED atkSettings /\ UNCHANGED tapNew
        /\ \E s \in HeuristicScores :
             LET i      == Head(tapQueue)
                 scored == Scored(tapNodes, i, s)
                 keep   == TapKeepBest(scored, tapLeaves)
             IN  IF s >= atkThreshold
                 THEN /\ tapNodes' = scored
                      /\ TapFinalize(i)
                      /\ UNCHANGED <<tapPc, tapDepth, tapLeaves, tapQueue>>
                 ELSE IF Len(tapQueue) > 1
                 THEN /\ tapNodes' = scored
                      /\ tapQueue' = Tail(tapQueue)
                      /\ UNCHANGED <<atkStage, atkTurns, atkVerdict, atkOutcome>>
                      /\ UNCHANGED <<tapPc, tapDepth, tapLeaves>>
                 ELSE /\ tapNodes' = Forgotten(scored, keep.pruned)
                      /\ tapQueue' = <<>>
                      /\ tapLeaves' = keep.kept
                      /\ IF tapDepth = TreeDepth
                         THEN TapFinalize(0) /\ UNCHANGED <<tapPc, tapDepth>>
                         ELSE NextDepth /\ UNCHANGED <<atkStage, atkTurns, atkVerdict, atkOutcome>>
    BY <1>2, Zenon DEF TapQuery, Scored, Forgotten
  <2>2. UNCHANGED atkThreshold  BY <2>1 DEF atkSettings
  <2>3. PICK s \in HeuristicScores :
           \/ TapReaches(Head(tapQueue), s)
           \/ TapGoesOn(Head(tapQueue), s)
           \/ TapEndsDepth(Head(tapQueue), s)
    BY <2>1, Zenon DEF TapReaches, TapGoesOn, TapEndsDepth, NextDepth
  <2> QED  BY <2>1, <2>2, <2>3
<1> QED  BY <1>1, <1>2

\* The first of the queue may be answered.
LEMMA TapHead ==
  ASSUME TapRuns, tapPc = "query", atkThreshold \in Int, NEW s \in HeuristicScores,
         NEW i, i = Head(tapQueue), NEW h, h = Scored(tapNodes, i, s)
  PROVE  /\ i \in 1..Len(tapNodes) /\ i # 1 /\ i # 0 /\ i \in Range(tapLeaves)
         /\ s \in Int /\ s > 0 /\ i = tapQueue[1] /\ Len(tapQueue) \in Nat \ {0}
         /\ TapTree(h) /\ Len(h) = Len(tapNodes)
         /\ h[i].answered /\ h[i].score = s /\ ~h[i].pruned /\ h[i].depth = tapDepth
         /\ \A j \in 1..Len(tapNodes) : j # i => h[j] = tapNodes[j]
<1>1. /\ TapTree(tapNodes) /\ tapDepth \in 1..TreeDepth
      /\ tapLeaves \in Seq(1..Len(tapNodes))
      /\ tapQueue \in Seq(Range(tapLeaves)) /\ tapQueue # <<>>
      /\ \A l \in Range(tapLeaves) : /\ tapNodes[l].depth = tapDepth /\ ~tapNodes[l].pruned
                                     /\ l \in Range(tapQueue) => ~tapNodes[l].answered
  BY DEF TapRuns, TapBranches, TapQueries
<1>2. i = tapQueue[1] /\ Len(tapQueue) \in Nat \ {0} /\ i \in Range(tapLeaves)
      /\ i \in Range(tapQueue)
  <2>1. Len(tapQueue) \in Nat \ {0} /\ 1 \in 1..Len(tapQueue)  BY <1>1
  <2>2. i = tapQueue[1]  BY <1>1
  <2> QED  BY <1>1, <2>1, <2>2 DEF Range
<1>3. i \in 1..Len(tapNodes)  BY SMTT(30), <1>1, <1>2 DEF Range
<1>4. ~tapNodes[i].answered /\ ~tapNodes[i].pruned /\ tapNodes[i].depth = tapDepth
  BY <1>1, <1>2
<1>5. tapDepth \in Int /\ tapDepth > 0  BY <1>1, TapAssumption
<1>6. i # 1
  <2>1. Tree(tapNodes, Len(tapNodes))  BY <1>1, TreeTypes
  <2>2. i = 1 => tapNodes[i].depth = 0  BY <1>3, <2>1 DEF Tree
  <2> QED  BY <1>4, <1>5, <2>2
<1>7. s \in Int /\ s > 0  BY ScoresAre
<1>8. tapNodes[i].depth > 0  BY <1>4, <1>5
<1>9. /\ TapTree(h) /\ Len(h) = Len(tapNodes)
      /\ h[i].answered /\ h[i].score = s /\ h[i].pruned = tapNodes[i].pruned
      /\ h[i].depth = tapNodes[i].depth
      /\ \A j \in 1..Len(tapNodes) : j # i => h[j] = tapNodes[j]
  BY SMTT(30), <1>1, <1>3, <1>4, <1>7, <1>8, ScoredIs
<1>10. i # 0
  <2>1. Len(tapNodes) \in Nat  BY <1>1, TreeTypes
  <2> QED  BY <1>3, <2>1
<1> QED  BY <1>2, <1>3, <1>4, <1>6, <1>7, <1>9, <1>10

LEMMA TapBreaks ==
  ASSUME TapRuns, tapPc = "query", atkThreshold \in Int, NEW s \in HeuristicScores,
         TapReaches(Head(tapQueue), s)
  PROVE  atkStage' # "run" /\ Judged(tapNodes', atkTurns')
<1> DEFINE i == Head(tapQueue)
           h == Scored(tapNodes, i, s)
<1>1. tapNodes' = h /\ TapFinalize(i) /\ s >= atkThreshold  BY DEF TapReaches
<1>2. /\ i \in 1..Len(tapNodes) /\ i # 1 /\ i # 0 /\ s \in Int
      /\ TapTree(h) /\ Len(h) = Len(tapNodes)
      /\ h[i].answered /\ h[i].score = s
      /\ \A j \in 1..Len(tapNodes) : j # i => h[j] = tapNodes[j]
  BY TapHead
<1>3. atkTurns = <<>> /\ NoneReached(tapNodes, atkThreshold) /\ TapTree(tapNodes)
  BY DEF TapRuns
<1> HIDE DEF h, i
<1>4. ASSUME NEW j \in DOMAIN h, h[j].answered PROVE h[j].score <= h[i].score
  <2>1. j \in 1..Len(tapNodes)  BY <1>2, TreeTypes
  <2>2. CASE j = i  BY <1>2, <2>2
  <2>3. CASE j # i
    <3>1. h[j] = tapNodes[j]  BY <1>2, <2>1, <2>3
    <3>2. h[j].score < atkThreshold  BY <1>3, <1>4, <2>1, <3>1 DEF NoneReached
    <3>3. h[j].score \in Int  BY <1>3, <2>1, <3>1, TreeTypes
    <3> QED  BY <1>1, <1>2, <3>2, <3>3
  <2> QED  BY <2>2, <2>3
<1> QED  BY <1>1, <1>2, <1>3, <1>4, Finalized

LEMMA TapSendsNext ==
  ASSUME TapRuns, tapPc = "query", atkThreshold \in Int, NEW s \in HeuristicScores,
         TapGoesOn(Head(tapQueue), s), UNCHANGED <<atkThreshold, tapNew>>
  PROVE  TapRuns'
<1> DEFINE i == Head(tapQueue)
           h == Scored(tapNodes, i, s)
           n == Len(tapNodes)
<1>1. /\ tapNodes' = h /\ tapQueue' = Tail(tapQueue) /\ ~(s >= atkThreshold) /\ Len(tapQueue) > 1
      /\ UNCHANGED <<atkTurns, tapPc, tapDepth, tapLeaves>>
  BY DEF TapGoesOn
<1>2. /\ i \in 1..n /\ s \in Int /\ i = tapQueue[1]
      /\ TapTree(h) /\ Len(h) = n
      /\ h[i].answered /\ h[i].score = s /\ ~h[i].pruned /\ h[i].depth = tapDepth
      /\ \A j \in 1..n : j # i => h[j] = tapNodes[j]
  BY TapHead
<1>3. /\ NoneReached(tapNodes, atkThreshold) /\ TapTree(tapNodes)
      /\ tapLeaves \in Seq(1..n) /\ tapLeaves # <<>> /\ tapDepth \in 1..TreeDepth
      /\ tapNew = <<>> /\ tapQueue \in Seq(Range(tapLeaves))
      /\ \A j, k \in 1..Len(tapQueue) : tapQueue[j] = tapQueue[k] => j = k
      /\ \A l \in Range(tapLeaves) : /\ tapNodes[l].depth = tapDepth /\ ~tapNodes[l].pruned
                                     /\ l \notin Range(tapQueue) => tapNodes[l].answered
                                     /\ l \in Range(tapQueue) => ~tapNodes[l].answered
  BY DEF TapRuns, TapBranches, TapQueries
<1>0. atkTurns = <<>>  BY DEF TapRuns
<1> HIDE DEF h, i, n
<1>4. NoneReached(h, atkThreshold)
  <2> SUFFICES ASSUME NEW j \in 1..n, h[j].answered PROVE h[j].score < atkThreshold
    BY <1>2 DEF NoneReached
  <2>1. CASE j = i  BY <1>1, <1>2, <2>1
  <2>2. CASE j # i
    <3>1. h[j] = tapNodes[j]  BY <1>2, <2>2
    <3> QED  BY <1>3, <3>1 DEF NoneReached, n
  <2> QED  BY <2>1, <2>2
<1>5. /\ tapQueue' \in Seq(Range(tapLeaves)) /\ tapQueue' # <<>>
      /\ \A j, k \in 1..Len(tapQueue') : tapQueue'[j] = tapQueue'[k] => j = k
      /\ Range(tapQueue') = Range(tapQueue) \ {i}
  BY ZenonT(40), <1>1, <1>2, <1>3, Tails
<1>6. ASSUME NEW l \in Range(tapLeaves)
      PROVE  /\ h[l].depth = tapDepth /\ ~h[l].pruned
             /\ l \notin Range(tapQueue') => h[l].answered
             /\ l \in Range(tapQueue') => ~h[l].answered
  <2>1. CASE l = i  BY <1>2, <1>5, <2>1
  <2>2. CASE l # i
    <3>1. l \in 1..n  BY <1>3, RangeOf
    <3>2. h[l] = tapNodes[l]  BY <1>2, <2>2, <3>1
    <3>3. l \in Range(tapQueue') <=> l \in Range(tapQueue)  BY <1>5, <2>2
    <3> QED  BY <1>3, <3>2, <3>3
  <2> QED  BY <2>1, <2>2
<1>7. TapQueries'  BY <1>1, <1>3, <1>5, <1>6 DEF TapQueries
<1>8. TapBranches'
  <2>1. Len(tapNew') = 0 /\ tapNew' \in Seq(TapNodes) /\ \A k \in 1..0 : FALSE  BY <1>3
  <2> QED  BY <1>1, <1>2, <1>3, <2>1 DEF TapBranches, n
<1> QED  BY <1>0, <1>1, <1>2, <1>4, <1>7, <1>8 DEF TapRuns

LEMMA Prefix ==
  ASSUME NEW Y, NEW q \in Seq(Y), Len(q) > 0, NEW w \in Nat \ {0}
  PROVE  LET p == SubSeq(q, 1, Min({w, Len(q)}))
         IN  /\ p \in Seq(Y) /\ p # <<>> /\ Range(p) \subseteq Range(q)
             /\ Len(p) = Min({w, Len(q)}) /\ Len(p) \in Nat \ {0}
<1> DEFINE k == Min({w, Len(q)})
           p == SubSeq(q, 1, k)
<1>1. Len(q) \in Nat /\ DOMAIN q = 1..Len(q)  OBVIOUS
<1>2. k \in 1..Len(q)
  <2> DEFINE c == Len(q)
  <2>1. c \in Nat \ {0}  BY <1>1
  <2>2. k = IF w <= c THEN w ELSE c  BY <2>1, MinOfTwo
  <2> HIDE DEF k, c
  <2>3. k \in 1..c  BY <2>1, <2>2
  <2> QED  BY <2>3 DEF c
<1> HIDE DEF k
<1>3. /\ p \in Seq(Y) /\ Len(p) = k /\ DOMAIN p = 1..k
      /\ \A j \in 1..k : p[j] = q[j]
  BY <1>1, <1>2
<1>4. \A j \in 1..k : j \in 1..Len(q)  BY <1>1, <1>2
<1> HIDE DEF p
<1>5. Range(p) \subseteq Range(q)  BY <1>1, <1>3, <1>4 DEF Range
<1>6. p # <<>> /\ Len(p) \in Nat \ {0}  BY <1>2, <1>3
<1> QED  BY <1>3, <1>5, <1>6 DEF k, p

\* Of the answers of a depth, the best are kept: the first of them beats all.
LEMMA BestAreKept ==
  ASSUME NEW nodes, TapTree(nodes), NEW leaves \in Seq(1..Len(nodes)), leaves # <<>>,
         NEW keep, keep = TapKeepBest(nodes, leaves)
  PROVE  /\ keep.kept \in Seq(1..Len(nodes)) /\ keep.kept # <<>>
         /\ Range(keep.kept) \subseteq Range(leaves)
         /\ \E q : /\ Listed(q, Range(leaves)) /\ Len(q) \in Nat \ {0}
                   /\ Len(keep.kept) = Min({TreeWidth, Len(q)})
         /\ \E t \in Range(leaves) : /\ t \notin keep.pruned
                                     /\ \A j \in Range(leaves) : nodes[j].score <= nodes[t].score
         /\ keep.pruned \subseteq Range(leaves)
<1> DEFINE n == Len(nodes)
           S == Range(leaves)
           q == Ranked(S, LAMBDA i, j : TapAhead(nodes, i, j))
<1>1. n \in Nat /\ \A i \in 1..n : nodes[i].score \in Int  BY TreeTypes
<1>2. S \in SUBSET (1..n) /\ S # {}
  <2>1. DOMAIN leaves = 1..Len(leaves) /\ Len(leaves) \in Nat /\ 1 \in 1..Len(leaves)  OBVIOUS
  <2>2. \A x \in 1..Len(leaves) : leaves[x] \in 1..n  OBVIOUS
  <2>3. S = {leaves[x] : x \in 1..Len(leaves)}  BY <2>1 DEF Range
  <2> HIDE DEF n, S
  <2> QED  BY <2>1, <2>2, <2>3
<1>3. /\ keep.kept = SubSeq(q, 1, Min({TreeWidth, Len(q)}))
      /\ keep.pruned = {q[k] : k \in (TreeWidth + 1)..Len(q)}
  BY Zenon DEF TapKeepBest
<1>4. Sorted(q, S, Better(nodes, S))
  <2> DEFINE r == q
  <2>1. r = Ranked(S, LAMBDA i, j : TapAhead(nodes, i, j))  OBVIOUS
  <2> HIDE DEF S, n, r
  <2> QED  BY <1>1, <1>2, <2>1, ByScore
<1> HIDE DEF q, S, n
<1>5. /\ Listed(q, S)
      /\ \A j \in S : q[1] \in S /\ nodes[j].score <= nodes[q[1]].score
  <2>1. /\ Listed(q, S)
        /\ \A j \in S : /\ q[1] \in S /\ nodes[j].score <= nodes[q[1]].score
                        /\ j # q[1] => TapAhead(nodes, q[1], j)
    BY <1>1, <1>2, <1>4, FirstIsBest
  <2> QED  BY <2>1
<1>6. /\ q \in Seq(S) /\ Len(q) \in Nat /\ Range(q) = S
      /\ \A i, j \in 1..Len(q) : q[i] = q[j] => i = j
  BY <1>5 DEF Listed
<1>7. Len(q) # 0
  <2>1. q # <<>>  BY <1>2, <1>6 DEF Range
  <2> QED  BY <1>6, <2>1
<1>8. TreeWidth \in Nat \ {0}  BY TapAssumption
<1>9. /\ keep.kept \in Seq(S) /\ keep.kept # <<>> /\ Range(keep.kept) \subseteq S
      /\ Len(keep.kept) = Min({TreeWidth, Len(q)})
  <2> DEFINE p == SubSeq(q, 1, Min({TreeWidth, Len(q)}))
  <2>1. Len(q) > 0  BY <1>6, <1>7
  <2>2. /\ p \in Seq(S) /\ p # <<>> /\ Range(p) \subseteq Range(q)
        /\ Len(p) = Min({TreeWidth, Len(q)})
    BY <1>6, <1>8, <2>1, Prefix
  <2>3. keep.kept = p  BY <1>3
  <2> HIDE DEF p
  <2> QED  BY <1>6, <2>2, <2>3
<1>10. keep.kept \in Seq(1..n)
  <2>1. \A A, B : A \subseteq B => Seq(A) \subseteq Seq(B)  OBVIOUS
  <2> QED  BY <1>2, <1>9, <2>1
<1>11. q[1] \in S /\ \A j \in S : nodes[j].score <= nodes[q[1]].score  BY <1>2, <1>5
<1>12. q[1] \notin keep.pruned
  <2> SUFFICES ASSUME NEW k \in (TreeWidth + 1)..Len(q), q[k] = q[1] PROVE FALSE  BY <1>3
  <2>1. k \in 1..Len(q) /\ 1 \in 1..Len(q) /\ k # 1  BY <1>6, <1>8
  <2> QED  BY <1>6, <2>1
<1>13. keep.pruned \subseteq S
  <2>1. \A k \in (TreeWidth + 1)..Len(q) : k \in 1..Len(q)  BY <1>6, <1>8
  <2>2. \A k \in 1..Len(q) : q[k] \in S  BY <1>6
  <2> QED  BY <1>3, <2>1, <2>2
<1> QED  BY <1>5, <1>6, <1>7, <1>9, <1>10, <1>11, <1>12, <1>13 DEF S, n

LEMMA TapRanks ==
  ASSUME TapRuns, tapPc = "query", atkThreshold \in Int, NEW s \in HeuristicScores,
         TapEndsDepth(Head(tapQueue), s), UNCHANGED <<atkThreshold, tapNew>>
  PROVE  /\ atkStage' = "run" /\ atkStage = "run" => TapRuns'
         /\ Judged(tapNodes', atkTurns')
<1> DEFINE i == Head(tapQueue)
           g == Scored(tapNodes, i, s)
           keep == TapKeepBest(g, tapLeaves)
           h == Forgotten(g, keep.pruned)
           n == Len(tapNodes)
<1>1. /\ ~(s >= atkThreshold) /\ ~(Len(tapQueue) > 1)
      /\ tapNodes' = h /\ tapQueue' = <<>> /\ tapLeaves' = keep.kept
      /\ IF tapDepth = TreeDepth THEN TapFinalize(0)
         ELSE tapDepth' = tapDepth + 1 /\ tapPc' = "branch" /\ UNCHANGED <<atkStage, atkTurns>>
  BY Zenon DEF TapEndsDepth
<1>2. /\ i \in 1..n /\ s \in Int /\ i = tapQueue[1] /\ Len(tapQueue) \in Nat \ {0}
      /\ TapTree(g) /\ Len(g) = n
      /\ g[i].answered /\ g[i].score = s /\ ~g[i].pruned /\ g[i].depth = tapDepth
      /\ \A j \in 1..n : j # i => g[j] = tapNodes[j]
  BY TapHead
<1>3. /\ NoneReached(tapNodes, atkThreshold) /\ TapTree(tapNodes)
      /\ tapLeaves \in Seq(1..n) /\ tapLeaves # <<>> /\ tapDepth \in 1..TreeDepth
      /\ tapNew = <<>> /\ tapQueue \in Seq(Range(tapLeaves))
      /\ \A l \in Range(tapLeaves) : /\ tapNodes[l].depth = tapDepth /\ ~tapNodes[l].pruned
                                     /\ l \notin Range(tapQueue) => tapNodes[l].answered
  BY DEF TapRuns, TapBranches, TapQueries
<1>0. atkTurns = <<>>  BY DEF TapRuns
<1>4. Range(tapLeaves) \subseteq 1..n  BY <1>3, RangeOf
<1>5. \A l \in Range(tapQueue) : l = i
  <2>1. /\ ~(Len(tapQueue) > 1) /\ Len(tapQueue) \in Nat \ {0} /\ i = tapQueue[1]
        /\ tapQueue \in Seq(Range(tapLeaves))
    BY <1>1, <1>2, <1>3
  <2> HIDE DEF i, g, keep, h
  <2> DEFINE c == Len(tapQueue)
  <2>5. c \in Nat \ {0} /\ ~(c > 1)  BY <2>1
  <2> HIDE DEF c
  <2>6. c = 1  BY <2>5
  <2>2. Len(tapQueue) = 1  BY <2>6 DEF c
  <2>3. DOMAIN tapQueue = 1..1  BY <2>1, <2>2
  <2>4. \A x \in 1..1 : x = 1  OBVIOUS
  <2> QED  BY <2>1, <2>3, <2>4 DEF Range
<1> HIDE DEF g, i, n
<1>6. /\ keep.kept \in Seq(1..n) /\ keep.kept # <<>> /\ Range(keep.kept) \subseteq Range(tapLeaves)
      /\ \E t \in Range(tapLeaves) : /\ t \notin keep.pruned
                                     /\ \A j \in Range(tapLeaves) : g[j].score <= g[t].score
      /\ keep.pruned \subseteq Range(tapLeaves)
  <2>1. tapLeaves \in Seq(1..Len(g))  BY <1>2, <1>3
  <2> HIDE DEF keep
  <2>2. keep = TapKeepBest(g, tapLeaves)  BY DEF keep
  <2> QED  BY <1>2, <1>3, <2>1, <2>2, BestAreKept
<1> HIDE DEF keep
<1>7. PICK t \in Range(tapLeaves) : /\ t \notin keep.pruned
                                    /\ \A j \in Range(tapLeaves) : g[j].score <= g[t].score
  BY <1>6
<1>8. ASSUME NEW l \in Range(tapLeaves)
      PROVE  g[l].answered /\ ~g[l].pruned /\ g[l].depth = tapDepth
  <2>1. CASE l = i  BY <1>2, <2>1
  <2>2. CASE l # i
    <3>1. l \in 1..n /\ l \notin Range(tapQueue)  BY <1>4, <1>5, <2>2
    <3>2. g[l] = tapNodes[l]  BY <1>2, <2>2, <3>1
    <3> QED  BY <1>3, <3>1, <3>2
  <2> QED  BY <2>1, <2>2
<1>9. tapDepth \in Int /\ tapDepth > 0  BY <1>3, TapAssumption
<1>10. t \in TapEvaluated(g)
  <2>1. t \in 1..Len(g) /\ t \in DOMAIN g  BY <1>2, <1>4, TreeTypes
  <2>2. g[t].score > 0  BY <1>2, <1>8, <2>1, TreeTypes
  <2>3. g[t].depth > 0 /\ ~g[t].pruned  BY <1>8, <1>9
  <2> QED  BY <2>1, <2>2, <2>3 DEF TapEvaluated
<1>11. /\ TapTree(h) /\ Len(h) = n
       /\ \A j \in 1..n : /\ h[j].answered = g[j].answered /\ h[j].score = g[j].score
                          /\ h[j].depth = g[j].depth
  <2>1. \A j \in keep.pruned : g[j].score <= g[t].score  BY <1>6, <1>7
  <2>2. /\ TapTree(h) /\ Len(h) = Len(g)
        /\ \A j \in 1..Len(g) : /\ h[j].answered = g[j].answered /\ h[j].score = g[j].score
                                /\ h[j].depth = g[j].depth
    BY SMTT(30), <1>2, <1>7, <1>10, <2>1, ForgottenIs
  <2> QED  BY <1>2, <2>2
<1> HIDE DEF h
<1>12. NoneReached(h, atkThreshold)
  <2> SUFFICES ASSUME NEW j \in 1..n, h[j].answered PROVE h[j].score < atkThreshold
    BY <1>11 DEF NoneReached
  <2>1. CASE j = i  BY <1>1, <1>2, <1>11, <2>1
  <2>2. CASE j # i
    <3>1. g[j] = tapNodes[j] /\ h[j].answered = g[j].answered /\ h[j].score = g[j].score
      BY <1>2, <1>11, <2>2
    <3>2. tapNodes[j].answered  BY <3>1
    <3> QED  BY <1>3, <3>1, <3>2 DEF NoneReached, n
  <2> QED  BY <2>1, <2>2
<1>13. CASE tapDepth = TreeDepth
  <2>1. TapFinalize(0) /\ TapTree(tapNodes')  BY <1>1, <1>11, <1>13
  <2>2. Judged(tapNodes', atkTurns') /\ atkStage' # "run"  BY <1>0, <2>1, Finalized
  <2> QED  BY <2>2
<1>14. CASE tapDepth # TreeDepth
  <2>1. tapDepth' = tapDepth + 1 /\ tapPc' = "branch" /\ atkTurns' = <<>>  BY <1>0, <1>1, <1>14
  <2>2. tapDepth' \in 1..TreeDepth
    <3>1. TreeDepth \in Nat  BY TapAssumption
    <3> QED  BY <1>3, <1>14, <2>1, <3>1
  <2>3. \A l \in Range(tapLeaves') : Grows(h, l) /\ h[l].depth + 1 = tapDepth'
    <3> SUFFICES ASSUME NEW l \in Range(tapLeaves')
                 PROVE  Grows(h, l) /\ h[l].depth + 1 = tapDepth'
      OBVIOUS
    <3>1. l \in Range(tapLeaves) /\ l \in 1..n  BY <1>1, <1>4, <1>6
    <3>2. h[l].answered /\ h[l].depth = tapDepth  BY <1>8, <1>11, <3>1
    <3> QED  BY <2>1, <3>2 DEF Grows
  <2>4. 0 < Len(tapLeaves') * BranchingFactor
    <3>1. BranchingFactor \in Nat \ {0}  BY TapAssumption
    <3>2. Len(tapLeaves') \in Nat \ {0}  BY <1>1, <1>6
    <3> QED  BY <3>1, <3>2
  <2>5. Len(tapNew') = 0 /\ tapNew' \in Seq(TapNodes) /\ \A k \in 1..0 : FALSE  BY <1>3
  <2>6. TapBranches'  BY <1>1, <1>6, <1>11, <2>1, <2>2, <2>3, <2>4, <2>5 DEF TapBranches
  <2>7. TapQueries'  BY <2>1 DEF TapQueries
  <2>8. TapRuns'  BY <1>1, <1>11, <1>12, <2>1, <2>6, <2>7 DEF TapRuns
  <2> QED  BY <2>1, <2>8 DEF Judged
<1> QED  BY <1>13, <1>14

LEMMA TapStays == TapInv /\ [AttackNext]_attackVars => TapInv'
<1> SUFFICES ASSUME TapInv, [AttackNext]_attackVars, algorithm' = "tap"
             PROVE  /\ atkThreshold' \in Int
                    /\ atkDry' => atkTurns' = <<>> /\ tapPc' = "branch"
                    /\ ~atkDry' /\ atkStage' = "run" => TapRuns'
                    /\ Judged(tapNodes', atkTurns')
  BY DEF TapInv
<1>1. algorithm = "tap" /\ atkThreshold' = atkThreshold /\ atkDry' = atkDry
  BY AlgorithmStays DEF atkSettings
<1>2. /\ atkThreshold \in Int
      /\ atkDry => atkTurns = <<>> /\ tapPc = "branch"
      /\ ~atkDry /\ atkStage = "run" => TapRuns
      /\ Judged(tapNodes, atkTurns)
  BY <1>1 DEF TapInv
<1>3. CASE UNCHANGED attackVars
  <2>1. UNCHANGED <<atkStage, atkTurns, atkThreshold, tapPc, tapDepth, tapNodes, tapNew, tapLeaves, tapQueue>>
    BY <1>3 DEF attackVars, atkVars, tapVars
  <2>2. TapRuns' = TapRuns  BY <2>1 DEF TapRuns, TapBranches, TapQueries
  <2> QED  BY <1>1, <1>2, <2>1, <2>2
<1>4. CASE Judge
  <2>1. UNCHANGED <<atkTurns, tapPc, tapNodes>> /\ atkStage' = "end"
    BY <1>4 DEF Judge, JudgeTrace, Finish, tapVars
  <2> QED  BY <1>1, <1>2, <2>1
<1>5. CASE TapDryRun
  <2>1. atkDry /\ atkTurns' = atkTurns /\ tapPc' = tapPc  BY <1>5 DEF TapDryRun
  <2> QED  BY <1>1, <1>2, <2>1 DEF Judged
<1>6. CASE TapBranch
  <2>1. /\ TapRuns /\ ~atkDry /\ atkTurns' = atkTurns /\ UNCHANGED <<tapDepth, tapNodes, tapLeaves, tapQueue>>
    BY <1>2, <1>6 DEF TapBranch, SendRaised, Running
  <2>2. Judged(tapNodes', atkTurns')  BY <1>2, <2>1
  <2>3. CASE atkStage' = "run"
    <3>1. PICK off \in BOOLEAN :
             tapNew' = Append(tapNew, TapNode(tapLeaves[(Len(tapNew) \div BranchingFactor) + 1], tapDepth, off))
      BY <1>6, <2>3 DEF TapBranch, SendRaised, Finish
    <3>2. tapPc = "branch" /\ tapPc' = IF Len(tapNew') = Len(tapLeaves) * BranchingFactor
                                       THEN "prune" ELSE "branch"
      BY <1>6, <2>3 DEF TapBranch, SendRaised, Finish
    <3>3. TapRuns'  BY <1>1, <2>1, <3>1, <3>2, TapGrows
    <3> QED  BY <1>1, <1>2, <2>1, <2>2, <3>3
  <2> QED  BY <1>1, <1>2, <2>1, <2>2, <2>3
<1>7. CASE TapPruneOffTopic
  <2>1. ~atkDry /\ atkStage = "run"  BY <1>2, <1>7 DEF TapPruneOffTopic, Running
  <2>2. (atkStage' = "run" => TapRuns') /\ Judged(tapNodes', atkTurns')
    BY <1>2, <1>7, <2>1, TapPrunes
  <2> QED  BY <1>1, <1>2, <2>1, <2>2
<1>8. CASE TapQuery
  <2>1. ~atkDry /\ atkStage = "run" /\ tapPc = "query"  BY <1>2, <1>8 DEF TapQuery, Running
  <2>2. TapRuns /\ atkThreshold \in Int  BY <1>2, <2>1
  <2>3. CASE SendRaised /\ UNCHANGED tapVars
    <3>1. atkStage' = "end" /\ UNCHANGED <<atkTurns, tapNodes>>
      BY <2>3 DEF SendRaised, Finish, tapVars
    <3> QED  BY <1>1, <1>2, <2>1, <3>1
  <2>4. ASSUME UNCHANGED <<atkThreshold, tapNew>>, NEW s \in HeuristicScores,
               TapReaches(Head(tapQueue), s)
        PROVE  (atkStage' = "run" => TapRuns') /\ Judged(tapNodes', atkTurns')
    BY <2>1, <2>2, <2>4, TapBreaks
  <2>5. ASSUME UNCHANGED <<atkThreshold, tapNew>>, NEW s \in HeuristicScores,
               TapGoesOn(Head(tapQueue), s)
        PROVE  (atkStage' = "run" => TapRuns') /\ Judged(tapNodes', atkTurns')
    <3>1. TapRuns'  BY <2>1, <2>2, <2>5, TapSendsNext
    <3>2. atkTurns' = <<>>  BY <3>1 DEF TapRuns
    <3> QED  BY <3>1, <3>2 DEF Judged
  <2>6. ASSUME UNCHANGED <<atkThreshold, tapNew>>, NEW s \in HeuristicScores,
               TapEndsDepth(Head(tapQueue), s)
        PROVE  (atkStage' = "run" => TapRuns') /\ Judged(tapNodes', atkTurns')
    BY <2>1, <2>2, <2>6, TapRanks
  <2>7. CASE ~(SendRaised /\ UNCHANGED tapVars)
    <3>1. (atkStage' = "run" => TapRuns') /\ Judged(tapNodes', atkTurns')
      BY <1>8, <2>4, <2>5, <2>6, <2>7, TapOutcomes
    <3> QED  BY <1>1, <1>2, <2>1, <3>1
  <2> QED  BY <2>3, <2>7
<1> QED  BY <1>1, <1>3, <1>4, <1>5, <1>6, <1>7, <1>8, OwnSteps DEF TapNext

\* For every depth, width and branching factor, whatever the target answers: what
\* TAP shows the judge was sent, and nothing sent scored higher (core/tap.py, run,
\* and core/tap_branching.py).
THEOREM TheBestIsJudged == AttackSpec => []TapJudgesTheBest
<1>1. TapInv => TapJudgesTheBest  BY DEF TapInv, TapJudgesTheBest, Judged
<1> QED  BY TapStarts, TapStays, <1>1, PTL DEF AttackSpec

-----------------------------------------------------------------------------
(***************************************************************************)
(* What a run spends                                                       *)
(***************************************************************************)
PairTurns == [number : Nat, score : Int, successful : BOOLEAN]
PairSpends ==
  /\ atkTurns \in Seq(PairTurns) /\ pairPc \in {"prompt", "query"}
  /\ atkSends = 2 * Len(atkTurns) + (IF pairPc = "query" THEN 1 ELSE 0)
  /\ Len(atkTurns) < MaxIterations \/ (MaxIterations = 0 /\ pairPc = "prompt" /\ atkTurns = <<>>)

CresSpends ==
  /\ cresPc \in {"recommend", "prompt", "query"}
  /\ cresTurn \in Nat \ {0} /\ cresAttempt \in 1..(BacktrackLimit + 1)
  /\ cresPc = "recommend" => cresAttempt = 1
  /\ cresTurn <= CrescendoMaxTurns \/ (CrescendoMaxTurns = 0 /\ cresTurn = 1 /\ cresPc = "recommend")
  /\ atkSends <= 2 * ((cresTurn - 1) * (BacktrackLimit + 1) + (cresAttempt - 1))
                   + (IF cresPc = "query" THEN 1 ELSE 0)

MctsSpends ==
  LET each == MctsStrategyCount + MctsRolloutTurns
  IN  /\ Len(strategies) \in Nat \ {0}
      /\ mctsSim \in 0..MctsSimulations /\ mctsRolled \in 0..MctsRolloutTurns
      /\ mctsPc = "select" => atkSends <= 2 * (mctsSim * each)
      /\ mctsPc # "select" =>
            /\ mctsSim > 0
            /\ atkSends <= 2 * ((mctsSim - 1) * each + (Len(mctsKids) + mctsRolled))
      /\ mctsPc = "expand" => Len(mctsKids) < SampledStrategies /\ mctsRolled = 0
      /\ mctsPc = "rollout" => Len(mctsKids) <= MctsStrategyCount

ChainSpends ==
  \/ chainPc = "recon" /\ chainStep \in 0..(ReconProbes - 1) /\ atkSends <= chainStep
  \/ chainPc = "social" /\ chainStep \in 0..1 /\ atkSends <= ReconProbes + chainStep
  \/ chainPc = "exploit" /\ chainStep \in 0..1 /\ atkSends <= ReconProbes + 2 + chainStep

\* The branches of the depths up to d.
TapBranched(d) == SumFunctionOnSet(TapLevel, 1..d)
TapSpends ==
  /\ atkDry => atkSends = 0
  /\ ~atkDry /\ tapPc = "branch" =>
        /\ Len(tapLeaves) <= TapLeaves[tapDepth]
        /\ atkSends <= 2 * TapBranched(tapDepth - 1) + Len(tapNew)
  /\ ~atkDry /\ tapPc = "prune" =>
        /\ Len(tapNew) <= TapLevel[tapDepth]
        /\ atkSends <= 2 * TapBranched(tapDepth - 1) + TapLevel[tapDepth]
  /\ ~atkDry /\ tapPc = "query" =>
        /\ Len(tapLeaves) <= TapLevel[tapDepth]
        /\ atkSends + Len(tapQueue) <= 2 * TapBranched(tapDepth)

QueriesInv ==
  /\ atkSends \in Nat /\ QueriesAreBounded
  /\ atkStage = "run" =>
        /\ algorithm = "pair" => PairSpends
        /\ algorithm = "tap" => TapSpends
        /\ algorithm = "crescendo" => CresSpends
        /\ algorithm = "mcts" => MctsSpends
        /\ algorithm = "agent_chain" => ChainSpends
\* A turn of PAIR is the attacker's send and the target's.
LEMMA PairSpendsTwo ==
  ASSUME PairNext, PairSpends, atkSends \in Nat, atkSends <= 2 * MaxIterations
  PROVE  /\ atkSends' \in Nat /\ atkSends' <= 2 * MaxIterations
         /\ atkStage' = "run" => PairSpends'
<1> DEFINE m == Len(atkTurns)
<1>0. MaxIterations \in Nat  BY PairAssumption
<1>1. /\ atkTurns \in Seq(PairTurns) /\ m \in Nat /\ pairPc \in {"prompt", "query"}
      /\ atkSends = 2 * m + (IF pairPc = "query" THEN 1 ELSE 0)
      /\ m < MaxIterations \/ (MaxIterations = 0 /\ pairPc = "prompt" /\ atkTurns = <<>>)
  BY DEF PairSpends
<1>2. CASE PairSkip
  <2>1. atkSends' = atkSends /\ atkStage' = "end"  BY <1>2 DEF PairSkip, Finish
  <2> QED  BY <2>1
<1>3. CASE PairPrompt
  <2>1. /\ pairPc = "prompt" /\ MaxIterations > 0 /\ atkSends' = atkSends + 1
        /\ atkStage' = "run" => pairPc' = "query" /\ atkTurns' = atkTurns
    BY <1>3 DEF PairPrompt, SendRaised, Sent, Finish
  <2>2. m < MaxIterations /\ atkSends = 2 * m  BY <1>0, <1>1, <2>1
  <2>3. atkSends' \in Nat /\ atkSends' <= 2 * MaxIterations  BY <1>0, <1>1, <2>1, <2>2
  <2>4. atkStage' = "run" => atkSends' = 2 * Len(atkTurns') + 1  BY <2>1, <2>2
  <2> HIDE DEF m
  <2>5. atkStage' = "run" => PairSpends'
    <3> SUFFICES ASSUME atkStage' = "run" PROVE PairSpends'  OBVIOUS
    <3>1. pairPc' = "query" /\ atkTurns' = atkTurns  BY <2>1
    <3> QED  BY <1>1, <2>2, <2>4, <3>1 DEF PairSpends, m
  <2> QED  BY <2>3, <2>5
<1>4. CASE PairQuery
  <2>1. pairPc = "query" /\ atkSends' = atkSends + 1  BY <1>4 DEF PairQuery, SendRaised, Sent
  <2>2. m < MaxIterations /\ atkSends = 2 * m + 1  BY <1>1, <2>1
  <2>3. atkSends' \in Nat /\ atkSends' = 2 * (m + 1) /\ atkSends' <= 2 * MaxIterations
    BY <1>0, <1>1, <2>1, <2>2
  <2>4. ASSUME atkStage' = "run" PROVE PairSpends'
    <3>1. /\ pairPc' = "prompt" /\ ~PairDone'
          /\ \E s \in HeuristicScores : atkTurns' = Append(atkTurns,
               [number |-> m + 1, score |-> s, successful |-> s >= atkThreshold])
      BY <1>4, <2>4 DEF PairQuery, SendRaised, Finish
    <3>2. PICK s \in HeuristicScores : atkTurns' = Append(atkTurns,
               [number |-> m + 1, score |-> s, successful |-> s >= atkThreshold])
      BY <3>1
    <3> DEFINE r == [number |-> m + 1, score |-> s, successful |-> s >= atkThreshold]
    <3>3. r \in PairTurns
      <4>1. s \in Int  BY ScoresAre
      <4>2. m + 1 \in Nat /\ (s >= atkThreshold) \in BOOLEAN  BY <1>1
      <4> HIDE DEF m
      <4> QED  BY <4>1, <4>2 DEF PairTurns
    <3>4. atkTurns' = Append(atkTurns, r)  BY <3>2
    <3> HIDE DEF r, m
    <3>5. atkTurns' \in Seq(PairTurns) /\ Len(atkTurns') = m + 1  BY <1>1, <3>3, <3>4 DEF m
    <3>6. m + 1 # MaxIterations  BY <3>1, <3>5 DEF PairDone
    <3>7. m + 1 < MaxIterations  BY <1>0, <1>1, <2>2, <3>6
    <3> QED  BY <2>3, <3>1, <3>5, <3>7 DEF PairSpends
  <2> QED  BY <2>3, <2>4
<1> QED  BY <1>2, <1>3, <1>4 DEF PairNext

\* The chain sends its probes, then at most twice in each of two phases.
LEMMA ChainSpendsOnce ==
  ASSUME ChainNext, ChainSpends, atkSends \in Nat, atkSends <= ReconProbes + 4
  PROVE  /\ atkSends' \in Nat /\ atkSends' <= ReconProbes + 4
         /\ atkStage' = "run" => ChainSpends'
<1>0. ReconProbes \in Nat \ {0}  BY ChainAssumption
<1>1. CASE ChainSkip
  <2>1. atkSends' = atkSends /\ atkStage' = "end"  BY <1>1 DEF ChainSkip, Finish
  <2> QED  BY <2>1
<1>2. CASE ReconProbe
  <2>1. /\ chainPc = "recon" /\ atkSends' = atkSends + 1
        /\ chainStep' = IF chainStep + 1 = ReconProbes THEN 0 ELSE chainStep + 1
        /\ chainPc' = IF chainStep + 1 = ReconProbes THEN "social" ELSE "recon"
    BY <1>2 DEF ReconProbe, Sent
  <2>2. chainStep \in 0..(ReconProbes - 1) /\ atkSends <= chainStep  BY <2>1 DEF ChainSpends
  <2>3. CASE chainStep + 1 = ReconProbes
    <3>1. chainPc' = "social" /\ chainStep' = 0  BY <2>1, <2>3
    <3>2. atkSends' <= ReconProbes + 0 /\ 0 \in 0..1  BY <1>0, <2>1, <2>2, <2>3
    <3> QED  BY <1>0, <2>1, <3>1, <3>2 DEF ChainSpends
  <2>4. CASE chainStep + 1 # ReconProbes
    <3>1. chainPc' = "recon" /\ chainStep' = chainStep + 1  BY <2>1, <2>4
    <3>2. chainStep' \in 0..(ReconProbes - 1) /\ atkSends' <= chainStep'
      BY <1>0, <2>1, <2>2, <2>4, <3>1
    <3> QED  BY <1>0, <2>1, <2>2, <3>1, <3>2 DEF ChainSpends
  <2> QED  BY <2>3, <2>4
<1>3. CASE SocialPhase
  <2>1. /\ chainPc = "social" /\ atkSends' = atkSends + 1
        /\ \/ chainPc' = "social" /\ chainStep = 0 /\ chainStep' = 1
           \/ chainPc' = "exploit" /\ chainStep' = 0
    BY <1>3 DEF SocialPhase, PhaseMessage, PhaseEnd, Sent
  <2>2. chainStep \in 0..1 /\ atkSends <= ReconProbes + chainStep  BY <2>1 DEF ChainSpends
  <2>3. CASE chainPc' = "social" /\ chainStep = 0 /\ chainStep' = 1
    <3>1. atkSends' <= ReconProbes + chainStep' /\ chainStep' \in 0..1
      BY <1>0, <2>1, <2>2, <2>3
    <3> QED  BY <1>0, <2>1, <2>2, <2>3, <3>1 DEF ChainSpends
  <2>4. CASE chainPc' = "exploit" /\ chainStep' = 0
    <3>1. atkSends' <= ReconProbes + 2 + chainStep' /\ chainStep' \in 0..1
      BY <1>0, <2>1, <2>2, <2>4
    <3> QED  BY <1>0, <2>1, <2>2, <2>4, <3>1 DEF ChainSpends
  <2> QED  BY <2>1, <2>3, <2>4
<1>4. CASE ExploitPhase
  <2>1. /\ chainPc = "exploit" /\ atkSends' = atkSends + 1
        /\ \/ chainPc' = "exploit" /\ chainStep = 0 /\ chainStep' = 1
           \/ atkStage' = "end"
    BY <1>4 DEF ExploitPhase, PhaseMessage, PhaseEnd, Sent, Finish
  <2>2. chainStep \in 0..1 /\ atkSends <= ReconProbes + 2 + chainStep  BY <2>1 DEF ChainSpends
  <2>3. atkSends' \in Nat /\ atkSends' <= ReconProbes + 4  BY <1>0, <2>1, <2>2
  <2>4. CASE chainPc' = "exploit" /\ chainStep = 0 /\ chainStep' = 1
    <3>1. atkSends' <= ReconProbes + 2 + chainStep' /\ chainStep' \in 0..1
      BY <1>0, <2>1, <2>2, <2>4
    <3> QED  BY <2>3, <2>4, <3>1 DEF ChainSpends
  <2> QED  BY <2>1, <2>3, <2>4
<1> QED  BY <1>1, <1>2, <1>3, <1>4 DEF ChainNext

\* An attempt of Crescendo is two sends, and a turn has BacktrackLimit + 1 of them.
LEMMA CresSpendsTwo ==
  ASSUME CresNext, CresSpends, atkSends \in Nat,
         atkSends <= 2 * (CrescendoMaxTurns * (BacktrackLimit + 1))
  PROVE  /\ atkSends' \in Nat
         /\ atkSends' <= 2 * (CrescendoMaxTurns * (BacktrackLimit + 1))
         /\ atkStage' = "run" => CresSpends'
<1> DEFINE each == BacktrackLimit + 1
           before == (cresTurn - 1) * each
           all == CrescendoMaxTurns * each
           Within(x, k) == x <= 2 * (before + (cresAttempt - 1)) + k
<1>0. BacktrackLimit \in Nat /\ CrescendoMaxTurns \in Nat /\ each \in Nat
  BY CrescendoAssumption
<1>1. /\ cresPc \in {"recommend", "prompt", "query"}
      /\ cresTurn \in Nat \ {0} /\ cresAttempt \in 1..each
      /\ cresPc = "recommend" => cresAttempt = 1
      /\ cresTurn <= CrescendoMaxTurns \/ (CrescendoMaxTurns = 0 /\ cresTurn = 1 /\ cresPc = "recommend")
      /\ Within(atkSends, IF cresPc = "query" THEN 1 ELSE 0)
  BY DEF CresSpends
<1>2. /\ before \in Nat /\ all \in Nat /\ ((cresTurn + 1) - 1) * each = before + each
      /\ cresTurn <= CrescendoMaxTurns => before + each <= all
  <2>1. cresTurn - 1 \in Nat /\ (cresTurn - 1) + 1 = cresTurn /\ (cresTurn + 1) - 1 = cresTurn
    BY <1>1
  <2>2. cresTurn \in Nat  BY <1>1
  <2> DEFINE t == cresTurn - 1
  <2> HIDE DEF each, t
  <2>3. t \in Nat /\ t + 1 = cresTurn  BY <2>1 DEF t
  <2>4. t * each \in Nat /\ (t + 1) * each = t * each + each  BY <1>0, <2>3, Products
  <2>5. CrescendoMaxTurns * each \in Nat  BY <1>0, Products
  <2>6. cresTurn <= CrescendoMaxTurns => cresTurn * each <= CrescendoMaxTurns * each
    BY <1>0, <2>2, Products
  <2> QED  BY <2>1, <2>3, <2>4, <2>5, <2>6 DEF t
<1>3. CASE CresSkip
  <2>1. atkSends' = atkSends /\ atkStage' = "end"  BY <1>3 DEF CresSkip, Finish
  <2> QED  BY <2>1
<1>4. CASE CresRecommend
  <2>1. /\ cresPc = "recommend" /\ cresPc' = "prompt" /\ CrescendoMaxTurns > 0
        /\ UNCHANGED <<atkSends, cresTurn, cresAttempt>>
    BY <1>4 DEF CresRecommend, atkVars
  <2>2. cresTurn <= CrescendoMaxTurns  BY <1>1, <2>1
  <2> QED  BY <1>1, <2>1, <2>2 DEF CresSpends
<1>5. CASE CresPromptAttacker
  <2>1. /\ cresPc = "prompt" /\ atkSends' = atkSends + 1
        /\ atkStage' = "run" => cresPc' = "query"
        /\ UNCHANGED <<cresTurn, cresAttempt>>
    BY <1>5 DEF CresPromptAttacker, SendRaised, Sent, Finish
  <2>2. Within(atkSends, 0) /\ cresTurn <= CrescendoMaxTurns  BY <1>1, <2>1
  <2>3. Within(atkSends', 1)  BY <1>1, <1>2, <2>1, <2>2
  <2>4. atkSends' \in Nat /\ atkSends' <= 2 * all
    <3> HIDE DEF before, all, each
    <3> QED  BY <1>0, <1>1, <1>2, <2>1, <2>2, <2>3
  <2> QED  BY <1>1, <2>1, <2>2, <2>3, <2>4 DEF CresSpends
<1>6. CASE CresQuery
  <2>1. cresPc = "query" /\ atkSends' = atkSends + 1
    BY <1>6 DEF CresQuery, SendRaised, Sent
  <2>2. Within(atkSends, 1) /\ cresTurn <= CrescendoMaxTurns  BY <1>1, <2>1
  <2>3. atkSends' \in Nat /\ atkSends' <= 2 * (before + cresAttempt) /\ atkSends' <= 2 * (before + each)
    <3> HIDE DEF before, all, each
    <3> QED  BY <1>0, <1>1, <1>2, <2>1, <2>2
  <2>4. atkSends' <= 2 * all
    <3> HIDE DEF before, all, each
    <3> QED  BY <1>0, <1>2, <2>2, <2>3
  <2>5. ASSUME atkStage' = "run" PROVE CresSpends'
    <3>1. \/ /\ cresTurn' = cresTurn + 1 /\ cresAttempt' = 1 /\ cresPc' = "recommend"
             /\ cresTurn # CrescendoMaxTurns
          \/ /\ cresTurn' = cresTurn /\ cresAttempt' = cresAttempt + 1 /\ cresPc' = "prompt"
             /\ ~(cresAttempt > BacktrackLimit)
      BY <1>6, <2>5 DEF CresQuery, CresAccept, LastAttempt, SendRaised, Finish
    <3>2. CASE /\ cresTurn' = cresTurn + 1 /\ cresAttempt' = 1 /\ cresPc' = "recommend"
               /\ cresTurn # CrescendoMaxTurns
      <4>1. cresTurn' \in Nat \ {0} /\ cresTurn' <= CrescendoMaxTurns /\ 1 \in 1..each
        BY <1>0, <1>1, <2>2, <3>2
      <4>2. (cresTurn' - 1) * each = before + each  BY <1>2, <3>2
      <4>3. atkSends' <= 2 * ((cresTurn' - 1) * each + (cresAttempt' - 1)) + 0
        <5> HIDE DEF before, each
        <5> QED  BY <1>0, <1>2, <2>3, <3>2, <4>2
      <4> QED  BY <3>2, <4>1, <4>3 DEF CresSpends
    <3>3. CASE /\ cresTurn' = cresTurn /\ cresAttempt' = cresAttempt + 1 /\ cresPc' = "prompt"
               /\ ~(cresAttempt > BacktrackLimit)
      <4>1. cresAttempt' \in 1..each /\ cresAttempt' - 1 = cresAttempt  BY <1>0, <1>1, <3>3
      <4>2. atkSends' <= 2 * ((cresTurn' - 1) * each + (cresAttempt' - 1)) + 0
        <5>1. (cresTurn' - 1) * each = before  BY <3>3
        <5>2. (cresTurn' - 1) * each + (cresAttempt' - 1) = before + cresAttempt
          BY <4>1, <5>1
        <5>3. before + cresAttempt \in Nat  BY <1>1, <1>2
        <5> HIDE DEF before, each
        <5> DEFINE x == (cresTurn' - 1) * each + (cresAttempt' - 1)
        <5>4. x = before + cresAttempt /\ x \in Nat  BY <5>2, <5>3
        <5> HIDE DEF x
        <5>5. atkSends' <= 2 * x + 0  BY <2>3, <5>4
        <5> QED  BY <5>5 DEF x
      <4> QED  BY <1>1, <2>2, <3>3, <4>1, <4>2 DEF CresSpends
    <3> QED  BY <3>1, <3>2, <3>3
  <2> QED  BY <2>3, <2>4, <2>5
<1> QED  BY <1>3, <1>4, <1>5, <1>6 DEF CresNext

\* A simulation of MCTS is two sends for each child and for each rollout exchange.
LEMMA MctsSpendsTwo ==
  ASSUME MctsNext, MctsTree, MctsSpends, atkSends \in Nat,
         atkSends <= 2 * (MctsSimulations * (MctsStrategyCount + MctsRolloutTurns))
  PROVE  /\ atkSends' \in Nat
         /\ atkSends' <= 2 * (MctsSimulations * (MctsStrategyCount + MctsRolloutTurns))
         /\ atkStage' = "run" => MctsSpends'
<1> DEFINE each == MctsStrategyCount + MctsRolloutTurns
           now == mctsSim * each
           before == (mctsSim - 1) * each
           all == MctsSimulations * each
           done == Len(mctsKids) + mctsRolled
<1>0. /\ MctsSimulations \in Nat /\ MctsRolloutTurns \in Nat /\ MctsStrategyCount \in Nat \ {0}
      /\ each \in Nat
  BY MctsAssumption
<1>1. /\ Len(strategies) \in Nat \ {0}
      /\ mctsSim \in 0..MctsSimulations /\ mctsRolled \in 0..MctsRolloutTurns
      /\ mctsPc = "select" => atkSends <= 2 * now
      /\ mctsPc # "select" => mctsSim > 0 /\ atkSends <= 2 * (before + done)
      /\ mctsPc = "expand" => Len(mctsKids) < SampledStrategies /\ mctsRolled = 0
      /\ mctsPc = "rollout" => Len(mctsKids) <= MctsStrategyCount
  BY DEF MctsSpends
<1>2. mctsKids \in Seq(1..Len(mctsNodes)) /\ Len(mctsKids) \in Nat  BY DEF MctsTree
<1>3. SampledStrategies \in Nat \ {0} /\ SampledStrategies <= MctsStrategyCount
  <2>1. SampledStrategies = IF MctsStrategyCount <= Len(strategies) THEN MctsStrategyCount
                            ELSE Len(strategies)
    BY <1>0, <1>1, MinOfTwo DEF SampledStrategies
  <2> QED  BY <1>0, <1>1, <2>1
<1>4. /\ now \in Nat /\ all \in Nat /\ now <= all /\ ((mctsSim + 1) - 1) * each = now
      /\ mctsSim > 0 => before \in Nat /\ now = before + each
  <2>1. mctsSim \in Nat /\ mctsSim <= MctsSimulations /\ (mctsSim + 1) - 1 = mctsSim
    BY <1>0, <1>1
  <2> HIDE DEF each
  <2>2. mctsSim * each \in Nat /\ MctsSimulations * each \in Nat  BY <1>0, <2>1, Products
  <2>3. mctsSim * each <= MctsSimulations * each  BY <1>0, <2>1, Products
  <2>4. ASSUME mctsSim > 0 PROVE before \in Nat /\ now = before + each
    <3> DEFINE t == mctsSim - 1
    <3>1. t \in Nat /\ t + 1 = mctsSim  BY <2>1, <2>4
    <3> HIDE DEF t
    <3>2. t * each \in Nat /\ (t + 1) * each = t * each + each  BY <1>0, <3>1, Products
    <3> QED  BY <3>1, <3>2 DEF t
  <2> QED  BY <2>1, <2>2, <2>3, <2>4
<1>5. CASE MctsSkip \/ MctsStop
  <2>1. atkSends' = atkSends /\ atkStage' # "run"
    BY <1>5 DEF MctsSkip, MctsStop, MctsFinalize, Finish
  <2> QED  BY <2>1
<1>6. CASE MctsSelect
  <2>1. /\ mctsPc = "select" /\ mctsSim < MctsSimulations
        /\ mctsSim' = mctsSim + 1 /\ mctsKids' = <<>> /\ mctsRolled' = 0
        /\ mctsPc' \in {"select", "expand"} /\ UNCHANGED <<atkSends, strategies>>
    BY <1>6 DEF MctsSelect, atkVars
  <2>2. mctsSim' \in 0..MctsSimulations /\ mctsSim' > 0 /\ 0 \in 0..MctsRolloutTurns
        /\ Len(mctsKids') = 0
    BY <1>0, <1>1, <2>1
  <2>3. SampledStrategies' = SampledStrategies  BY <2>1 DEF SampledStrategies
  <2>4. (mctsSim' - 1) * each = now /\ mctsSim' * each = now + each
    <3> DEFINE t == mctsSim
    <3>1. t \in Nat  BY <1>0, <1>1
    <3> HIDE DEF t, each
    <3>2. (t + 1) * each = t * each + each  BY <1>0, <3>1, Products
    <3> QED  BY <1>4, <2>1, <3>2 DEF t
  <2>5. /\ atkSends' <= 2 * ((mctsSim' - 1) * each + (Len(mctsKids') + mctsRolled'))
        /\ atkSends' <= 2 * (mctsSim' * each)
    <3>1. atkSends <= 2 * now  BY <1>1, <2>1
    <3> HIDE DEF each, now
    <3>2. now + (Len(mctsKids') + mctsRolled') = now  BY <1>4, <2>1, <2>2
    <3>3. atkSends' <= 2 * now /\ atkSends' <= 2 * (now + each)  BY <1>0, <1>4, <2>1, <3>1
    <3> QED  BY <2>4, <3>2, <3>3
  <2>6. 0 < SampledStrategies'  BY <1>3, <2>3
  <2>7. MctsSpends'  BY <1>1, <2>1, <2>2, <2>5, <2>6 DEF MctsSpends
  <2> QED  BY <2>1, <2>7
<1>7. ASSUME ExchangeRaised, mctsPc # "select", done < each
      PROVE  atkSends' \in Nat /\ atkSends' <= 2 * all /\ atkStage' # "run"
  <2>1. PICK n \in 1..2 : atkSends' = atkSends + n  BY <1>7 DEF ExchangeRaised
  <2>2. atkStage' = "end"  BY <1>7 DEF ExchangeRaised, Finish
  <2>3. done \in Nat  BY <1>0, <1>1, <1>2
  <2> HIDE DEF before, now, all, each, done
  <2> QED  BY <1>0, <1>1, <1>4, <1>7, <2>1, <2>2, <2>3
<1>8. CASE MctsExpand
  <2>1. mctsPc = "expand"  BY <1>8 DEF MctsExpand
  <2>2. Len(mctsKids) < SampledStrategies /\ mctsRolled = 0 /\ mctsSim > 0 /\ done = Len(mctsKids)
    BY <1>1, <1>2, <2>1
  <2>3. done < each /\ done + 1 <= MctsStrategyCount
    BY <1>0, <1>2, <1>3, <2>2
  <2>4. CASE ExchangeRaised  BY <1>7, <2>1, <2>3, <2>4
  <2>5. CASE ~ExchangeRaised
    <3>1. /\ atkSends' = atkSends + 2 /\ mctsKids' = Append(mctsKids, Len(mctsNodes) + 1)
          /\ mctsPc' = IF Len(mctsKids') = SampledStrategies THEN "rollout" ELSE "expand"
          /\ UNCHANGED <<mctsSim, mctsRolled, strategies>>
      BY <1>8, <2>5 DEF MctsExpand, atkSettings
    <3>2. Len(mctsKids') = Len(mctsKids) + 1  BY <1>2, <3>1
    <3>3. SampledStrategies' = SampledStrategies  BY <3>1 DEF SampledStrategies
    <3>4. atkSends' \in Nat /\ atkSends' <= 2 * (before + (Len(mctsKids') + mctsRolled'))
          /\ atkSends' <= 2 * all
      <4>1. Len(mctsKids') + mctsRolled' = done + 1 /\ done \in Nat  BY <1>2, <2>2, <3>1, <3>2
      <4> HIDE DEF before, now, all, each, done
      <4>2. atkSends + 2 <= 2 * (before + (done + 1))  BY SMTT(30), <1>1, <1>4, <2>1, <2>2, <4>1
      <4>3. atkSends + 2 <= 2 * all  BY SMTT(30), <1>0, <1>1, <1>4, <2>1, <2>2, <2>3, <4>1
      <4> QED  BY <3>1, <4>1, <4>2, <4>3
    <3>5. /\ Len(mctsKids') <= MctsStrategyCount
          /\ Len(mctsKids') # SampledStrategies => Len(mctsKids') < SampledStrategies'
      BY <1>0, <1>2, <1>3, <2>2, <3>2, <3>3
    <3>6. (mctsSim' - 1) * each = before  BY <3>1
    <3>7. MctsSpends'
      <4>1. mctsPc' \in {"rollout", "expand"} /\ (mctsPc' = "expand" => Len(mctsKids') # SampledStrategies)
        BY <3>1
      <4> QED  BY <1>1, <2>2, <3>1, <3>4, <3>5, <3>6, <4>1 DEF MctsSpends
    <3> QED  BY <3>4, <3>7
  <2> QED  BY <2>4, <2>5
<1>9. CASE MctsRollout
  <2>1. mctsPc = "rollout" /\ mctsRolled # MctsRolloutTurns
    BY <1>9 DEF MctsRollout, RolloutOver
  <2>2. mctsRolled + 1 \in 0..MctsRolloutTurns /\ mctsRolled < MctsRolloutTurns  BY <1>0, <1>1, <2>1
  <2>3. done < each /\ done \in Nat  BY <1>0, <1>1, <1>2, <2>1, <2>2
  <2>4. CASE ExchangeRaised  BY <1>7, <2>1, <2>3, <2>4
  <2>5. CASE ~ExchangeRaised
    <3>1. /\ atkSends' = atkSends + 2 /\ mctsRolled' = mctsRolled + 1
          /\ UNCHANGED <<mctsPc, mctsSim, mctsKids, strategies>>
      BY <1>9, <2>5 DEF MctsRollout, atkSettings
    <3>2. atkSends' \in Nat /\ atkSends' <= 2 * (before + (Len(mctsKids') + mctsRolled'))
          /\ atkSends' <= 2 * all
      <4>1. Len(mctsKids') + mctsRolled' = done + 1  BY <1>0, <1>1, <1>2, <3>1
      <4> HIDE DEF before, now, all, each, done
      <4>2. atkSends + 2 <= 2 * (before + (done + 1))  BY SMTT(30), <1>1, <1>4, <2>1, <2>3
      <4>3. atkSends + 2 <= 2 * all  BY <1>0, <1>1, <1>4, <2>1, <2>3
      <4> QED  BY <3>1, <4>1, <4>2, <4>3
    <3>3. (mctsSim' - 1) * each = before  BY <3>1
    <3>4. MctsSpends'  BY <1>1, <2>1, <2>2, <3>1, <3>2, <3>3 DEF MctsSpends
    <3> QED  BY <3>2, <3>4
  <2> QED  BY <2>4, <2>5
<1>10. CASE MctsBackpropagate
  <2>1. /\ mctsPc = "rollout" /\ mctsPc' = "select"
        /\ UNCHANGED <<atkSends, strategies, mctsSim, mctsKids, mctsRolled>>
    BY <1>10 DEF MctsBackpropagate, atkVars
  <2>2. done <= each /\ done \in Nat  BY <1>0, <1>1, <1>2, <2>1
  <2>3. atkSends <= 2 * now
    <3> HIDE DEF before, now, each, done
    <3> QED  BY SMTT(30), <1>0, <1>1, <1>4, <2>1, <2>2
  <2>4. mctsSim' * each = now  BY <2>1
  <2>5. MctsSpends'  BY <1>1, <2>1, <2>3, <2>4 DEF MctsSpends
  <2> QED  BY <2>1, <2>5
<1> QED  BY <1>5, <1>6, <1>8, <1>9, <1>10 DEF MctsNext

\* The leaves of a depth, each branched BranchingFactor times: no more than the width.
LEMMA TapLeavesAre ==
  /\ TapLeaves[1] = 1
  /\ \A d \in 1..TreeDepth :
        /\ TapLeaves[d] \in Nat \ {0}
        /\ TapLevel[d] = BranchingFactor * TapLeaves[d] /\ TapLevel[d] \in Nat
        /\ d # 1 => TapLeaves[d] = Min({TreeWidth, TapLevel[d - 1]})
<1> DEFINE X == Nat \ {0}
           Next(x) == Min({TreeWidth, BranchingFactor * x})
           g == [x \in X \X Int |-> Next(x[1])]
           W(f) == f = [d \in 1..TreeDepth |-> IF d = 1 THEN 1 ELSE Next(f[d - 1])]
<1>0. TreeDepth \in X /\ TreeWidth \in X /\ BranchingFactor \in X  BY TapAssumption
<1>1. ASSUME NEW x \in X PROVE BranchingFactor * x \in X /\ Next(x) \in X
  <2>1. BranchingFactor \in Nat /\ x \in Nat /\ BranchingFactor - 1 \in Nat
        /\ (BranchingFactor - 1) + 1 = BranchingFactor
    BY <1>0
  <2> DEFINE b == BranchingFactor - 1
  <2>2. b \in Nat /\ b + 1 = BranchingFactor  BY <2>1
  <2> HIDE DEF b
  <2>3. b * x \in Nat /\ (b + 1) * x = b * x + x  BY <2>1, <2>2, Products
  <2>4. BranchingFactor * x \in X  BY <2>2, <2>3
  <2> DEFINE y == BranchingFactor * x
  <2>5. y \in X  BY <2>4
  <2> HIDE DEF y
  <2>6. Min({TreeWidth, y}) = IF TreeWidth <= y THEN TreeWidth ELSE y  BY <1>0, <2>5, MinOfTwo
  <2>7. Min({TreeWidth, y}) \in X  BY <1>0, <2>5, <2>6
  <2> QED  BY <2>4, <2>7 DEF y
<1>2. g \in [X \X Int -> X]
  <2> HIDE DEF X, Next
  <2> QED  BY <1>1
<1>3. Stepped(X, 1, g, 1, 1 + (TreeDepth - 1)) /\ 1 + (TreeDepth - 1) = TreeDepth
  <2>1. 1 \in Int /\ 1 \in X /\ TreeDepth - 1 \in Nat /\ 1 + (TreeDepth - 1) = TreeDepth  BY <1>0
  <2> HIDE DEF g, X
  <2>2. \A m \in Nat : Stepped(X, 1, g, 1, 1 + m)
    BY <1>2, <2>1, StepsExist, Zenon
  <2> QED  BY <2>1, <2>2
<1>4. PICK f \in [1..TreeDepth -> X] : Steps(f, 1, g, 1, TreeDepth)  BY <1>3 DEF Stepped
<1>5. W(f)
  <2> HIDE DEF g, Next
  <2>1. ASSUME NEW d \in 1..TreeDepth PROVE f[d] = IF d = 1 THEN 1 ELSE Next(f[d - 1])
    <3>1. f[d] = IF d = 1 THEN 1 ELSE g[<<f[d - 1], d>>]  BY <1>4 DEF Steps
    <3>2. ASSUME d # 1 PROVE g[<<f[d - 1], d>>] = Next(f[d - 1])
      <4>1. d - 1 \in 1..TreeDepth /\ d \in Int  BY <1>0, <3>2
      <4>2. f[d - 1] \in X  BY <4>1
      <4>3. \A x \in X : g[<<x, d>>] = Next(x)  BY <4>1 DEF g
      <4> HIDE DEF X
      <4> QED  BY <4>2, <4>3
    <3> QED  BY <3>1, <3>2
  <2>2. f = [d \in 1..TreeDepth |-> f[d]]  OBVIOUS
  <2> QED  BY <2>1, <2>2
<1> HIDE DEF Next
<1>6. TapLeaves = CHOOSE h : W(h)  BY DEF TapLeaves, Next
<1>7. W(TapLeaves)
  <2> HIDE DEF W
  <2> QED  BY <1>5, <1>6
<1>8. \A d \in 1..TreeDepth : TapLeaves[d] = IF d = 1 THEN 1 ELSE Next(TapLeaves[d - 1])
  BY <1>7
<1>9. TapLeaves[1] = 1
  <2>1. 1 \in 1..TreeDepth  BY <1>0
  <2> QED  BY <1>8, <2>1
<1> HIDE DEF W
<1> DEFINE A == {m \in Nat : m + 1 <= TreeDepth => TapLeaves[m + 1] \in X}
<1>10. \A m \in Nat : m \in A
  <2>1. 0 \in A  BY <1>9
  <2>2. ASSUME NEW m \in Nat, m \in A PROVE m + 1 \in A
    <3> SUFFICES ASSUME (m + 1) + 1 <= TreeDepth PROVE TapLeaves[(m + 1) + 1] \in X  OBVIOUS
    <3>1. (m + 1) + 1 \in 1..TreeDepth /\ (m + 1) + 1 # 1 /\ ((m + 1) + 1) - 1 = m + 1 /\ m + 1 <= TreeDepth
      BY <1>0
    <3>2. TapLeaves[m + 1] \in X  BY <2>2, <3>1
    <3>3. TapLeaves[(m + 1) + 1] = Next(TapLeaves[m + 1])  BY <1>8, <3>1
    <3> HIDE DEF X
    <3> QED  BY <1>1, <3>2, <3>3
  <2> HIDE DEF A
  <2> QED  BY <2>1, <2>2, NaturalsAreIn
<1>11. \A d \in 1..TreeDepth : TapLeaves[d] \in X
  <2> SUFFICES ASSUME NEW d \in 1..TreeDepth PROVE TapLeaves[d] \in X  OBVIOUS
  <2>1. d - 1 \in Nat /\ (d - 1) + 1 = d /\ d <= TreeDepth  BY <1>0
  <2>2. d - 1 \in A  BY <1>10, <2>1
  <2>3. (d - 1) + 1 <= TreeDepth  BY <2>1
  <2>4. TapLeaves[(d - 1) + 1] \in X  BY <2>2, <2>3
  <2> QED  BY <2>1, <2>4
<1>12. ASSUME NEW d \in 1..TreeDepth
       PROVE  TapLevel[d] = BranchingFactor * TapLeaves[d] /\ TapLevel[d] \in Nat
  <2>1. BranchingFactor * TapLeaves[d] \in X  BY <1>1, <1>11
  <2> QED  BY <2>1 DEF TapLevel
<1>13. ASSUME NEW d \in 1..TreeDepth, d # 1
       PROVE  TapLeaves[d] = Min({TreeWidth, TapLevel[d - 1]})
  <2>1. d - 1 \in 1..TreeDepth  BY <1>0, <1>13
  <2>2. TapLevel[d - 1] = BranchingFactor * TapLeaves[d - 1]  BY <1>12, <2>1
  <2>3. TapLeaves[d] = Next(TapLeaves[d - 1])  BY <1>8, <1>13
  <2> QED  BY <2>2, <2>3 DEF Next
<1> QED  BY <1>9, <1>11, <1>12, <1>13

\* The branches of the depths so far.
LEMMA TapBranchedIs ==
  /\ TapBranched(0) = 0
  /\ \A d \in 1..TreeDepth : TapBranched(d) = TapBranched(d - 1) + TapLevel[d]
  /\ \A d \in 0..TreeDepth : TapBranched(d) \in Nat /\ TapBranched(d) <= TapBranched(TreeDepth)
<1>0. TreeDepth \in Nat \ {0}  BY TapAssumption
<1>1. \A d \in 1..TreeDepth : TapLevel[d] \in Nat  BY TapLeavesAre
<1>2. TapBranched(0) = 0
  <2>1. 1..0 = {} /\ IsFiniteSet(1..0) /\ \A x \in 1..0 : TapLevel[x] \in Int
    BY FS_EmptySet
  <2>2. SumFunctionOnSet(TapLevel, 1..0) = 0  BY <2>1, SumOf
  <2> QED  BY <2>2 DEF TapBranched
<1>3. ASSUME NEW d \in 1..TreeDepth PROVE TapBranched(d) = TapBranched(d - 1) + TapLevel[d]
  <2>1. d \in Nat /\ d \in 1..d /\ (1..d) \ {d} = 1..(d - 1) /\ 1 \in Int /\ d \in Int  BY <1>0
  <2>2. IsFiniteSet(1..d)  BY <2>1, FS_Interval
  <2>3. \A x \in 1..d : TapLevel[x] \in Int
    <3>1. \A x \in 1..d : x \in 1..TreeDepth  BY <1>0
    <3> QED  BY <1>1, <3>1
  <2>4. SumFunctionOnSet(TapLevel, 1..d) = TapLevel[d] + SumFunctionOnSet(TapLevel, (1..d) \ {d})
    BY <2>1, <2>2, <2>3, SumOf
  <2>5. IsFiniteSet((1..d) \ {d})  BY <2>2, FS_RemoveElement
  <2>6. SumFunctionOnSet(TapLevel, (1..d) \ {d}) \in Int  BY <2>3, <2>5, SumOf
  <2>7. TapBranched(d) = TapLevel[d] + TapBranched(d - 1) /\ TapBranched(d - 1) \in Int
    BY <2>1, <2>4, <2>6 DEF TapBranched
  <2>8. TapLevel[d] \in Int  BY <1>1
  <2> QED  BY <2>7, <2>8
<1> DEFINE A == {m \in Nat : m <= TreeDepth => TapBranched(m) \in Nat}
<1>4. \A m \in Nat : m \in A
  <2>1. 0 \in A  BY <1>2
  <2>2. ASSUME NEW m \in Nat, m \in A PROVE m + 1 \in A
    <3> SUFFICES ASSUME m + 1 <= TreeDepth PROVE TapBranched(m + 1) \in Nat  OBVIOUS
    <3>1. m + 1 \in 1..TreeDepth /\ (m + 1) - 1 = m /\ m <= TreeDepth  BY <1>0
    <3>2. TapBranched(m) \in Nat  BY <2>2, <3>1
    <3>3. TapBranched(m + 1) = TapBranched(m) + TapLevel[m + 1] /\ TapLevel[m + 1] \in Nat
      BY <1>1, <1>3, <3>1
    <3> QED  BY <3>2, <3>3
  <2> HIDE DEF A
  <2> QED  BY <2>1, <2>2, NaturalsAreIn
<1>5. \A d \in 0..TreeDepth : TapBranched(d) \in Nat
  <2> SUFFICES ASSUME NEW d \in 0..TreeDepth PROVE TapBranched(d) \in Nat  OBVIOUS
  <2>1. d \in Nat /\ d <= TreeDepth  BY <1>0
  <2> QED  BY <1>4, <2>1
<1> DEFINE B == {m \in Nat : m <= TreeDepth => TapBranched(TreeDepth - m) <= TapBranched(TreeDepth)}
<1>6. \A m \in Nat : m \in B
  <2>1. 0 \in B
    <3>1. TreeDepth - 0 = TreeDepth /\ TreeDepth \in 0..TreeDepth  BY <1>0
    <3>2. TapBranched(TreeDepth) \in Nat  BY <1>5, <3>1
    <3>3. TapBranched(TreeDepth) <= TapBranched(TreeDepth)  BY <3>2
    <3>4. TapBranched(TreeDepth - 0) <= TapBranched(TreeDepth)  BY <3>1, <3>3
    <3> QED  BY <3>4
  <2>2. ASSUME NEW m \in Nat, m \in B PROVE m + 1 \in B
    <3> SUFFICES ASSUME m + 1 <= TreeDepth
                 PROVE  TapBranched(TreeDepth - (m + 1)) <= TapBranched(TreeDepth)
      OBVIOUS
    <3> DEFINE d == TreeDepth - m
    <3>1. /\ d \in 1..TreeDepth /\ TreeDepth - (m + 1) = d - 1 /\ m <= TreeDepth
          /\ d \in 0..TreeDepth /\ d - 1 \in 0..TreeDepth /\ TreeDepth \in 0..TreeDepth
      BY <1>0
    <3>2. TapBranched(d) <= TapBranched(TreeDepth)  BY <2>2, <3>1
    <3> HIDE DEF d
    <3>3. TapBranched(d) = TapBranched(d - 1) + TapLevel[d] /\ TapLevel[d] \in Nat
      BY <1>1, <1>3, <3>1
    <3>4. /\ TapBranched(d) \in Nat /\ TapBranched(d - 1) \in Nat
          /\ TapBranched(TreeDepth) \in Nat
      BY <1>5, <3>1
    <3>5. TapBranched(d - 1) <= TapBranched(TreeDepth)  BY <3>2, <3>3, <3>4
    <3> QED  BY <3>1, <3>5
  <2> HIDE DEF B
  <2> QED  BY <2>1, <2>2, NaturalsAreIn
<1>7. \A d \in 0..TreeDepth : TapBranched(d) <= TapBranched(TreeDepth)
  <2> SUFFICES ASSUME NEW d \in 0..TreeDepth PROVE TapBranched(d) <= TapBranched(TreeDepth)
    OBVIOUS
  <2>1. TreeDepth - d \in Nat /\ TreeDepth - d <= TreeDepth /\ TreeDepth - (TreeDepth - d) = d
    BY <1>0
  <2>2. TreeDepth - d \in B  BY <1>6, <2>1
  <2>3. TapBranched(TreeDepth - (TreeDepth - d)) <= TapBranched(TreeDepth)  BY <2>1, <2>2
  <2> QED  BY <2>1, <2>3
<1> QED  BY <1>2, <1>3, <1>5, <1>7

\* What is listed once is not longer than a list of it.
LEMMA ListedLength ==
  ASSUME NEW Y, NEW l \in Seq(Y), NEW q, Listed(q, Range(l))
  PROVE  Len(q) \in Nat /\ Len(q) <= Len(l)
<1>1. /\ Len(l) \in Nat /\ DOMAIN l = 1..Len(l) /\ l \in [1..Len(l) -> Range(l)]
      /\ \A t \in Range(l) : \E k \in 1..Len(l) : l[k] = t
  BY DEF Range
<1>2. ExistsSurjection(1..Len(l), Range(l))
  BY <1>1, Zenon DEF ExistsSurjection, Surjection
<1>3. Cardinality(Range(l)) <= Len(l)  BY <1>1, <1>2, FS_SurjCardinalityBound
<1> QED  BY <1>3 DEF Listed

\* The leaves of the next depth are the best of this one's.
LEMMA TapKept ==
  ASSUME TapRuns, tapPc = "query", atkThreshold \in Int, NEW s \in HeuristicScores,
         TapEndsDepth(Head(tapQueue), s)
  PROVE  \E c \in Nat : c <= Len(tapLeaves) /\ Len(tapLeaves') = Min({TreeWidth, c})
<1> DEFINE g == Scored(tapNodes, Head(tapQueue), s)
           keep == TapKeepBest(g, tapLeaves)
<1>1. tapLeaves' = keep.kept  BY Zenon DEF TapEndsDepth
<1>2. TapTree(g) /\ Len(g) = Len(tapNodes)  BY TapHead
<1>3. tapLeaves \in Seq(1..Len(tapNodes)) /\ tapLeaves # <<>>  BY DEF TapRuns, TapBranches
<1> HIDE DEF g
<1>4. tapLeaves \in Seq(1..Len(g))  BY <1>2, <1>3
<1> HIDE DEF keep
<1>5. keep = TapKeepBest(g, tapLeaves)  BY DEF keep
<1>6. \E q : /\ Listed(q, Range(tapLeaves)) /\ Len(q) \in Nat \ {0}
             /\ Len(keep.kept) = Min({TreeWidth, Len(q)})
  BY <1>2, <1>3, <1>4, <1>5, BestAreKept
<1>7. PICK q : /\ Listed(q, Range(tapLeaves)) /\ Len(q) \in Nat \ {0}
               /\ Len(keep.kept) = Min({TreeWidth, Len(q)})
  BY <1>6
<1>8. Len(q) \in Nat /\ Len(q) <= Len(tapLeaves)  BY <1>3, <1>7, ListedLength
<1> QED  BY <1>1, <1>7, <1>8

\* A branch of TAP is a send of the attacker's, and one of the target's if it is on topic.
LEMMA TapSpendsTwo ==
  ASSUME TapNext, atkStage = "run", atkThreshold \in Int,
         atkDry => tapPc = "branch", ~atkDry => TapRuns, TapSpends,
         atkSends \in Nat, atkSends <= 2 * TapBranched(TreeDepth), UNCHANGED atkDry
  PROVE  /\ atkSends' \in Nat /\ atkSends' <= 2 * TapBranched(TreeDepth)
         /\ atkStage' = "run" => TapSpends'
<1> DEFINE all == TapBranched(TreeDepth)
           before == TapBranched(tapDepth - 1)
           level == TapLevel[tapDepth]
           now == TapBranched(tapDepth)
<1>0. TreeDepth \in Nat \ {0} /\ TreeWidth \in Nat \ {0} /\ BranchingFactor \in Nat \ {0}
  BY TapAssumption
<1>1. ASSUME ~atkDry
      PROVE  /\ tapDepth \in 1..TreeDepth /\ level \in Nat /\ all \in Nat
             /\ before \in Nat /\ now \in Nat /\ now = before + level /\ now <= all
             /\ Len(tapLeaves) \in Nat /\ Len(tapNew) \in Nat
  <2>1. tapDepth \in 1..TreeDepth /\ Len(tapLeaves) \in Nat /\ Len(tapNew) \in Nat
    BY <1>1 DEF TapRuns, TapBranches
  <2>2. tapDepth \in 0..TreeDepth /\ tapDepth - 1 \in 0..TreeDepth /\ TreeDepth \in 0..TreeDepth
    BY <1>0, <2>1
  <2>3. level \in Nat  BY <2>1, TapLeavesAre
  <2>4. /\ all \in Nat /\ before \in Nat /\ now \in Nat /\ now = before + level /\ now <= all
    BY <2>1, <2>2, TapBranchedIs
  <2> QED  BY <2>1, <2>3, <2>4
<1>2. CASE TapDryRun
  <2>1. atkDry /\ atkSends' = atkSends  BY <1>2 DEF TapDryRun
  <2>2. atkSends = 0  BY <2>1 DEF TapSpends
  <2>3. TapSpends'  BY <2>1, <2>2 DEF TapSpends
  <2> QED  BY <2>1, <2>3
<1>3. CASE TapBranch
  <2>1. /\ ~atkDry /\ tapPc = "branch" /\ atkSends' = atkSends + 1
        /\ UNCHANGED <<tapDepth, tapNodes, tapLeaves, tapQueue>>
    BY <1>3 DEF TapBranch, SendRaised, Sent
  <2>2. /\ Len(tapLeaves) <= TapLeaves[tapDepth] /\ atkSends <= 2 * before + Len(tapNew)
    BY <2>1 DEF TapSpends
  <2>3. Len(tapNew) < Len(tapLeaves) * BranchingFactor  BY <2>1 DEF TapRuns, TapBranches
  <2>4. Len(tapLeaves) * BranchingFactor \in Nat /\ Len(tapLeaves) * BranchingFactor <= level
    <3> DEFINE a == Len(tapLeaves)
               b == TapLeaves[tapDepth]
    <3>1. a \in Nat /\ b \in Nat /\ a <= b /\ BranchingFactor \in Nat /\ level = BranchingFactor * b
      BY <1>0, <1>1, <2>1, <2>2, TapLeavesAre
    <3> HIDE DEF a, b, level
    <3>2. a * BranchingFactor \in Nat /\ a * BranchingFactor <= b * BranchingFactor
      BY <3>1, Products
    <3>3. b * BranchingFactor = BranchingFactor * b  BY <3>1
    <3> QED  BY <3>1, <3>2, <3>3 DEF a
  <2>5. /\ atkSends' \in Nat /\ atkSends' <= 2 * all
    <3> DEFINE c == Len(tapLeaves) * BranchingFactor
               m == Len(tapNew)
    <3>1. c \in Nat /\ c <= level /\ m < c /\ m \in Nat  BY <1>1, <2>1, <2>3, <2>4
    <3>2. atkSends <= 2 * before + m  BY <2>2
    <3> HIDE DEF c, m, before, all, level, now
    <3> QED  BY SMTT(30), <1>1, <2>1, <3>1, <3>2
  <2>6. ASSUME atkStage' = "run" PROVE TapSpends'
    <3>1. PICK off \in BOOLEAN :
             tapNew' = Append(tapNew, TapNode(tapLeaves[(Len(tapNew) \div BranchingFactor) + 1], tapDepth, off))
      BY <1>3, <2>6 DEF TapBranch, SendRaised, Finish
    <3>2. /\ tapPc' = IF Len(tapNew') = Len(tapLeaves) * BranchingFactor THEN "prune" ELSE "branch"
          /\ UNCHANGED <<atkTurns, atkThreshold>>
      BY <1>3, <2>6 DEF TapBranch, SendRaised, Finish, atkSettings
    <3>3. Len(tapNew') = Len(tapNew) + 1  BY <2>1, <3>1, <3>2, TapGrows
    <3>4. Len(tapNew') <= level
      <4> DEFINE c == Len(tapLeaves) * BranchingFactor
                 m == Len(tapNew)
      <4>1. c \in Nat /\ c <= level /\ m < c /\ m \in Nat /\ level \in Nat
        BY <1>1, <2>1, <2>3, <2>4
      <4> HIDE DEF c, m, level
      <4>2. m + 1 <= level  BY <4>1
      <4> QED  BY <3>3, <4>2 DEF m
    <3>5. atkSends' <= 2 * before + Len(tapNew') /\ atkSends' <= 2 * before + level
      <4> DEFINE m == Len(tapNew)
                 k == Len(tapNew')
      <4>1. m \in Nat /\ k = m + 1 /\ k <= level  BY <1>1, <2>1, <3>3, <3>4
      <4>2. atkSends <= 2 * before + m  BY <2>2
      <4> HIDE DEF m, k, before, level
      <4>3. atkSends' <= 2 * before + k /\ atkSends' <= 2 * before + level
        BY SMTT(30), <1>1, <2>1, <4>1, <4>2
      <4> QED  BY <4>3 DEF k
    <3>6. TapBranched(tapDepth' - 1) = before /\ TapLevel[tapDepth'] = level
          /\ TapLeaves[tapDepth'] = TapLeaves[tapDepth]
      BY <2>1
    <3>7. tapPc' \in {"prune", "branch"}  BY <3>2
    <3> HIDE DEF before, level
    <3> QED  BY <2>1, <2>2, <3>4, <3>5, <3>6, <3>7 DEF TapSpends
  <2> QED  BY <2>5, <2>6
<1>4. CASE TapPruneOffTopic
  <2>1. ~atkDry /\ tapPc = "prune" /\ UNCHANGED <<atkSends, tapDepth>>
    BY <1>4 DEF TapPruneOffTopic
  <2>2. Len(tapNew) <= level /\ atkSends <= 2 * before + level  BY <2>1 DEF TapSpends
  <2>3. Len(tapQueue') \in Nat /\ Len(tapQueue') <= Len(tapNew)
    BY <1>4, <2>1, TapPrunes
  <2>4. ASSUME atkStage' = "run" PROVE TapSpends'
    <3>1. tapPc' = "query" /\ tapLeaves' = tapQueue'
      <4>1. TapFinalize(0) => atkStage' # "run"  BY DEF TapFinalize, Finish
      <4> QED  BY <1>4, <2>4, <4>1 DEF TapPruneOffTopic
    <3>2. Len(tapLeaves') <= level /\ atkSends' + Len(tapQueue') <= 2 * now
      <4> DEFINE m == Len(tapNew)
                 k == Len(tapQueue')
      <4>1. m \in Nat /\ m <= level /\ k \in Nat /\ k <= m  BY <1>1, <2>1, <2>2, <2>3
      <4> HIDE DEF m, k, before, level, now, all
      <4>2. k <= level /\ atkSends + k <= 2 * now  BY SMTT(30), <1>1, <2>1, <2>2, <4>1
      <4> QED  BY <2>1, <3>1, <4>2 DEF k
    <3>3. TapBranched(tapDepth') = now /\ TapLevel[tapDepth'] = level  BY <2>1
    <3> HIDE DEF now, level
    <3> QED  BY <2>1, <3>1, <3>2, <3>3 DEF TapSpends
  <2> QED  BY <2>1, <2>4
<1>5. CASE TapQuery
  <2>1. ~atkDry /\ tapPc = "query"
    <3>1. tapPc = "query"  BY <1>5 DEF TapQuery
    <3> QED  BY <3>1
  <2>2. Len(tapLeaves) <= level /\ atkSends + Len(tapQueue) <= 2 * now
    BY <2>1 DEF TapSpends
  <2>3. Len(tapQueue) \in Nat \ {0} /\ TapRuns /\ tapNew = <<>>
        /\ tapQueue \in Seq(Range(tapLeaves)) /\ tapQueue # <<>>
    BY <2>1 DEF TapRuns, TapQueries
  <2>4. atkSends' = atkSends + 1  BY <1>5 DEF TapQuery, SendRaised, Sent
  <2>5. /\ atkSends' \in Nat /\ atkSends' <= 2 * all /\ atkSends' <= 2 * now
        /\ (atkSends' + (Len(tapQueue) - 1)) <= 2 * now
    <3> DEFINE k == Len(tapQueue)
    <3>1. k \in Nat \ {0} /\ atkSends + k <= 2 * now  BY <2>2, <2>3
    <3> HIDE DEF k, before, level, now, all
    <3>2. /\ atkSends' \in Nat /\ atkSends' <= 2 * all /\ atkSends' <= 2 * now
          /\ (atkSends' + (k - 1)) <= 2 * now
      BY <1>1, <2>1, <2>4, <3>1
    <3> QED  BY <3>2 DEF k
  <2>6. ASSUME NEW s \in HeuristicScores, TapGoesOn(Head(tapQueue), s) PROVE TapSpends'
    <3>1. tapPc' = "query" /\ UNCHANGED <<tapDepth, tapLeaves>> /\ tapQueue' = Tail(tapQueue)
      BY <2>1, <2>6 DEF TapGoesOn
    <3>2. Len(tapQueue') = Len(tapQueue) - 1  BY <2>3, <3>1
    <3>3. TapBranched(tapDepth') = now /\ TapLevel[tapDepth'] = level  BY <3>1
    <3> HIDE DEF now, level
    <3> QED  BY <2>1, <2>2, <2>5, <3>1, <3>2, <3>3 DEF TapSpends
  <2>7. ASSUME UNCHANGED tapNew, NEW s \in HeuristicScores, TapEndsDepth(Head(tapQueue), s),
               atkStage' = "run"
        PROVE  TapSpends'
    <3>1. TapFinalize(0) => atkStage' # "run"  BY DEF TapFinalize, Finish
    <3>2. tapDepth # TreeDepth /\ tapDepth' = tapDepth + 1 /\ tapPc' = "branch"
      BY <2>7, <3>1, Zenon DEF TapEndsDepth
    <3>3. PICK c \in Nat : c <= Len(tapLeaves) /\ Len(tapLeaves') = Min({TreeWidth, c})
      BY <2>1, <2>3, <2>7, TapKept
    <3>4. tapDepth' \in 1..TreeDepth /\ tapDepth' # 1 /\ tapDepth' - 1 = tapDepth
      <4>1. tapDepth \in 1..TreeDepth  BY <1>1, <2>1
      <4>2. tapDepth # TreeDepth /\ tapDepth' = tapDepth + 1  BY <3>2
      <4> QED  BY <1>0, <4>1, <4>2
    <3>5. TapLeaves[tapDepth'] = Min({TreeWidth, level})  BY <3>4, TapLeavesAre
    <3>6. Len(tapLeaves') <= TapLeaves[tapDepth']
      <4> DEFINE l == Len(tapLeaves)
      <4>1. l \in Nat /\ c <= l /\ l <= level /\ level \in Nat  BY <1>1, <2>1, <2>2, <3>3
      <4> HIDE DEF l, level
      <4>2. Min({TreeWidth, c}) = IF TreeWidth <= c THEN TreeWidth ELSE c  BY <1>0, MinOfTwo
      <4>3. Min({TreeWidth, level}) = IF TreeWidth <= level THEN TreeWidth ELSE level
        BY <1>0, <4>1, MinOfTwo
      <4>4. Min({TreeWidth, c}) <= Min({TreeWidth, level})  BY <1>0, <4>1, <4>2, <4>3
      <4> QED  BY <3>3, <3>5, <4>4
    <3>7. Len(tapNew') = 0  BY <2>3, <2>7
    <3>8. atkSends' <= 2 * TapBranched(tapDepth' - 1) + Len(tapNew')
      <4>1. TapBranched(tapDepth' - 1) = now  BY <3>4
      <4> HIDE DEF now
      <4>2. atkSends' <= 2 * now + 0  BY <1>1, <2>1, <2>5
      <4> QED  BY <3>7, <4>1, <4>2
    <3> QED  BY <2>1, <3>2, <3>6, <3>8 DEF TapSpends
  <2>8. ASSUME NEW s \in HeuristicScores, TapReaches(Head(tapQueue), s) PROVE atkStage' # "run"
    <3>1. TapFinalize(Head(tapQueue)) => atkStage' # "run"  BY DEF TapFinalize, Finish
    <3> QED  BY <2>8, <3>1 DEF TapReaches
  <2>9. CASE SendRaised /\ UNCHANGED tapVars
    <3>1. atkStage' # "run"  BY <2>9 DEF SendRaised, Finish
    <3> QED  BY <2>5, <3>1
  <2>10. CASE ~(SendRaised /\ UNCHANGED tapVars)
    <3>1. /\ UNCHANGED tapNew
          /\ \E s \in HeuristicScores : \/ TapReaches(Head(tapQueue), s)
                                        \/ TapGoesOn(Head(tapQueue), s)
                                        \/ TapEndsDepth(Head(tapQueue), s)
      BY <1>5, <2>10, TapOutcomes
    <3>2. atkStage' = "run" => TapSpends'  BY <2>6, <2>7, <2>8, <3>1
    <3> QED  BY <2>5, <3>2
  <2> QED  BY <2>9, <2>10
<1> QED  BY <1>2, <1>3, <1>4, <1>5 DEF TapNext

LEMMA QueriesStart == AttackInit => QueriesInv
<1> SUFFICES ASSUME AttackInit PROVE QueriesInv  OBVIOUS
<1>1. /\ algorithm \in Registered /\ atkSends = 0 /\ atkTurns = <<>>
      /\ strategies \in {DeriveStrategies(p, c) : p \in Personas, c \in BOOLEAN}
      /\ pairPc = "prompt" /\ cresPc = "recommend" /\ cresTurn = 1 /\ cresAttempt = 1
      /\ tapPc = "branch" /\ tapDepth = 1 /\ tapNew = <<>> /\ tapLeaves = <<1>>
      /\ mctsPc = "select" /\ mctsSim = 0 /\ mctsKids = <<>> /\ mctsRolled = 0
      /\ chainPc = "recon" /\ chainStep = 0
  BY DEF AttackInit, AtkInit, PairInit, TapInit, CresInit, MctsInit, ChainInit
<1>2. 0 <= MaxQueries
  <2>1. algorithm = "pair" => 0 <= MaxQueries  BY PairAssumption DEF MaxQueries
  <2>2. algorithm = "tap" => 0 <= MaxQueries
    <3>1. TreeDepth \in 0..TreeDepth  BY TapAssumption
    <3>2. TapBranched(TreeDepth) \in Nat  BY <3>1, TapBranchedIs
    <3>3. algorithm = "tap" => MaxQueries = 2 * TapBranched(TreeDepth)
      BY DEF MaxQueries, TapBranched
    <3> QED  BY <3>2, <3>3
  <2>3. algorithm = "crescendo" => 0 <= MaxQueries
    <3>1. CrescendoMaxTurns \in Nat /\ BacktrackLimit + 1 \in Nat  BY CrescendoAssumption
    <3>2. CrescendoMaxTurns * (BacktrackLimit + 1) \in Nat  BY <3>1, Products
    <3> QED  BY <3>2 DEF MaxQueries
  <2>4. algorithm = "mcts" => 0 <= MaxQueries
    <3>1. MctsSimulations \in Nat /\ MctsStrategyCount + MctsRolloutTurns \in Nat  BY MctsAssumption
    <3>2. MctsSimulations * (MctsStrategyCount + MctsRolloutTurns) \in Nat  BY <3>1, Products
    <3> QED  BY <3>2 DEF MaxQueries
  <2>5. algorithm = "agent_chain" => 0 <= MaxQueries  BY ChainAssumption DEF MaxQueries
  <2> QED  BY <1>1, <2>1, <2>2, <2>3, <2>4, <2>5 DEF Registered
<1>3. PairSpends
  <2>1. atkTurns \in Seq(PairTurns) /\ Len(atkTurns) = 0  BY <1>1
  <2>2. 0 < MaxIterations \/ MaxIterations = 0  BY PairAssumption
  <2> QED  BY <1>1, <2>1, <2>2 DEF PairSpends
<1>4. TapSpends
  <2>1. Len(tapLeaves) = 1 /\ Len(tapNew) = 0 /\ tapDepth - 1 = 0  BY <1>1
  <2>2. TapLeaves[1] = 1 /\ TapBranched(0) = 0  BY TapLeavesAre, TapBranchedIs
  <2> QED  BY <1>1, <2>1, <2>2 DEF TapSpends
<1>5. CresSpends
  <2> DEFINE each == BacktrackLimit + 1
  <2>1. each \in Nat \ {0} /\ CrescendoMaxTurns \in Nat  BY CrescendoAssumption
  <2>2. (cresTurn - 1) * each = 0 /\ cresAttempt - 1 = 0
    <3>1. cresTurn - 1 = 0  BY <1>1
    <3> HIDE DEF each
    <3>2. 0 * each = 0  BY <2>1
    <3> QED  BY <1>1, <3>1, <3>2
  <2>3. 1 <= CrescendoMaxTurns \/ CrescendoMaxTurns = 0  BY <2>1
  <2>4. cresAttempt \in 1..each  BY <1>1, <2>1
  <2>5. atkSends <= 2 * ((cresTurn - 1) * each + (cresAttempt - 1)) + 0  BY <1>1, <2>2
  <2> QED  BY <1>1, <2>3, <2>4, <2>5 DEF CresSpends
<1>6. MctsSpends
  <2> DEFINE each == MctsStrategyCount + MctsRolloutTurns
  <2>1. Len(strategies) \in Nat \ {0}  BY <1>1, PlansSomething
  <2>2. mctsSim \in 0..MctsSimulations /\ mctsRolled \in 0..MctsRolloutTurns /\ each \in Nat
    BY <1>1, MctsAssumption
  <2>3. mctsSim * each = 0
    <3> HIDE DEF each
    <3>1. 0 * each = 0  BY <2>2
    <3> QED  BY <1>1, <3>1
  <2>4. atkSends <= 2 * (mctsSim * each)  BY <1>1, <2>3
  <2> QED  BY <1>1, <2>1, <2>2, <2>4 DEF MctsSpends
<1>7. ChainSpends  BY <1>1, ChainAssumption DEF ChainSpends
<1>8. QueriesAreBounded  BY <1>1, <1>2 DEF QueriesAreBounded
<1> QED  BY <1>1, <1>3, <1>4, <1>5, <1>6, <1>7, <1>8 DEF QueriesInv

LEMMA QueriesStay ==
  QueriesInv /\ TapInv /\ MctsInv /\ [AttackNext]_attackVars => QueriesInv'
<1> SUFFICES ASSUME QueriesInv, TapInv, MctsInv, [AttackNext]_attackVars PROVE QueriesInv'
  OBVIOUS
<1>1. algorithm' = algorithm /\ atkDry' = atkDry /\ strategies' = strategies
  BY AlgorithmStays DEF atkSettings
<1>2. MaxQueries' = MaxQueries  BY <1>1 DEF MaxQueries, TapLevel, TapLeaves
<1>3. atkSends \in Nat /\ atkSends <= MaxQueries  BY DEF QueriesInv, QueriesAreBounded
<1>4. CASE UNCHANGED attackVars
  <2>1. UNCHANGED <<atkVars, pairVars, tapVars, cresVars, mctsVars, chainVars>>
    BY <1>4 DEF attackVars
  <2>2. UNCHANGED <<atkStage, atkSends, atkTurns>>  BY <2>1 DEF atkVars
  <2>3. PairSpends' = PairSpends  BY <2>1, <2>2 DEF PairSpends, pairVars
  <2>4. TapSpends' = TapSpends
    BY <1>1, <2>1, <2>2 DEF TapSpends, tapVars, TapBranched, TapLevel, TapLeaves
  <2>5. CresSpends' = CresSpends  BY <2>1, <2>2 DEF CresSpends, cresVars
  <2>6. MctsSpends' = MctsSpends  BY <1>1, <2>1, <2>2 DEF MctsSpends, mctsVars, SampledStrategies
  <2>7. ChainSpends' = ChainSpends  BY <2>1, <2>2 DEF ChainSpends, chainVars
  <2> QED  BY <1>1, <1>2, <2>2, <2>3, <2>4, <2>5, <2>6, <2>7 DEF QueriesInv, QueriesAreBounded
<1>5. CASE Judge
  <2>1. atkSends' = atkSends /\ atkStage' = "end"  BY <1>5 DEF Judge, JudgeTrace, Finish
  <2> QED  BY <1>2, <1>3, <2>1 DEF QueriesInv, QueriesAreBounded
<1>6. ASSUME atkSends' \in Nat, atkSends' <= MaxQueries,
             atkStage' = "run" =>
               /\ algorithm = "pair" => PairSpends'
               /\ algorithm = "tap" => TapSpends'
               /\ algorithm = "crescendo" => CresSpends'
               /\ algorithm = "mcts" => MctsSpends'
               /\ algorithm = "agent_chain" => ChainSpends'
      PROVE  QueriesInv'
  BY <1>1, <1>2, <1>6 DEF QueriesInv, QueriesAreBounded
<1>7. CASE algorithm = "pair" /\ PairNext
  <2>1. MaxQueries = 2 * MaxIterations  BY <1>7 DEF MaxQueries
  <2>2. atkStage = "run"  BY <1>7 DEF PairNext, PairSkip, PairPrompt, PairQuery, Running
  <2>3. PairSpends  BY <1>7, <2>2 DEF QueriesInv
  <2>4. atkSends' \in Nat /\ atkSends' <= MaxQueries /\ (atkStage' = "run" => PairSpends')
    BY <1>3, <1>7, <2>1, <2>3, PairSpendsTwo
  <2> QED  BY <1>6, <1>7, <2>4
<1>8. CASE algorithm = "tap" /\ TapNext
  <2>1. MaxQueries = 2 * TapBranched(TreeDepth)  BY <1>8 DEF MaxQueries, TapBranched
  <2>2. atkStage = "run"
    BY <1>8 DEF TapNext, TapDryRun, TapBranch, TapPruneOffTopic, TapQuery, Running
  <2>3. TapSpends  BY <1>8, <2>2 DEF QueriesInv
  <2>4. atkThreshold \in Int /\ (atkDry => tapPc = "branch") /\ (~atkDry => TapRuns)
    BY <1>8, <2>2 DEF TapInv
  <2>5. atkSends' \in Nat /\ atkSends' <= MaxQueries /\ (atkStage' = "run" => TapSpends')
    BY <1>1, <1>3, <1>8, <2>1, <2>2, <2>3, <2>4, TapSpendsTwo
  <2> QED  BY <1>6, <1>8, <2>5
<1>9. CASE algorithm = "crescendo" /\ CresNext
  <2>1. MaxQueries = 2 * (CrescendoMaxTurns * (BacktrackLimit + 1))  BY <1>9 DEF MaxQueries
  <2>2. atkStage = "run"
    BY <1>9 DEF CresNext, CresSkip, CresRecommend, CresPromptAttacker, CresQuery, Running
  <2>3. CresSpends  BY <1>9, <2>2 DEF QueriesInv
  <2>4. atkSends' \in Nat /\ atkSends' <= MaxQueries /\ (atkStage' = "run" => CresSpends')
    BY <1>3, <1>9, <2>1, <2>3, CresSpendsTwo
  <2> QED  BY <1>6, <1>9, <2>4
<1>10. CASE algorithm = "mcts" /\ MctsNext
  <2>1. MaxQueries = 2 * (MctsSimulations * (MctsStrategyCount + MctsRolloutTurns))
    BY <1>10 DEF MaxQueries
  <2>2. atkStage = "run"
    BY <1>10 DEF MctsNext, MctsSkip, MctsStop, MctsSelect, MctsExpand, MctsRollout,
                 MctsBackpropagate, Running
  <2>3. MctsSpends  BY <1>10, <2>2 DEF QueriesInv
  <2>4. MctsTree  BY <1>10 DEF MctsInv
  <2>5. atkSends' \in Nat /\ atkSends' <= MaxQueries /\ (atkStage' = "run" => MctsSpends')
    BY <1>3, <1>10, <2>1, <2>3, <2>4, MctsSpendsTwo
  <2> QED  BY <1>6, <1>10, <2>5
<1>11. CASE algorithm = "agent_chain" /\ ChainNext
  <2>1. MaxQueries = ReconProbes + 4  BY <1>11 DEF MaxQueries
  <2>2. atkStage = "run"
    BY <1>11 DEF ChainNext, ChainSkip, ReconProbe, SocialPhase, ExploitPhase, Running
  <2>3. ChainSpends  BY <1>11, <2>2 DEF QueriesInv
  <2>4. atkSends' \in Nat /\ atkSends' <= MaxQueries /\ (atkStage' = "run" => ChainSpends')
    BY <1>3, <1>11, <2>1, <2>3, ChainSpendsOnce
  <2> QED  BY <1>6, <1>11, <2>4
<1> QED  BY <1>4, <1>5, <1>7, <1>8, <1>9, <1>10, <1>11, OwnSteps

\* Whatever fails and however the settings are chosen, a run sends no more than they
\* allow (the run loops of core/pair.py, tap.py, crescendo.py, mcts.py and of
\* orchestration/agents).
THEOREM SpendingIsBounded == AttackSpec => []QueriesAreBounded
<1>1. QueriesInv => QueriesAreBounded  BY DEF QueriesInv
<1> QED  BY QueriesStart, QueriesStay, TapStarts, TapStays, MctsStarts, MctsStays, <1>1, PTL
     DEF AttackSpec

=============================================================================
