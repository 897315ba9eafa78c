------------------------- MODULE ResearchBatchProofs -------------------------
(***************************************************************************)
(* The ledger and the evidence of the research cycle, for any objectives,  *)
(* any number of cycles, baselines of the operator, crashes and failures:  *)
(* a campaign is counted once, in a row about its whole batch, and its     *)
(* trace is evidence of the proposal whose cycle counted it.               *)
(* The invariant says where the campaigns of an unfinished batch are: in   *)
(* its checkpoint and in the hands of the cycle, nowhere else.             *)
(***************************************************************************)
EXTENDS ResearchBatch, SequenceTheorems, FiniteSetTheorems, FunctionTheorems, TLAPS

\* The campaigns in the checkpoint of a batch, and those in the cycle's hands.
Saved(b) == IF checkpoints[b] = None THEN {} ELSE ToSet(checkpoints[b].campaigns)
Working == cycle.pc \in {"run", "save", "append"}
Held == IF Working THEN ToSet(cycle.done) ELSE {}
\* The campaign that has just returned and is not yet saved.
Fresh == IF cycle.pc = "save" THEN {Len(made)} ELSE {}
Old == (1..Len(made)) \ Fresh

Todos == {<<>>, <<"control">>, <<"regression", "control">>, Lanes, <<"baseline">> \o Lanes,
          <<"phase1">>}

\* Sequences are sequences, the batches to do are a tail of the list.
ShapeInv ==
  /\ made \in Seq(ToSet(made))
  /\ ledger \in Seq(ToSet(ledger))
  /\ proposals \in Seq(ToSet(proposals))
  /\ \A i \in DOMAIN ledger : ledger[i].campaigns \in Seq(1..Len(made))
  /\ DOMAIN checkpoints = Batches
  /\ \A b \in Batches : checkpoints[b] # None => checkpoints[b].campaigns \in Seq(1..Len(made))
  /\ DOMAIN cycle = {"pc", "before", "lanes", "todo", "done", "limit", "summaries"}
  /\ Working => cycle.done \in Seq(1..Len(made))
  /\ cycle.todo \in Todos
  /\ cycle.pc \in {"load", "run", "save", "append"} => cycle.todo # <<>>
  /\ cycle.pc = "calibrate" => cycle.todo = <<"baseline">> \o Lanes
  /\ cycle.pc = "decide" => cycle.todo = <<>>
  /\ cycle.pc = "save" => Len(made) > 0

\* A campaign is in one place: a row, a checkpoint, or the hands of a cycle
\* whose checkpoint it may be in as well.
PlaceInv ==
  /\ CountedOnce
  /\ Counted \subseteq Old
  /\ \A b \in Batches : /\ checkpoints[b] # None => IsInjective(checkpoints[b].campaigns)
                        /\ Saved(b) \subseteq Old \ Counted
                        /\ \A c \in Batches \ {b} : Saved(b) \cap Saved(c) = {}
  /\ Working => IsInjective(cycle.done)
  /\ Held \subseteq Old \ Counted
  /\ Working => \A b \in Batches \ {Batch} : Held \cap Saved(b) = {}
  /\ cycle.pc = "append" => checkpoints[Batch] = None

\* What a cycle has run so far is counted or in its hands.
EvidenceInv ==
  /\ EvidenceIsCounted
  /\ \A i \in DOMAIN proposals : proposals[i].eligible \subseteq 1..Len(made)
  /\ cycle.pc # "idle" =>
       /\ cycle.before \in 0..Len(made)
       /\ (cycle.before + 1)..Len(made) \subseteq Counted \cup Held \cup Fresh
       /\ \A i \in DOMAIN proposals : proposals[i].eligible \subseteq 1..cycle.before

Inv == ShapeInv /\ PlaceInv /\ EvidenceInv

-----------------------------------------------------------------------------
\* Appending to a list without repetition what it does not hold.
LEMMA AppendOnce ==
  ASSUME NEW S, NEW s \in Seq(S), NEW x \in S
  PROVE  /\ Append(s, x) \in Seq(S)
         /\ ToSet(Append(s, x)) = ToSet(s) \cup {x}
         /\ IsInjective(s) /\ x \notin ToSet(s) => IsInjective(Append(s, x))
<1>1. /\ Append(s, x) \in Seq(S)
      /\ DOMAIN s = 1..Len(s) /\ Len(s) \in Nat
      /\ DOMAIN Append(s, x) = 1..(Len(s) + 1)
      /\ \A i \in 1..Len(s) : Append(s, x)[i] = s[i]
      /\ Append(s, x)[Len(s) + 1] = x
  OBVIOUS
<1>2. 1..(Len(s) + 1) = 1..Len(s) \cup {Len(s) + 1}
  BY <1>1
<1>3. ToSet(Append(s, x)) = ToSet(s) \cup {x}
  BY <1>1, <1>2 DEF ToSet
<1>4. IsInjective(s) /\ x \notin ToSet(s) => IsInjective(Append(s, x))
  BY <1>1, <1>2 DEF ToSet, IsInjective
<1> QED
  BY <1>1, <1>3, <1>4

\* A sequence stays one, and keeps what it has, when something is appended.
LEMMA AppendAny ==
  ASSUME NEW s, s \in Seq(ToSet(s)), NEW x
  PROVE  /\ Append(s, x) \in Seq(ToSet(Append(s, x)))
         /\ Len(s) \in Nat /\ DOMAIN s = 1..Len(s)
         /\ Len(Append(s, x)) = Len(s) + 1
         /\ DOMAIN Append(s, x) = 1..(Len(s) + 1)
         /\ \A i \in 1..Len(s) : Append(s, x)[i] = s[i]
         /\ Append(s, x)[Len(s) + 1] = x
<1> DEFINE S == ToSet(s) \cup {x}
<1>1. s \in Seq(S)
  BY SeqMonotonic
<1>2. ToSet(Append(s, x)) = S /\ Append(s, x) \in Seq(S)
  BY <1>1, AppendOnce
<1> QED
  BY <1>1, <1>2

\* A sequence of which one element is replaced.
LEMMA ExceptAny ==
  ASSUME NEW s, s \in Seq(ToSet(s)), NEW i \in DOMAIN s, NEW x
  PROVE  /\ [s EXCEPT ![i] = x] \in Seq(ToSet([s EXCEPT ![i] = x]))
         /\ DOMAIN [s EXCEPT ![i] = x] = DOMAIN s
         /\ Len([s EXCEPT ![i] = x]) = Len(s)
<1> DEFINE t == [s EXCEPT ![i] = x]
           S == ToSet(s) \cup {x}
<1>1. i \in 1..Len(s) /\ s \in Seq(S)
  BY SeqMonotonic
<1>2. t \in Seq(S) /\ Len(t) = Len(s)
  BY <1>1, ExceptSeq
<1> HIDE DEF t, S
<1>3. t \in Seq(Range(t))
  BY <1>2, SeqOfRange
<1>4. Range(t) = ToSet(t)
  BY DEF Range, ToSet
<1> QED
  BY <1>2, <1>3, <1>4 DEF t

\* The empty list, and the elements of a list.
LEMMA ListFacts ==
  ASSUME NEW S
  PROVE  /\ <<>> \in Seq(S) /\ ToSet(<<>>) = {} /\ IsInjective(<<>>)
         /\ \A s \in Seq(S) : ToSet(s) \subseteq S
  BY DEF ToSet, IsInjective

\* The batches of a cycle, one after the other.
LEMMA TodoFacts ==
  /\ Batches = ToSet(Lanes) \cup {"baseline", "phase1"}
  /\ "baseline" \notin ToSet(Lanes) /\ "phase1" \notin ToSet(Lanes)
  /\ Lanes \in Todos /\ <<"baseline">> \o Lanes \in Todos /\ <<"phase1">> \in Todos
  /\ Lanes # <<>> /\ <<"baseline">> \o Lanes # <<>> /\ <<"phase1">> # <<>>
  /\ \A todo \in Todos : todo # <<>> =>
       /\ Head(todo) \in Batches
       /\ Tail(todo) \in Todos
       /\ ToSet(todo) = {Head(todo)} \cup ToSet(Tail(todo))
       /\ Head(todo) \notin ToSet(Tail(todo))
       /\ Len(todo) > 1 <=> Tail(todo) # <<>>
       /\ Tail(todo) # <<>> => Head(Tail(todo)) # "baseline"
       /\ Head(todo) = "baseline" <=> todo = <<"baseline">> \o Lanes
       /\ Head(todo) = "baseline" => Tail(todo) = Lanes
<1> DEFINE Four == <<"baseline">> \o Lanes
           Two == <<"regression", "control">>
           One == <<"control">>
           Alone == <<"phase1">>
           Nil == <<>>
           S == {"baseline", "offense", "regression", "control"}
<1>1. Lanes = <<"offense", "regression", "control">>
  BY DEF Lanes
<1>2. Four = <<"baseline", "offense", "regression", "control">>
  <2> DEFINE B == <<"baseline">>
  <2>1. /\ Len(Lanes) = 3 /\ Lanes \in Seq(S)
        /\ Lanes[1] = "offense" /\ Lanes[2] = "regression" /\ Lanes[3] = "control"
    BY <1>1
  <2>2. B \in Seq(S) /\ Len(B) = 1 /\ B[1] = "baseline"
    OBVIOUS
  <2> HIDE DEF S, B
  <2>3. /\ B \o Lanes \in Seq(S)
        /\ Len(B \o Lanes) = Len(B) + Len(Lanes)
        /\ \A i \in 1..Len(B) + Len(Lanes) :
             (B \o Lanes)[i] = IF i <= Len(B) THEN B[i] ELSE Lanes[i - Len(B)]
    <3>1. B \in Seq(S) /\ Lanes \in Seq(S)
      BY <2>1, <2>2
    <3> QED
      BY <3>1, ConcatProperties, Zenon
  <2>4. /\ (B \o Lanes)[1] = "baseline" /\ (B \o Lanes)[2] = "offense"
        /\ (B \o Lanes)[3] = "regression" /\ (B \o Lanes)[4] = "control"
    BY <2>1, <2>2, <2>3
  <2>5. \A s \in Seq(S) : Len(s) = 4 => s = <<s[1], s[2], s[3], s[4]>>
    OBVIOUS
  <2>6. Len(B \o Lanes) = 4
    BY <2>1, <2>2, <2>3
  <2>7. B \o Lanes = <<(B \o Lanes)[1], (B \o Lanes)[2], (B \o Lanes)[3], (B \o Lanes)[4]>>
    BY <2>3, <2>5, <2>6
  <2> QED
    BY <2>4, <2>7 DEF B
<1>3. /\ ToSet(Alone) = {"phase1"} /\ ToSet(One) = {"control"} /\ ToSet(Two) = {"regression", "control"}
      /\ ToSet(Lanes) = {"offense", "regression", "control"} /\ ToSet(Nil) = {}
  BY <1>1 DEF ToSet
<1>4. ToSet(Four) = {"baseline", "offense", "regression", "control"}
  <2> HIDE DEF Four
  <2> QED
    BY <1>2 DEF ToSet
<1>5. /\ Tail(Lanes) = Two /\ Tail(Two) = One /\ Tail(One) = Nil
      /\ Head(Lanes) = "offense" /\ Head(Two) = "regression" /\ Head(One) = "control"
      /\ Len(Lanes) = 3 /\ Len(Two) = 2 /\ Len(One) = 1
      /\ Lanes # Nil /\ Two # Nil /\ One # Nil
      /\ Tail(Alone) = Nil /\ Head(Alone) = "phase1" /\ Len(Alone) = 1 /\ Alone # Nil
  BY <1>1
<1>6. Tail(Four) = Lanes /\ Head(Four) = "baseline" /\ Len(Four) = 4 /\ Four # Nil
  <2> HIDE DEF Four
  <2> QED
    BY <1>1, <1>2
<1>7. Batches = {"baseline", "phase1", "offense", "regression", "control"}
  BY <1>3 DEF Batches
<1>8. Todos = {Nil, One, Two, Lanes, Four, Alone}
  BY DEF Todos
<1> HIDE DEF Four, Two, One, Nil, Alone
<1>9. ASSUME NEW todo \in Todos, todo # Nil
      PROVE  /\ Head(todo) \in Batches
             /\ Tail(todo) \in Todos
             /\ ToSet(todo) = {Head(todo)} \cup ToSet(Tail(todo))
             /\ Head(todo) \notin ToSet(Tail(todo))
             /\ Len(todo) > 1 <=> Tail(todo) # Nil
             /\ Tail(todo) # Nil => Head(Tail(todo)) # "baseline"
             /\ Head(todo) = "baseline" <=> todo = Four
             /\ Head(todo) = "baseline" => Tail(todo) = Lanes
  <2>1. todo = One \/ todo = Two \/ todo = Lanes \/ todo = Four \/ todo = Alone
    BY <1>8, <1>9
  <2>2. Head(todo) \in Batches
    BY <2>1, <1>5, <1>6, <1>7
  <2>3. Tail(todo) \in Todos
    BY <2>1, <1>5, <1>6, <1>8
  <2>4. ToSet(todo) = {Head(todo)} \cup ToSet(Tail(todo))
    BY <2>1, <1>3, <1>4, <1>5, <1>6
  <2>5. Head(todo) \notin ToSet(Tail(todo))
    BY <2>1, <1>3, <1>4, <1>5, <1>6
  <2>6. /\ Head(todo) = "baseline" <=> todo = Four
        /\ Head(todo) = "baseline" => Tail(todo) = Lanes
    BY <2>1, <1>5, <1>6
  <2>7. Tail(todo) # Nil => Head(Tail(todo)) # "baseline"
    BY <2>1, <1>5, <1>6
  <2>8. Len(todo) > 1 <=> Tail(todo) # Nil
    <3>1. todo = One \/ todo = Alone => Len(todo) = 1 /\ Tail(todo) = Nil
      BY <1>5
    <3>2. todo # One /\ todo # Alone => Len(todo) \in {2, 3, 4} /\ Tail(todo) # Nil
      BY <2>1, <1>5, <1>6
    <3>3. ~(1 > 1) /\ \A n \in {2, 3, 4} : n > 1
      OBVIOUS
    <3> QED
      BY <3>1, <3>2, <3>3, Zenon
  <2> QED
    BY <2>2, <2>3, <2>4, <2>5, <2>6, <2>7, <2>8
<1>10. /\ Lanes \in Todos /\ Four \in Todos /\ Alone \in Todos
       /\ Batches = ToSet(Lanes) \cup {"baseline", "phase1"}
       /\ "baseline" \notin ToSet(Lanes) /\ "phase1" \notin ToSet(Lanes)
  BY <1>3, <1>7, <1>8
<1> QED
  BY <1>5, <1>6, <1>7, <1>9, <1>10 DEF Four, Nil, Alone

-----------------------------------------------------------------------------
\* What each step does to the places of the campaigns, from the cycle that
\* is none.
LEMMA NoCycleFacts ==
  /\ NoCycle.pc = "idle" /\ NoCycle.todo = <<>>
  /\ DOMAIN NoCycle = {"pc", "before", "lanes", "todo", "done", "limit", "summaries"}
  BY DEF NoCycle

\* A new cycle has nothing in its hands.
LEMMA BeginView ==
  ASSUME Begin
  PROVE  /\ cycle'.pc = "load" /\ cycle'.before = Len(made)
         /\ cycle'.todo = IF BaselineRows = {} THEN <<"baseline">> \o Lanes ELSE Lanes
         /\ DOMAIN cycle' = {"pc", "before", "lanes", "todo", "done", "limit", "summaries"}
         /\ Held' = {} /\ Fresh' = {} /\ Working' = FALSE
  BY NoCycleFacts DEF Begin, Held, Fresh, Working

LEMMA OperatorView ==
  ASSUME OperatorBaseline
  PROVE  /\ cycle'.pc = "load" /\ cycle'.before = Len(made) /\ cycle'.todo = <<"phase1">>
         /\ DOMAIN cycle' = {"pc", "before", "lanes", "todo", "done", "limit", "summaries"}
         /\ Held' = {} /\ Fresh' = {} /\ Working' = FALSE
  BY NoCycleFacts DEF OperatorBaseline, Held, Fresh, Working

\* What was saved of the batch is in hand and in the checkpoint.
LEMMA LoadView ==
  ASSUME ShapeInv, LoadCheckpoint
  PROVE  /\ cycle'.pc = "run" /\ cycle'.todo = cycle.todo /\ cycle'.before = cycle.before
         /\ DOMAIN cycle' = DOMAIN cycle
         /\ \/ checkpoints[Batch] # None /\ cycle'.done = checkpoints[Batch].campaigns
            \/ cycle'.done = <<>>
         /\ Working' = TRUE /\ Fresh' = {} /\ Fresh = {} /\ Held = {} /\ Batch' = Batch
         /\ Held' = Saved(Batch) \/ Held' = {}
  BY ListFacts DEF ShapeInv, LoadCheckpoint, Resumable, Held, Fresh, Working, Batch, Saved

\* One more campaign, which is not saved yet.
LEMMA RunView ==
  ASSUME ShapeInv, RunObjective
  PROVE  /\ cycle'.pc = "save" /\ cycle'.todo = cycle.todo /\ cycle'.before = cycle.before
         /\ DOMAIN cycle' = DOMAIN cycle
         /\ cycle'.done = cycle.done /\ cycle.pc = "run"
         /\ Len(made) \in Nat /\ Len(made') = Len(made) + 1
         /\ made' \in Seq(ToSet(made'))
         /\ \A c \in 1..Len(made) : made'[c] = made[c]
         /\ Working /\ Working' = TRUE /\ Batch' = Batch
         /\ Fresh = {} /\ Fresh' = {Len(made')} /\ Held' = Held
<1>1. PICK x : made' = Append(made, x)
  BY DEF RunObjective
<1>2. /\ Len(made) \in Nat /\ Len(made') = Len(made) + 1 /\ made' \in Seq(ToSet(made'))
      /\ \A c \in 1..Len(made) : made'[c] = made[c]
  BY <1>1, AppendAny DEF ShapeInv
<1> QED
  BY <1>1, <1>2 DEF ShapeInv, RunObjective, Held, Fresh, Working, Batch

\* The fresh campaign joins those in hand, and the checkpoint holds just these.
LEMMA SaveView ==
  ASSUME ShapeInv, SaveCheckpoint
  PROVE  /\ cycle'.pc = "run" /\ cycle'.todo = cycle.todo /\ cycle'.before = cycle.before
         /\ DOMAIN cycle' = DOMAIN cycle
         /\ cycle'.done = Append(cycle.done, Len(made)) /\ cycle.pc = "save"
         /\ DOMAIN checkpoints' = DOMAIN checkpoints /\ Batch \in Batches
         /\ \A b \in Batches \ {Batch} : checkpoints'[b] = checkpoints[b]
         /\ checkpoints'[Batch].campaigns = cycle'.done
         /\ cycle'.done \in Seq(1..Len(made))
         /\ ToSet(cycle'.done) = ToSet(cycle.done) \cup {Len(made)}
         /\ IsInjective(cycle.done) /\ Len(made) \notin ToSet(cycle.done) => IsInjective(cycle'.done)
         /\ Working /\ Working' = TRUE /\ Batch' = Batch
         /\ Fresh = {Len(made)} /\ Fresh' = {} /\ Held = ToSet(cycle.done)
         /\ Held' = Held \cup {Len(made)}
         /\ \A b \in Batches \ {Batch} : Saved(b)' = Saved(b)
         /\ Saved(Batch)' \subseteq Held'
<1> DEFINE done == Append(cycle.done, Len(made))
<1>1. /\ cycle.pc = "save" /\ Working /\ Len(made) > 0 /\ cycle.done \in Seq(1..Len(made))
      /\ cycle.todo # <<>> /\ Len(made) \in Nat
  BY DEF ShapeInv, SaveCheckpoint, Working
<1>2. Batch \in Batches
  BY <1>1, TodoFacts DEF ShapeInv, Batch
<1>3. Len(made) \in 1..Len(made)
  BY <1>1
<1>4. /\ done \in Seq(1..Len(made))
      /\ ToSet(done) = ToSet(cycle.done) \cup {Len(made)}
      /\ IsInjective(cycle.done) /\ Len(made) \notin ToSet(cycle.done) => IsInjective(done)
  BY <1>1, <1>3, AppendOnce
<1> HIDE DEF done
<1>5. /\ cycle' = [cycle EXCEPT !.pc = "run", !.done = done]
      /\ checkpoints' = [checkpoints EXCEPT ![Batch] = [objectives |-> Objectives, campaigns |-> done]]
      /\ made' = made
  BY DEF SaveCheckpoint, done
<1>6. /\ cycle'.pc = "run" /\ cycle'.todo = cycle.todo /\ cycle'.before = cycle.before
      /\ DOMAIN cycle' = DOMAIN cycle /\ cycle'.done = done
  BY <1>5 DEF ShapeInv
<1>7. /\ DOMAIN checkpoints' = DOMAIN checkpoints
      /\ \A b \in Batches \ {Batch} : checkpoints'[b] = checkpoints[b]
      /\ checkpoints'[Batch].campaigns = done
  BY <1>2, <1>5 DEF ShapeInv
<1>8. /\ Working' = TRUE /\ Batch' = Batch /\ Fresh = {Len(made)} /\ Fresh' = {}
      /\ Held = ToSet(cycle.done) /\ Held' = ToSet(done)
  BY <1>1, <1>6 DEF Working, Batch, Fresh, Held
<1>9. /\ \A b \in Batches \ {Batch} : Saved(b)' = Saved(b)
      /\ Saved(Batch)' \subseteq Held'
  BY <1>7, <1>8 DEF Saved
<1> QED
  BY <1>1, <1>2, <1>4, <1>6, <1>7, <1>8, <1>9 DEF done

\* The batch leaves its checkpoint, and stays in hand.
LEMMA FinishView ==
  ASSUME ShapeInv, FinishBatch
  PROVE  /\ cycle'.pc = "append" /\ cycle'.todo = cycle.todo /\ cycle'.before = cycle.before
         /\ DOMAIN cycle' = DOMAIN cycle
         /\ cycle'.done = cycle.done /\ cycle.pc = "run"
         /\ DOMAIN checkpoints' = DOMAIN checkpoints /\ Batch \in Batches
         /\ \A b \in Batches \ {Batch} : checkpoints'[b] = checkpoints[b] /\ Saved(b)' = Saved(b)
         /\ checkpoints'[Batch] = None /\ Saved(Batch)' = {}
         /\ Working /\ Working' = TRUE /\ Batch' = Batch
         /\ Fresh = {} /\ Fresh' = {} /\ Held' = Held
<1>1. cycle.pc = "run" /\ Batch \in Batches
  BY TodoFacts DEF ShapeInv, FinishBatch, Batch
<1>2. /\ cycle'.pc = "append" /\ cycle'.todo = cycle.todo /\ cycle'.before = cycle.before
      /\ DOMAIN cycle' = DOMAIN cycle
      /\ cycle'.done = cycle.done
  BY DEF ShapeInv, FinishBatch
<1>3. /\ DOMAIN checkpoints' = DOMAIN checkpoints
      /\ \A b \in Batches \ {Batch} : checkpoints'[b] = checkpoints[b]
      /\ checkpoints'[Batch] = None
  BY <1>1 DEF ShapeInv, FinishBatch
<1>4. /\ Working /\ Working' = TRUE /\ Batch' = Batch
      /\ Fresh = {} /\ Fresh' = {} /\ Held' = Held
  BY <1>1, <1>2 DEF Working, Batch, Fresh, Held
<1>5. /\ \A b \in Batches \ {Batch} : Saved(b)' = Saved(b)
      /\ Saved(Batch)' = {}
  BY <1>3, <1>4 DEF Saved
<1> QED
  BY <1>1, <1>2, <1>3, <1>4, <1>5

\* The row is the last one of the ledger.
LEMMA AppendView ==
  ASSUME ShapeInv, AppendRow
  PROVE  /\ Batch \in Batches /\ cycle.pc = "append" /\ Working /\ Working' = FALSE
         /\ Len(ledger) \in Nat /\ DOMAIN ledger = 1..Len(ledger)
         /\ ledger' \in Seq(ToSet(ledger')) /\ DOMAIN ledger' = 1..(Len(ledger) + 1)
         /\ \A i \in 1..Len(ledger) : ledger'[i] = ledger[i]
         /\ ledger'[Len(ledger) + 1].batch = Batch
         /\ ledger'[Len(ledger) + 1].campaigns = cycle.done
         /\ Counted' = Counted \cup Held
         /\ Held' = {} /\ Fresh = {} /\ Fresh' = {} /\ Held = ToSet(cycle.done)
         /\ DOMAIN cycle' = DOMAIN cycle /\ cycle'.todo \in Todos
         /\ \/ Batch = "phase1" /\ cycle'.pc = "idle" /\ cycle'.todo = <<>>
            \/ /\ Batch = "baseline" /\ cycle'.pc = "calibrate" /\ cycle'.todo = cycle.todo
               /\ cycle.todo = <<"baseline">> \o Lanes /\ cycle'.before = cycle.before
            \/ /\ Batch \in ToSet(Lanes) /\ cycle'.todo = Tail(cycle.todo)
               /\ \/ cycle'.pc = "load" /\ cycle'.todo # <<>>
                  \/ cycle'.pc = "decide" /\ cycle'.todo = <<>>
               /\ cycle'.before = cycle.before
<1>1. cycle.pc = "append" /\ cycle.todo \in Todos /\ cycle.todo # <<>>
  BY DEF ShapeInv, AppendRow
<1>2. /\ Batch \in Batches /\ Tail(cycle.todo) \in Todos
      /\ Len(cycle.todo) > 1 <=> Tail(cycle.todo) # <<>>
      /\ Batch = "baseline" => cycle.todo = <<"baseline">> \o Lanes
  BY <1>1, TodoFacts DEF Batch
<1>3. PICK x : ledger' = Append(ledger, x) /\ x.batch = Batch /\ x.campaigns = cycle.done
  BY DEF AppendRow
<1>4. /\ Len(ledger) \in Nat /\ DOMAIN ledger = 1..Len(ledger)
      /\ ledger' \in Seq(ToSet(ledger')) /\ DOMAIN ledger' = 1..(Len(ledger) + 1)
      /\ \A i \in 1..Len(ledger) : ledger'[i] = ledger[i]
      /\ ledger'[Len(ledger) + 1] = x
  BY <1>3, AppendAny DEF ShapeInv
<1>5. Working /\ Held = ToSet(cycle.done) /\ Fresh = {}
  BY <1>1 DEF Working, Held, Fresh
<1>6. Counted' = Counted \cup Held
  <2>1. 1..(Len(ledger) + 1) = 1..Len(ledger) \cup {Len(ledger) + 1}
    BY <1>4
  <2> QED
    BY <2>1, <1>3, <1>4, <1>5 DEF Counted
<1>7. CASE Batch = "baseline"
  <2>1. cycle' = [cycle EXCEPT !.pc = "calibrate"]
    BY <1>7, TodoFacts DEF AppendRow
  <2>2. /\ cycle'.pc = "calibrate" /\ cycle'.todo = cycle.todo /\ cycle'.before = cycle.before
        /\ DOMAIN cycle' = DOMAIN cycle
    BY <2>1 DEF ShapeInv
  <2>3. Working' = FALSE /\ Held' = {} /\ Fresh' = {}
    BY <2>2 DEF Working, Held, Fresh
  <2> QED
    BY <1>1, <1>2, <1>3, <1>4, <1>5, <1>6, <1>7, <2>2, <2>3
<1>8. CASE Batch \in ToSet(Lanes)
  <2>1. /\ cycle'.pc = IF Len(cycle.todo) > 1 THEN "load" ELSE "decide"
        /\ cycle'.todo = Tail(cycle.todo) /\ cycle'.before = cycle.before
        /\ DOMAIN cycle' = DOMAIN cycle
    BY <1>8, TodoFacts DEF AppendRow, ShapeInv
  <2>2. Working' = FALSE /\ Held' = {} /\ Fresh' = {}
    BY <2>1 DEF Working, Held, Fresh
  <2>3. \/ cycle'.pc = "load" /\ cycle'.todo # <<>>
        \/ cycle'.pc = "decide" /\ cycle'.todo = <<>>
    BY <1>2, <2>1
  <2> QED
    BY <1>1, <1>2, <1>3, <1>4, <1>5, <1>6, <1>8, <2>1, <2>2, <2>3
<1>9. CASE Batch = "phase1"
  <2>1. cycle' = NoCycle
    BY <1>9, TodoFacts DEF AppendRow
  <2>2. /\ cycle'.pc = "idle" /\ cycle'.todo = <<>> /\ DOMAIN cycle' = DOMAIN cycle
        /\ Working' = FALSE /\ Held' = {} /\ Fresh' = {}
    BY <2>1, NoCycleFacts DEF ShapeInv, Working, Held, Fresh
  <2> QED
    BY <1>1, <1>2, <1>3, <1>4, <1>5, <1>6, <1>9, <2>2 DEF Todos
<1> QED
  BY <1>2, <1>7, <1>8, <1>9, TodoFacts

\* The baseline is done, the lanes are next.
LEMMA CalibrateView ==
  ASSUME ShapeInv, Calibrate
  PROVE  /\ cycle'.pc = "load" /\ cycle'.todo = Lanes /\ cycle'.before = cycle.before
         /\ DOMAIN cycle' = DOMAIN cycle
         /\ cycle.todo = <<"baseline">> \o Lanes /\ Batch = "baseline"
         /\ Working = FALSE /\ Working' = FALSE /\ Held = {} /\ Held' = {} /\ Fresh = {} /\ Fresh' = {}
<1>1. cycle.pc = "calibrate" /\ cycle.todo = <<"baseline">> \o Lanes /\ cycle.todo # <<>>
  <2>1. <<"baseline">> \o Lanes # <<>>
    BY TodoFacts
  <2> QED
    BY <2>1 DEF ShapeInv, Calibrate
<1>2. Batch = "baseline" /\ Tail(cycle.todo) = Lanes
  BY <1>1, TodoFacts DEF Batch
<1>3. /\ cycle'.pc = "load" /\ cycle'.todo = Tail(cycle.todo) /\ cycle'.before = cycle.before
      /\ DOMAIN cycle' = DOMAIN cycle
  BY DEF ShapeInv, Calibrate
<1>4. /\ Working = FALSE /\ Working' = FALSE /\ Held = {} /\ Held' = {} /\ Fresh = {} /\ Fresh' = {}
  BY <1>1, <1>3 DEF Working, Held, Fresh
<1> QED
  BY <1>1, <1>2, <1>3, <1>4 DEF Batch

\* The verdict is written into the latest proposal.
LEMMA ReviewView ==
  ASSUME ShapeInv, Review
  PROVE  /\ proposals' \in Seq(ToSet(proposals')) /\ DOMAIN proposals' = DOMAIN proposals
         /\ \A i \in DOMAIN proposals : proposals'[i].eligible = proposals[i].eligible
<1> DEFINE n == Len(proposals)
           x == [proposals[n] EXCEPT !.status = "reviewed"]
<1>1. n \in DOMAIN proposals /\ proposals \in Seq(ToSet(proposals))
  BY DEF ShapeInv, Review, AwaitsReview
<1>2. proposals' = [proposals EXCEPT ![n] = x] /\ proposals[n].status = "pending"
  BY DEF Review, AwaitsReview, Last
<1>3. /\ proposals' \in Seq(ToSet(proposals')) /\ DOMAIN proposals' = DOMAIN proposals
      /\ Len(proposals') = n
  BY <1>1, <1>2, ExceptAny
<1>4. x.eligible = proposals[n].eligible
  OBVIOUS
<1> QED
  BY <1>1, <1>2, <1>3, <1>4

\* The cycle ends: with a proposal, or dead.
LEMMA EndView ==
  ASSUME cycle' = NoCycle
  PROVE  /\ cycle'.pc = "idle" /\ cycle'.todo = <<>>
         /\ DOMAIN cycle' = {"pc", "before", "lanes", "todo", "done", "limit", "summaries"}
         /\ Working' = FALSE /\ Held' = {} /\ Fresh' = {}
  BY NoCycleFacts DEF Working, Held, Fresh

-----------------------------------------------------------------------------
\* Nothing has happened yet.
LEMMA InitInv == Init => Inv
<1> SUFFICES ASSUME Init PROVE Inv
  OBVIOUS
<1>1. /\ made = <<>> /\ ledger = <<>> /\ proposals = <<>> /\ Len(made) = 0
      /\ DOMAIN ledger = {} /\ DOMAIN proposals = {}
      /\ checkpoints = [b \in Batches |-> None] /\ cycle = NoCycle
  BY DEF Init
<1>2. /\ cycle.pc = "idle" /\ cycle.todo = <<>>
      /\ DOMAIN cycle = {"pc", "before", "lanes", "todo", "done", "limit", "summaries"}
  BY <1>1, NoCycleFacts
<1>3. /\ ~Working /\ Held = {} /\ Fresh = {} /\ Counted = {}
      /\ \A b \in Batches : Saved(b) = {}
  BY <1>1, <1>2 DEF Working, Held, Fresh, Counted, Saved
<1>4. ShapeInv
  BY <1>1, <1>2, <1>3, ListFacts DEF ShapeInv, Todos
<1>5. PlaceInv
  BY <1>1, <1>2, <1>3 DEF PlaceInv, CountedOnce
<1>6. EvidenceInv
  BY <1>1, <1>2 DEF EvidenceInv, EvidenceIsCounted
<1> QED
  BY <1>4, <1>5, <1>6 DEF Inv

\* The shapes are kept by every step.
LEMMA ShapeStep == ASSUME Inv, [Next]_vars PROVE ShapeInv'
<1>1. ShapeInv
  BY DEF Inv
<1>2. CASE Begin
  <2>1. cycle'.todo \in Todos /\ cycle'.todo # <<>>
    BY <1>2, BeginView, TodoFacts
  <2> QED
    BY <1>1, <1>2, <2>1, BeginView DEF Begin, ShapeInv
<1>3. CASE LoadCheckpoint
  <2>1. cycle.todo \in Todos /\ cycle.todo # <<>> /\ UNCHANGED <<made, checkpoints, ledger, proposals>>
    BY <1>1, <1>3 DEF ShapeInv, LoadCheckpoint, diskVars, boundVars
  <2>2. Batch \in Batches
    BY <2>1, TodoFacts DEF Batch
  <2>3. cycle'.done \in Seq(1..Len(made))
    <3>1. CASE checkpoints[Batch] # None /\ cycle'.done = checkpoints[Batch].campaigns
      BY <1>1, <2>2, <3>1 DEF ShapeInv
    <3>2. CASE cycle'.done = <<>>
      BY <3>2, ListFacts
    <3> QED
      BY <1>1, <1>3, <3>1, <3>2, LoadView
  <2> QED
    BY <1>1, <1>3, <2>1, <2>3, LoadView DEF ShapeInv
<1>4. CASE RunObjective
  <2>1. 1..Len(made) \subseteq 1..Len(made')
    BY <1>1, <1>4, RunView
  <2>2. \A s \in Seq(1..Len(made)) : s \in Seq(1..Len(made'))
    BY <2>1, SeqMonotonic
  <2>3. cycle.done \in Seq(1..Len(made'))
    <3>1. cycle.done \in Seq(1..Len(made))
      BY <1>1, <1>4, RunView DEF ShapeInv
    <3> QED
      BY <2>2, <3>1
  <2>4. Len(made') > 0
    BY <1>1, <1>4, RunView
  <2> QED
    BY <1>1, <1>4, <2>2, <2>3, <2>4, RunView DEF RunObjective, ShapeInv, diskVars, boundVars
<1>5. CASE SaveCheckpoint
  BY <1>1, <1>5, SaveView DEF SaveCheckpoint, ShapeInv, boundVars
<1>6. CASE FinishBatch
  BY <1>1, <1>6, FinishView DEF FinishBatch, ShapeInv, boundVars
<1>7. CASE AppendRow
  <2>1. ASSUME NEW i \in DOMAIN ledger' PROVE ledger'[i].campaigns \in Seq(1..Len(made))
    <3>1. i \in 1..Len(ledger) \/ i = Len(ledger) + 1
      BY <1>1, <1>7, AppendView
    <3>2. CASE i \in 1..Len(ledger)
      BY <1>1, <1>7, <3>2, AppendView DEF ShapeInv
    <3>3. CASE i = Len(ledger) + 1
      BY <1>1, <1>7, <3>3, AppendView DEF ShapeInv
    <3> QED
      BY <3>1, <3>2, <3>3
  <2> QED
    BY <1>1, <1>7, <2>1, AppendView DEF AppendRow, ShapeInv, boundVars
<1>8. CASE Calibrate
  BY <1>1, <1>8, CalibrateView, TodoFacts DEF Calibrate, ShapeInv, boundVars
<1>9. CASE Propose
  <2>1. proposals' \in Seq(ToSet(proposals'))
    BY <1>1, <1>9, AppendAny DEF Propose, ShapeInv
  <2> QED
    BY <1>1, <1>9, <2>1, EndView DEF Propose, ShapeInv, diskVars, boundVars, Todos
<1>10. CASE Review
  <2>1. proposals' \in Seq(ToSet(proposals'))
    BY <1>1, <1>10, ReviewView
  <2> QED
    BY <1>1, <1>10, <2>1 DEF Review, ShapeInv, Working, diskVars, boundVars
<1>11. CASE Fail \/ Crash
  BY <1>1, <1>11, EndView DEF Fail, Crash, ShapeInv, diskVars, boundVars, Todos
<1>12. CASE Restart \/ Poll \/ UNCHANGED vars
  BY <1>1, <1>12 DEF Restart, Poll, vars, treeVars, diskVars, boundVars, ShapeInv, Working
<1>13. CASE OperatorBaseline
  BY <1>1, <1>13, OperatorView, TodoFacts DEF OperatorBaseline, ShapeInv, diskVars
<1> QED
  BY <1>2, <1>3, <1>4, <1>5, <1>6, <1>7, <1>8, <1>9, <1>10, <1>11, <1>12, <1>13 DEF Next

-----------------------------------------------------------------------------
\* A step that changes no file and leaves the cycle with nothing in its hands.
LEMMA PlaceQuiet ==
  ASSUME PlaceInv, UNCHANGED <<made, ledger, checkpoints>>,
         Working' = FALSE, Held' = {}, Fresh' = {}
  PROVE  PlaceInv'
<1>1. Counted' = Counted /\ CountedOnce' /\ (\A b \in Batches : Saved(b)' = Saved(b)) /\ Old \subseteq Old'
  BY DEF PlaceInv, Counted, CountedOnce, Saved, Old
<1>2. cycle'.pc # "append"
  BY DEF Working
<1> QED
  BY <1>1, <1>2 DEF PlaceInv

\* A step that changes neither the files nor the cycle.
LEMMA SameView ==
  ASSUME UNCHANGED <<made, ledger, checkpoints, cycle>>
  PROVE  /\ Counted' = Counted
         /\ Held' = Held /\ Fresh' = Fresh /\ Working' = Working
         /\ Batch' = Batch /\ \A b \in Batches : Saved(b)' = Saved(b)
  BY DEF Counted, Held, Fresh, Working, Batch, Saved

\* A step that changes neither the files nor the cycle moves no campaign.
LEMMA PlaceSame ==
  ASSUME PlaceInv, UNCHANGED <<made, ledger, checkpoints, cycle>>
  PROVE  PlaceInv'
<1>1. CountedOnce' /\ Old' = Old
  BY SameView DEF PlaceInv, CountedOnce, Old
<1> QED
  BY <1>1, SameView DEF PlaceInv

\* The row of a batch is the only one with its campaigns.
LEMMA RowCountedOnce == ASSUME ShapeInv, PlaceInv, AppendRow PROVE CountedOnce'
<1> DEFINE n == Len(ledger) + 1
<1>1. /\ DOMAIN ledger' = 1..n /\ DOMAIN ledger = 1..Len(ledger) /\ Len(ledger) \in Nat
      /\ \A i \in 1..Len(ledger) : ledger'[i] = ledger[i]
      /\ ledger'[n].campaigns = cycle.done
      /\ Held = ToSet(cycle.done) /\ Working
  BY AppendView
<1>2. \A i \in 1..Len(ledger) : ToSet(ledger[i].campaigns) \cap ToSet(cycle.done) = {}
  BY <1>1 DEF PlaceInv, Counted
<1>3. \A i \in 1..n : i = n \/ i \in 1..Len(ledger)
  BY <1>1
<1> HIDE DEF n
<1>4. ASSUME NEW i \in 1..n PROVE IsInjective(ledger'[i].campaigns)
  BY <1>1, <1>3 DEF PlaceInv, CountedOnce
<1>5. ASSUME NEW i \in 1..n, NEW j \in 1..n, i # j
      PROVE  ToSet(ledger'[i].campaigns) \cap ToSet(ledger'[j].campaigns) = {}
  <2>1. CASE i \in 1..Len(ledger) /\ j \in 1..Len(ledger)
    BY <1>1, <1>5, <2>1 DEF PlaceInv, CountedOnce
  <2>2. CASE i = n /\ j \in 1..Len(ledger)
    BY <1>1, <1>2, <2>2
  <2>3. CASE j = n /\ i \in 1..Len(ledger)
    BY <1>1, <1>2, <2>3
  <2> QED
    BY <1>3, <1>5, <2>1, <2>2, <2>3
<1> QED
  BY <1>1, <1>4, <1>5 DEF CountedOnce

\* No step puts a campaign into a second place.
LEMMA PlaceStep == ASSUME Inv, [Next]_vars PROVE PlaceInv'
<1>1. ShapeInv /\ PlaceInv
  BY DEF Inv
<1>2. CASE Begin
  BY <1>1, <1>2, BeginView, PlaceQuiet DEF Begin
<1>3. CASE LoadCheckpoint
  <2>1. UNCHANGED <<made, ledger, checkpoints>> /\ cycle.todo \in Todos /\ cycle.todo # <<>>
    BY <1>1, <1>3 DEF LoadCheckpoint, ShapeInv, diskVars
  <2>2. Batch \in Batches
    BY <2>1, TodoFacts DEF Batch
  <2>3. /\ Counted' = Counted /\ CountedOnce' /\ \A b \in Batches : Saved(b)' = Saved(b)
        /\ Old' = Old
    <3>1. Old' = Old
      BY <1>1, <1>3, <2>1, LoadView DEF Old
    <3> QED
      BY <1>1, <2>1, <3>1 DEF PlaceInv, Counted, CountedOnce, Saved
  <2>4. Held' \subseteq Saved(Batch)
    BY <1>1, <1>3, LoadView
  <2>5. IsInjective(cycle'.done)
    BY <1>1, <1>3, <2>2, LoadView, ListFacts DEF PlaceInv
  <2>6. \A b \in Batches \ {Batch} : Held' \cap Saved(b)' = {}
    BY <1>1, <2>2, <2>3, <2>4 DEF PlaceInv
  <2>7. Held' \subseteq Old' \ Counted'
    BY <1>1, <2>2, <2>3, <2>4 DEF PlaceInv
  <2>8. cycle'.pc = "run" /\ Batch' = Batch
    BY <1>1, <1>3, LoadView
  <2> QED
    BY <1>1, <2>1, <2>3, <2>5, <2>6, <2>7, <2>8 DEF PlaceInv
<1>4. CASE RunObjective
  <2>1. UNCHANGED <<ledger, checkpoints>>
    BY <1>4 DEF RunObjective, diskVars
  <2>2. Counted' = Counted /\ CountedOnce' /\ \A b \in Batches : Saved(b)' = Saved(b)
    BY <1>1, <2>1 DEF PlaceInv, Counted, CountedOnce, Saved
  <2>3. Old' = Old
    BY <1>1, <1>4, RunView DEF Old
  <2> QED
    BY <1>1, <1>4, <2>1, <2>2, <2>3, RunView DEF PlaceInv
<1>5. CASE SaveCheckpoint
  <2>1. UNCHANGED <<made, ledger>> /\ cycle.pc = "save"
    BY <1>5 DEF SaveCheckpoint
  <2>2. Counted' = Counted /\ CountedOnce'
    BY <1>1, <2>1 DEF PlaceInv, Counted, CountedOnce
  <2>3. /\ Batch \in Batches /\ Batch' = Batch /\ Held' = Held \cup {Len(made)}
        /\ \A b \in Batches \ {Batch} : Saved(b)' = Saved(b)
        /\ Saved(Batch)' \subseteq Held'
    BY <1>1, <1>5, SaveView
  <2>4. Old' = Old \cup {Len(made)} /\ Len(made) \notin Old
    <3>1. Len(made) \in Nat /\ Len(made) > 0
      BY <1>1, <2>1 DEF ShapeInv
    <3>2. Fresh = {Len(made)} /\ Fresh' = {}
      BY <1>1, <1>5, SaveView
    <3> QED
      BY <2>1, <3>1, <3>2 DEF Old
  <2>5. IsInjective(cycle'.done) /\ checkpoints'[Batch].campaigns = cycle'.done
    BY <1>1, <1>5, <2>4, SaveView DEF PlaceInv
  <2>6. Held' \subseteq Old' \ Counted'
    BY <1>1, <2>2, <2>3, <2>4 DEF PlaceInv
  <2>7. \A b \in Batches \ {Batch} : Held' \cap Saved(b)' = {}
    BY <1>1, <1>5, <2>3, <2>4, SaveView DEF PlaceInv
  <2>8. ASSUME NEW b \in Batches
        PROVE  /\ checkpoints'[b] # None => IsInjective(checkpoints'[b].campaigns)
               /\ Saved(b)' \subseteq Old' \ Counted'
               /\ \A c \in Batches \ {b} : Saved(b)' \cap Saved(c)' = {}
    <3>1. CASE b = Batch
      BY <2>3, <2>5, <2>6, <2>7, <3>1
    <3>2. CASE b # Batch
      <4>1. /\ checkpoints'[b] = checkpoints[b] /\ Saved(b)' = Saved(b)
            /\ Saved(b)' \cap Saved(Batch)' = {}
        BY <1>1, <1>5, <2>3, <2>7, <3>2, SaveView
      <4> QED
        BY <1>1, <2>2, <2>3, <2>4, <4>1 DEF PlaceInv
    <3> QED
      BY <3>1, <3>2
  <2>9. cycle'.pc = "run"
    BY <1>1, <1>5, SaveView
  <2> QED
    BY <1>1, <2>2, <2>3, <2>4, <2>5, <2>6, <2>7, <2>8, <2>9 DEF PlaceInv
<1>6. CASE FinishBatch
  <2>1. UNCHANGED <<made, ledger>>
    BY <1>6 DEF FinishBatch
  <2>2. Counted' = Counted /\ CountedOnce' /\ Old' = Old
    BY <1>1, <1>6, <2>1, FinishView DEF PlaceInv, Counted, CountedOnce, Old
  <2>3. \A b \in Batches : \/ checkpoints'[b] = checkpoints[b] /\ Saved(b)' = Saved(b)
                           \/ checkpoints'[b] = None /\ Saved(b)' = {}
    BY <1>1, <1>6, FinishView
  <2> QED
    BY <1>1, <1>6, <2>2, <2>3, FinishView DEF PlaceInv
<1>7. CASE AppendRow
  <2>1. CountedOnce' /\ UNCHANGED <<made, checkpoints>>
    BY <1>1, <1>7, RowCountedOnce DEF AppendRow
  <2>2. /\ Counted' = Counted \cup Held /\ Old' = Old /\ Held' = {} /\ Working' = FALSE
        /\ Batch \in Batches /\ cycle.pc = "append" /\ Working
    BY <1>1, <1>7, <2>1, AppendView DEF Old
  <2>3. \A b \in Batches : Saved(b)' = Saved(b) /\ Saved(b) \cap Held = {}
    BY <1>1, <2>1, <2>2 DEF PlaceInv, Saved
  <2> QED
    BY <1>1, <2>1, <2>2, <2>3 DEF PlaceInv, Working
<1>8. CASE Calibrate
  BY <1>1, <1>8, CalibrateView, PlaceQuiet DEF Calibrate
<1>9. CASE Propose
  BY <1>1, <1>9, EndView, PlaceQuiet DEF Propose, diskVars
<1>10. CASE Fail \/ Crash
  BY <1>1, <1>10, EndView, PlaceQuiet DEF Fail, Crash, diskVars
<1>11. CASE Review \/ Restart \/ Poll \/ UNCHANGED vars
  <2>1. UNCHANGED <<made, ledger, checkpoints, cycle>>
    BY <1>11 DEF Review, Restart, Poll, vars, diskVars
  <2> QED
    BY <1>1, <2>1, PlaceSame
<1>12. CASE OperatorBaseline
  BY <1>1, <1>12, OperatorView, PlaceQuiet DEF OperatorBaseline, diskVars
<1> QED
  BY <1>2, <1>3, <1>4, <1>5, <1>6, <1>7, <1>8, <1>9, <1>10, <1>11, <1>12 DEF Next

-----------------------------------------------------------------------------
\* A step that writes no proposal and loses no campaign of the cycle.
LEMMA EvidenceKept ==
  ASSUME EvidenceInv, Len(made) \in Nat, Len(made') \in Nat, Len(made) <= Len(made'),
         DOMAIN proposals' = DOMAIN proposals,
         \A i \in DOMAIN proposals : proposals'[i].eligible = proposals[i].eligible,
         Counted \subseteq Counted',
         cycle'.pc # "idle" =>
           /\ cycle.pc # "idle" /\ cycle'.before = cycle.before
           /\ Counted \cup Held \cup Fresh \cup (Len(made) + 1)..Len(made')
                \subseteq Counted' \cup Held' \cup Fresh'
  PROVE  EvidenceInv'
<1>1. EvidenceIsCounted'
  BY DEF EvidenceInv, EvidenceIsCounted
<1>2. \A i \in DOMAIN proposals' : proposals'[i].eligible \subseteq 1..Len(made')
  <2>1. 1..Len(made) \subseteq 1..Len(made')
    OBVIOUS
  <2> QED
    BY <2>1 DEF EvidenceInv
<1>3. ASSUME cycle'.pc # "idle"
      PROVE  /\ cycle'.before \in 0..Len(made')
             /\ (cycle'.before + 1)..Len(made') \subseteq Counted' \cup Held' \cup Fresh'
             /\ \A i \in DOMAIN proposals' : proposals'[i].eligible \subseteq 1..cycle'.before
  <2>1. /\ cycle.before \in 0..Len(made) /\ cycle'.before = cycle.before
        /\ (cycle.before + 1)..Len(made) \subseteq Counted \cup Held \cup Fresh
    BY <1>3 DEF EvidenceInv
  <2>2. (cycle.before + 1)..Len(made') \subseteq (cycle.before + 1)..Len(made) \cup (Len(made) + 1)..Len(made')
    BY <2>1
  <2>3. (cycle'.before + 1)..Len(made') \subseteq Counted' \cup Held' \cup Fresh'
    BY <1>3, <2>1, <2>2
  <2>4. cycle'.before \in 0..Len(made')
    BY <2>1
  <2> QED
    BY <1>3, <2>1, <2>3, <2>4 DEF EvidenceInv
<1> QED
  BY <1>1, <1>2, <1>3 DEF EvidenceInv

\* What a proposal finds eligible has been counted, and by no earlier one.
LEMMA EvidenceProposed ==
  ASSUME ShapeInv, EvidenceInv, Propose
  PROVE  EvidenceInv'
<1>1. /\ cycle.pc = "decide" /\ UNCHANGED <<made, ledger>> /\ cycle'.pc = "idle"
      /\ Len(made) \in Nat /\ DOMAIN made = 1..Len(made)
  BY NoCycleFacts DEF Propose, diskVars, ShapeInv
<1>2. Held = {} /\ Fresh = {} /\ Counted' = Counted
  BY <1>1 DEF Held, Working, Fresh, Counted
<1>3. /\ cycle.before \in 0..Len(made)
      /\ (cycle.before + 1)..Len(made) \subseteq Counted
      /\ \A i \in DOMAIN proposals : proposals[i].eligible \subseteq 1..cycle.before
      /\ \A i \in DOMAIN proposals : proposals[i].eligible \subseteq 1..Len(made)
      /\ EvidenceIsCounted
  BY <1>1, <1>2 DEF EvidenceInv
<1>4. Eligible \subseteq (cycle.before + 1)..Len(made)
  BY <1>1, <1>3 DEF Eligible, Traces
<1>5. /\ Eligible \subseteq Counted /\ Eligible \subseteq 1..Len(made)
      /\ \A i \in DOMAIN proposals : proposals[i].eligible \cap Eligible = {}
  <2>1. (cycle.before + 1)..Len(made) \cap 1..cycle.before = {}
    BY <1>1, <1>3
  <2>2. (cycle.before + 1)..Len(made) \subseteq 1..Len(made)
    BY <1>1, <1>3
  <2> QED
    BY <1>3, <1>4, <2>1, <2>2
<1>6. PICK x : proposals' = Append(proposals, x) /\ x.eligible = Eligible
  BY DEF Propose
<1> DEFINE n == Len(proposals) + 1
<1>7. /\ DOMAIN proposals' = 1..n /\ DOMAIN proposals = 1..Len(proposals)
      /\ \A i \in 1..Len(proposals) : proposals'[i] = proposals[i]
      /\ proposals'[n] = x /\ Len(proposals) \in Nat
  BY <1>6, AppendAny DEF ShapeInv
<1>8. \A i \in 1..n : i = n \/ i \in 1..Len(proposals)
  BY <1>7
<1> HIDE DEF n
<1>9. ASSUME NEW i \in 1..n
      PROVE  proposals'[i].eligible \subseteq Counted /\ proposals'[i].eligible \subseteq 1..Len(made)
  BY <1>3, <1>5, <1>6, <1>7, <1>8 DEF EvidenceIsCounted
<1>10. ASSUME NEW i \in 1..n, NEW k \in 1..n, i # k
       PROVE  proposals'[i].eligible \cap proposals'[k].eligible = {}
  <2>1. CASE i \in 1..Len(proposals) /\ k \in 1..Len(proposals)
    BY <1>3, <1>7, <1>10, <2>1 DEF EvidenceIsCounted
  <2>2. CASE i = n /\ k \in 1..Len(proposals)
    BY <1>5, <1>6, <1>7, <2>2
  <2>3. CASE k = n /\ i \in 1..Len(proposals)
    BY <1>5, <1>6, <1>7, <2>3
  <2> QED
    BY <1>8, <1>10, <2>1, <2>2, <2>3
<1> QED
  BY <1>1, <1>2, <1>7, <1>9, <1>10 DEF EvidenceInv, EvidenceIsCounted

\* No step makes evidence of what is not counted.
LEMMA EvidenceStep == ASSUME Inv, [Next]_vars PROVE EvidenceInv'
<1>1. ShapeInv /\ EvidenceInv /\ Len(made) \in Nat
  BY DEF Inv, ShapeInv
<1>2. CASE Begin
  <2>1. UNCHANGED <<made, ledger, proposals>> /\ Counted' = Counted
    BY <1>2 DEF Begin, Counted
  <2>2. cycle'.before = Len(made) /\ (Len(made) + 1)..Len(made) = {}
    BY <1>1, <1>2, BeginView
  <2>3. EvidenceIsCounted'
    BY <1>1, <2>1 DEF EvidenceInv, EvidenceIsCounted
  <2> QED
    BY <1>1, <2>1, <2>2, <2>3 DEF EvidenceInv
<1>3. CASE LoadCheckpoint
  <2>1. UNCHANGED <<made, ledger, proposals>> /\ Counted' = Counted /\ cycle.pc = "load"
    BY <1>3 DEF LoadCheckpoint, Counted, diskVars
  <2>2. Held = {} /\ Fresh = {} /\ cycle'.before = cycle.before /\ (Len(made) + 1)..Len(made) = {}
    BY <1>1, <1>3, LoadView
  <2> QED
    BY <1>1, <2>1, <2>2, EvidenceKept
<1>4. CASE RunObjective
  <2>1. UNCHANGED <<ledger, proposals>> /\ Counted' = Counted /\ cycle.pc = "run"
    BY <1>4 DEF RunObjective, Counted, diskVars
  <2>2. /\ Len(made') = Len(made) + 1 /\ Held' = Held /\ Fresh = {} /\ Fresh' = {Len(made')}
        /\ cycle'.before = cycle.before
    BY <1>1, <1>4, RunView
  <2>3. (Len(made) + 1)..Len(made') = {Len(made')} /\ Len(made') \in Nat /\ Len(made) <= Len(made')
    BY <1>1, <2>2
  <2> QED
    BY <1>1, <2>1, <2>2, <2>3, EvidenceKept
<1>5. CASE SaveCheckpoint
  <2>1. UNCHANGED <<made, ledger, proposals>> /\ Counted' = Counted /\ cycle.pc = "save"
    BY <1>5 DEF SaveCheckpoint, Counted
  <2>2. /\ Held' = Held \cup {Len(made)} /\ Fresh = {Len(made)} /\ cycle'.before = cycle.before
        /\ (Len(made) + 1)..Len(made) = {}
    BY <1>1, <1>5, SaveView
  <2> QED
    BY <1>1, <2>1, <2>2, EvidenceKept
<1>6. CASE FinishBatch
  <2>1. UNCHANGED <<made, ledger, proposals>> /\ Counted' = Counted /\ cycle.pc = "run"
    BY <1>6 DEF FinishBatch, Counted
  <2>2. /\ Held' = Held /\ Fresh = {} /\ cycle'.before = cycle.before
        /\ (Len(made) + 1)..Len(made) = {}
    BY <1>1, <1>6, FinishView
  <2> QED
    BY <1>1, <2>1, <2>2, EvidenceKept
<1>7. CASE AppendRow
  <2>1. UNCHANGED <<made, proposals>> /\ cycle.pc = "append"
    BY <1>7 DEF AppendRow
  <2>2. /\ Counted' = Counted \cup Held /\ Fresh = {}
        /\ cycle'.pc # "idle" => cycle'.before = cycle.before
        /\ (Len(made) + 1)..Len(made) = {}
    BY <1>1, <1>7, AppendView
  <2> QED
    BY <1>1, <2>1, <2>2, EvidenceKept
<1>8. CASE Calibrate
  <2>1. UNCHANGED <<made, ledger, proposals>> /\ Counted' = Counted /\ cycle.pc = "calibrate"
    BY <1>8 DEF Calibrate, Counted
  <2>2. /\ Held = {} /\ Fresh = {} /\ cycle'.before = cycle.before
        /\ (Len(made) + 1)..Len(made) = {}
    BY <1>1, <1>8, CalibrateView
  <2> QED
    BY <1>1, <2>1, <2>2, EvidenceKept
<1>9. CASE Propose
  BY <1>1, <1>9, EvidenceProposed
<1>10. CASE Fail \/ Crash
  <2>1. UNCHANGED <<made, ledger, proposals>> /\ Counted' = Counted /\ cycle'.pc = "idle"
    BY <1>10, EndView DEF Fail, Crash, Counted, diskVars
  <2> QED
    BY <1>1, <2>1, EvidenceKept
<1>11. CASE Review \/ Restart \/ Poll \/ UNCHANGED vars
  <2>1. UNCHANGED <<made, ledger, checkpoints, cycle>>
    BY <1>11 DEF Review, Restart, Poll, vars, diskVars
  <2>2. /\ DOMAIN proposals' = DOMAIN proposals
        /\ \A i \in DOMAIN proposals : proposals'[i].eligible = proposals[i].eligible
    BY <1>1, <1>11, ReviewView DEF Restart, Poll, vars
  <2>3. (Len(made) + 1)..Len(made) = {}
    BY <1>1
  <2> QED
    BY <1>1, <2>1, <2>2, <2>3, SameView, EvidenceKept
<1>12. CASE OperatorBaseline
  <2>1. UNCHANGED <<made, ledger, proposals>> /\ Counted' = Counted
    BY <1>12 DEF OperatorBaseline, Counted, diskVars
  <2>2. cycle'.before = Len(made) /\ (Len(made) + 1)..Len(made) = {}
    BY <1>1, <1>12, OperatorView
  <2>3. EvidenceIsCounted'
    BY <1>1, <2>1 DEF EvidenceInv, EvidenceIsCounted
  <2> QED
    BY <1>1, <2>1, <2>2, <2>3 DEF EvidenceInv
<1> QED
  BY <1>2, <1>3, <1>4, <1>5, <1>6, <1>7, <1>8, <1>9, <1>10, <1>11, <1>12 DEF Next

-----------------------------------------------------------------------------
\* The inductive invariant: where the campaigns of every cycle are.
THEOREM BatchInvariant == Spec => []Inv
<1>1. Inv /\ [Next]_vars => Inv'
  BY ShapeStep, PlaceStep, EvidenceStep DEF Inv
<1> QED
  BY <1>1, InitInv, PTL DEF Spec

\* No campaign is counted in two rows of results.tsv, nor twice in one.
THEOREM CampaignsCountedOnce == Spec => []CountedOnce
<1>1. Inv => CountedOnce
  BY DEF Inv, PlaceInv
<1> QED
  BY <1>1, BatchInvariant, PTL

\* What a proposal offers for promotion was counted, by its cycle alone.
THEOREM EvidenceCounted == Spec => []EvidenceIsCounted
<1>1. Inv => EvidenceIsCounted
  BY DEF Inv, EvidenceInv
<1> QED
  BY <1>1, BatchInvariant, PTL

-----------------------------------------------------------------------------
(***************************************************************************)
(* What a batch has completed, and what its row is about                   *)
(***************************************************************************)
\* The slugs of campaigns, in a list m.
SlugsIn(m, campaigns) == [i \in DOMAIN campaigns |-> m[campaigns[i]].slug]

\* Campaigns of different objectives, all of them of this batch.
Fits(m, objectives, campaigns) ==
  /\ IsInjective(SlugsIn(m, campaigns))
  /\ ToSet(SlugsIn(m, campaigns)) \subseteq Named(objectives)

\* What is saved and what is held fits the batch, and a resumed checkpoint is held.
BatchInv ==
  /\ \A b \in Batches : checkpoints[b] # None =>
       Fits(made, checkpoints[b].objectives, checkpoints[b].campaigns)
  /\ Working => Fits(made, Objectives, cycle.done)
  /\ cycle.pc \in {"run", "save"} /\ Resumable(checkpoints[Batch]) =>
       ToSet(checkpoints[Batch].campaigns) \subseteq ToSet(cycle.done)
  /\ cycle.pc = "save" => /\ made[Len(made)].slug \in Named(Objectives)
                          /\ made[Len(made)].slug \notin ToSet(SlugsIn(made, cycle.done))
  /\ cycle.pc = "append" => Named(Objectives) \subseteq ToSet(SlugsIn(made, cycle.done))

\* A row is about its whole batch.
Whole(m, row) ==
  /\ Fits(m, row.objectives, row.campaigns)
  /\ Named(row.objectives) \subseteq ToSet(SlugsIn(m, row.campaigns))

WholeInv == \A i \in DOMAIN ledger : Whole(made, ledger[i])

-----------------------------------------------------------------------------
\* A set of naturals has its least element.
LEMMA MinIn == ASSUME NEW S \in SUBSET Nat, S # {} PROVE Min(S) \in S
<1> DEFINE R == OpToRel(<, Nat)
<1>1. PICK x \in S : \A y \in S : ~(<<y, x>> \in R)
  BY NatLessThanWellFounded, WFMin, Zenon
<1>2. \A y \in S : x <= y
  <2>1. R = {ss \in Nat \X Nat : ss[1] < ss[2]}  BY DEF OpToRel
  <2>2. \A y \in S : y < x => <<y, x>> \in R
    <3> HIDE DEF R
    <3> QED  BY <2>1
  <2> HIDE DEF R
  <2>3. \A y \in S : ~(y < x)  BY <1>1, <2>2, Zenon
  <2> QED  BY <2>3
<1>3. \E z \in S : \A y \in S : z <= y
  BY <1>2
<1> QED  BY <1>3 DEF Min

-----------------------------------------------------------------------------
\* A campaign keeps its slug when others follow.
LEMMA CampaignsStand ==
  ASSUME NEW m, NEW n, NEW k \in Nat, \A i \in 1..k : n[i] = m[i], NEW campaigns \in Seq(1..k)
  PROVE  /\ SlugsIn(n, campaigns) = SlugsIn(m, campaigns)
         /\ \A objectives : Fits(m, objectives, campaigns) => Fits(n, objectives, campaigns)
<1>1. \A i \in DOMAIN campaigns : n[campaigns[i]] = m[campaigns[i]]  OBVIOUS
<1>2. SlugsIn(n, campaigns) = SlugsIn(m, campaigns)  BY <1>1 DEF SlugsIn
<1> QED  BY <1>2 DEF Fits

-----------------------------------------------------------------------------
\* A cycle goes on with what it had.
LEMMA SameObjectives ==
  ASSUME cycle'.todo = cycle.todo, cycle'.lanes = cycle.lanes
  PROVE  Batch' = Batch /\ Objectives' = Objectives
  BY DEF Batch, Objectives

\* Nobody runs a batch: only the checkpoints matter.
LEMMA BatchRests ==
  ASSUME BatchInv, ~Working', UNCHANGED made,
         \A b \in Batches : checkpoints'[b] = checkpoints[b]
  PROVE  BatchInv'
  BY DEF BatchInv, Working

LEMMA BatchBegin == ASSUME BatchInv, Begin \/ OperatorBaseline PROVE BatchInv'
<1>1. UNCHANGED <<made, checkpoints>>
  BY DEF Begin, OperatorBaseline, diskVars
<1> QED  BY <1>1, BeginView, OperatorView, BatchRests

LEMMA NothingFits ==
  ASSUME NEW m, NEW objectives PROVE Fits(m, objectives, <<>>) /\ ToSet(<<>>) = {}
<1>1. SlugsIn(m, <<>>) = <<>>  BY DEF SlugsIn
<1> QED  BY <1>1 DEF Fits, IsInjective, ToSet

LEMMA BatchLoad == ASSUME ShapeInv, BatchInv, LoadCheckpoint PROVE BatchInv'
<1>1. /\ UNCHANGED <<made, checkpoints>> /\ cycle.pc = "load" /\ cycle'.pc = "run"
      /\ Batch' = Batch /\ Batch \in Batches
  BY LoadView, TodoFacts DEF LoadCheckpoint, diskVars, ShapeInv, Batch
<1>2. cycle'.lanes = cycle.lanes /\ cycle'.todo = cycle.todo
  BY LoadView DEF LoadCheckpoint, ShapeInv
<1>3. Objectives' = Objectives  BY <1>2, SameObjectives
<1>4. cycle'.done = IF Resumable(checkpoints[Batch]) THEN checkpoints[Batch].campaigns ELSE <<>>
  BY DEF LoadCheckpoint, ShapeInv
<1>5. Resumable(checkpoints[Batch])' <=> Resumable(checkpoints[Batch])
  BY <1>1, <1>3 DEF Resumable
<1>6. CASE Resumable(checkpoints[Batch])
  <2>1. Fits(made, Objectives, cycle'.done)
    BY <1>1, <1>4, <1>6 DEF BatchInv, Resumable
  <2>2. cycle'.done = checkpoints'[Batch'].campaigns  BY <1>1, <1>4, <1>6
  <2> QED  BY <1>1, <1>2, <1>3, <2>1, <2>2 DEF BatchInv
<1>7. CASE ~Resumable(checkpoints[Batch])
  <2>1. Fits(made, Objectives, cycle'.done)  BY <1>4, <1>7, NothingFits
  <2> QED  BY <1>1, <1>2, <1>3, <1>5, <1>7, <2>1 DEF BatchInv
<1> QED  BY <1>6, <1>7

\* The campaign that is run is of an objective that is not completed.
LEMMA NextObjective ==
  ASSUME ShapeInv, RunObjective
  PROVE  /\ made'[Len(made')].slug \in Named(Objectives)
         /\ made'[Len(made')].slug \notin ToSet(SlugsIn(made, cycle.done))
<1>1. Missing \in SUBSET Nat /\ Missing # {}
  BY DEF Missing, RunObjective
<1>2. Min(Missing) \in Missing  BY <1>1, MinIn
<1> DEFINE slug == Objectives[Min(Missing)]
<1>3. slug \in Named(Objectives) /\ slug \notin ToSet(SlugsIn(made, cycle.done))
  BY <1>2 DEF Missing, Named, SlugsOf, SlugsIn
<1>4. PICK code, outcome : made' = Append(made, [slug |-> slug, code |-> code, outcome |-> outcome])
  BY DEF RunObjective
<1> HIDE DEF slug
<1> DEFINE x == [slug |-> slug, code |-> code, outcome |-> outcome]
<1>5. x.slug = slug  OBVIOUS
<1> HIDE DEF x
<1>6. made' = Append(made, x)  BY <1>4 DEF x
<1>7. made'[Len(made')] = x  BY <1>6, AppendAny DEF ShapeInv
<1> QED  BY <1>3, <1>5, <1>7

LEMMA BatchRun == ASSUME ShapeInv, BatchInv, RunObjective PROVE BatchInv'
<1>1. /\ UNCHANGED checkpoints /\ cycle.pc = "run" /\ cycle'.pc = "save" /\ Working
      /\ cycle'.done = cycle.done /\ cycle'.todo = cycle.todo /\ cycle'.lanes = cycle.lanes
  BY RunView DEF RunObjective, diskVars, ShapeInv
<1>2. Batch' = Batch /\ Objectives' = Objectives  BY <1>1, SameObjectives
<1>3. /\ Len(made) \in Nat /\ \A c \in 1..Len(made) : made'[c] = made[c]
  BY RunView
<1>4. cycle.done \in Seq(1..Len(made))  BY <1>1 DEF ShapeInv
<1>5. /\ Fits(made', Objectives, cycle.done)
      /\ SlugsIn(made', cycle.done) = SlugsIn(made, cycle.done)
  BY <1>1, <1>3, <1>4, CampaignsStand DEF BatchInv
<1>6. ASSUME NEW b \in Batches, checkpoints[b] # None
      PROVE  Fits(made', checkpoints[b].objectives, checkpoints[b].campaigns)
  BY <1>3, <1>6, CampaignsStand DEF BatchInv, ShapeInv
<1>7. Resumable(checkpoints[Batch])' <=> Resumable(checkpoints[Batch])
  BY <1>1, <1>2 DEF Resumable
<1>8. \A b \in Batches : checkpoints'[b] # None =>
        Fits(made', checkpoints'[b].objectives, checkpoints'[b].campaigns)
  BY <1>1, <1>6
<1>9. cycle'.pc \in {"run", "save"} /\ Resumable(checkpoints[Batch])' =>
        ToSet(checkpoints'[Batch'].campaigns) \subseteq ToSet(cycle'.done)
  BY <1>1, <1>2, <1>7 DEF BatchInv
<1>10. /\ made'[Len(made')].slug \in Named(Objectives')
       /\ made'[Len(made')].slug \notin ToSet(SlugsIn(made', cycle'.done))
  BY <1>1, <1>2, <1>5, NextObjective
<1> QED  BY <1>1, <1>2, <1>5, <1>8, <1>9, <1>10 DEF BatchInv

LEMMA BatchSave == ASSUME ShapeInv, BatchInv, SaveCheckpoint PROVE BatchInv'
<1> DEFINE done == cycle.done
           new  == cycle'.done
           n    == Len(cycle.done)
<1>1. /\ cycle.pc = "save" /\ cycle'.pc = "run" /\ Working /\ Batch \in Batches
      /\ new = Append(done, Len(made)) /\ cycle'.todo = cycle.todo
      /\ \A b \in Batches \ {Batch} : checkpoints'[b] = checkpoints[b]
  BY SaveView
<1>2. cycle'.lanes = cycle.lanes /\ made' = made
  BY DEF SaveCheckpoint, ShapeInv
<1>3. Batch' = Batch /\ Objectives' = Objectives  BY <1>1, <1>2, SameObjectives
<1>4. checkpoints'[Batch] = [objectives |-> Objectives, campaigns |-> new]
  BY <1>1 DEF SaveCheckpoint, ShapeInv
<1>5. /\ done \in Seq(1..Len(made)) /\ Len(made) \in Nat /\ Len(made) > 0
      /\ Fits(made, Objectives, done)
      /\ made[Len(made)].slug \in Named(Objectives)
      /\ made[Len(made)].slug \notin ToSet(SlugsIn(made, done))
  BY <1>1 DEF ShapeInv, BatchInv
<1>6. /\ n \in Nat /\ DOMAIN done = 1..n /\ DOMAIN new = 1..n + 1
      /\ new[n + 1] = Len(made) /\ \A i \in 1..n : new[i] = done[i]
  BY <1>1, <1>5
<1> DEFINE s == SlugsIn(made, done)
           t == SlugsIn(made, new)
<1>7. /\ DOMAIN s = 1..n /\ DOMAIN t = 1..n + 1 /\ t[n + 1] = made[Len(made)].slug
      /\ \A i \in 1..n : t[i] = s[i]
  <2> HIDE DEF done, new, n
  <2>1. n + 1 \in 1..n + 1 /\ 1..n \subseteq 1..n + 1  BY <1>6
  <2> QED  BY <1>6, <2>1 DEF SlugsIn
<1>8. 1..n + 1 = (1..n) \cup {n + 1}  BY <1>6
<1>9. ToSet(t) = ToSet(s) \cup {made[Len(made)].slug}
  <2> HIDE DEF s, t, n
  <2> QED  BY <1>7, <1>8 DEF ToSet
<1>10. IsInjective(t)
  <2>1. IsInjective(s) /\ made[Len(made)].slug \notin ToSet(s)  BY <1>5 DEF Fits
  <2> HIDE DEF s, t, n
  <2> QED  BY <1>6, <1>7, <1>8, <2>1 DEF IsInjective, ToSet
<1>11. Fits(made, Objectives, new)
  BY <1>5, <1>9, <1>10 DEF Fits
<1> HIDE DEF new
<1>12. ASSUME NEW b \in Batches, checkpoints'[b] # None
       PROVE  Fits(made', checkpoints'[b].objectives, checkpoints'[b].campaigns)
  <2>1. CASE b = Batch  BY <1>2, <1>4, <1>11, <2>1
  <2>2. CASE b # Batch  BY <1>1, <1>2, <1>12, <2>2 DEF BatchInv
  <2> QED  BY <2>1, <2>2
<1>13. checkpoints'[Batch'].campaigns = cycle'.done  BY <1>3, <1>4 DEF new
<1>14. Fits(made', Objectives', cycle'.done)  BY <1>2, <1>3, <1>11 DEF new
<1> QED  BY <1>1, <1>12, <1>13, <1>14 DEF BatchInv

LEMMA BatchFinish == ASSUME ShapeInv, BatchInv, FinishBatch PROVE BatchInv'
<1>1. /\ cycle.pc = "run" /\ cycle'.pc = "append" /\ Working /\ Batch \in Batches
      /\ cycle'.done = cycle.done /\ cycle'.todo = cycle.todo
      /\ \A b \in Batches \ {Batch} : checkpoints'[b] = checkpoints[b]
      /\ checkpoints'[Batch] = None
  BY FinishView
<1>2. cycle'.lanes = cycle.lanes /\ made' = made
  BY DEF FinishBatch, ShapeInv
<1>3. Batch' = Batch /\ Objectives' = Objectives  BY <1>1, <1>2, SameObjectives
<1>4. Named(Objectives) \subseteq ToSet(SlugsIn(made, cycle.done))
  BY DEF FinishBatch, Missing, Named, SlugsOf, SlugsIn
<1>5. Fits(made, Objectives, cycle.done)  BY <1>1 DEF BatchInv
<1>6. \A b \in Batches : checkpoints'[b] # None =>
        Fits(made', checkpoints'[b].objectives, checkpoints'[b].campaigns)
  BY <1>1, <1>2 DEF BatchInv
<1> QED  BY <1>1, <1>2, <1>3, <1>4, <1>5, <1>6 DEF BatchInv

LEMMA BatchStep == ASSUME ShapeInv, BatchInv, [Next]_vars PROVE BatchInv'
<1>1. CASE AppendRow \/ Calibrate
  <2>1. /\ ~Working' /\ UNCHANGED <<made, checkpoints>>
    BY <1>1, AppendView, CalibrateView DEF AppendRow, Calibrate
  <2> QED  BY <2>1, BatchRests
<1>2. CASE Propose \/ Fail \/ Crash
  <2>1. cycle' = NoCycle /\ UNCHANGED <<made, checkpoints>>
    BY <1>2 DEF Propose, Fail, Crash, diskVars
  <2> QED  BY <2>1, EndView, BatchRests
<1>3. CASE Review \/ Restart \/ Poll \/ UNCHANGED vars
  <2>1. UNCHANGED <<made, checkpoints, cycle>>
    BY <1>3 DEF Review, Restart, Poll, vars, diskVars
  <2>2. Batch' = Batch /\ Objectives' = Objectives  BY <2>1, SameObjectives
  <2>3. Working' <=> Working  BY <2>1 DEF Working
  <2>4. Resumable(checkpoints[Batch])' <=> Resumable(checkpoints[Batch])
    BY <2>1, <2>2 DEF Resumable
  <2> QED  BY <2>1, <2>2, <2>3, <2>4 DEF BatchInv
<1> QED
  BY <1>1, <1>2, <1>3, BatchBegin, BatchLoad, BatchRun, BatchSave, BatchFinish DEF Next

LEMMA BatchInit == Init => BatchInv
  BY NoCycleFacts DEF Init, BatchInv, Working

\* The invariant of the batches, beside that of the campaigns' places.
THEOREM BatchesFit == Spec => []BatchInv
<1>1. Inv => ShapeInv  BY DEF Inv
<1>2. ShapeInv /\ BatchInv /\ [Next]_vars => BatchInv'  BY BatchStep
<1> QED  BY <1>1, <1>2, BatchInit, BatchInvariant, PTL DEF Spec

\* What a checkpoint of the same objectives holds is not run again: a resumed batch
\* runs only what is missing from it.
THEOREM SavedWorkIsKept == Spec => SavedWorkCounts
<1> DEFINE A == made' # made /\ checkpoints[Batch] # None /\ checkpoints[Batch].objectives = Objectives
                 => Last(made').slug \notin ToSet(SlugsOf(checkpoints[Batch].campaigns))
<1>1. ASSUME Inv, BatchInv, [Next]_vars PROVE [A]_vars
  <2> SUFFICES ASSUME made' # made, Resumable(checkpoints[Batch])
               PROVE  Last(made').slug \notin ToSet(SlugsIn(made, checkpoints[Batch].campaigns))
    BY DEF Resumable, SlugsOf, SlugsIn
  <2>1. ShapeInv  BY <1>1 DEF Inv
  <2>2. RunObjective
    BY <1>1 DEF Next, Begin, OperatorBaseline, LoadCheckpoint, SaveCheckpoint, FinishBatch, AppendRow, Calibrate,
                Propose, Review, Fail, Crash, Restart, Poll, vars
  <2>3. cycle.pc = "run"  BY <2>2 DEF RunObjective
  <2>4. ToSet(checkpoints[Batch].campaigns) \subseteq ToSet(cycle.done)
    BY <1>1, <2>3 DEF BatchInv
  <2>5. ToSet(SlugsIn(made, checkpoints[Batch].campaigns)) \subseteq ToSet(SlugsIn(made, cycle.done))
    <3>1. ASSUME NEW m, NEW c, NEW d, ToSet(c) \subseteq ToSet(d)
          PROVE  ToSet(SlugsIn(m, c)) \subseteq ToSet(SlugsIn(m, d))
      BY <3>1 DEF ToSet, SlugsIn
    <3> QED  BY <2>4, <3>1
  <2>6. made'[Len(made')].slug \notin ToSet(SlugsIn(made, cycle.done))
    BY <2>1, <2>2, NextObjective
  <2> QED  BY <2>5, <2>6 DEF Last
<1>2. Spec => [][A]_vars  BY <1>1, BatchInvariant, BatchesFit, PTL DEF Spec
<1> QED  BY <1>2 DEF SavedWorkCounts

-----------------------------------------------------------------------------
\* The row of a finished batch is about it, and remains so.
LEMMA WholeStep == ASSUME ShapeInv, BatchInv, WholeInv, [Next]_vars PROVE WholeInv'
<1>1. CASE RunObjective
  <2>1. UNCHANGED ledger  BY <1>1 DEF RunObjective, diskVars
  <2>2. Len(made) \in Nat /\ \A c \in 1..Len(made) : made'[c] = made[c]
    BY <1>1, RunView
  <2>3. ASSUME NEW i \in DOMAIN ledger PROVE Whole(made', ledger[i])
    <3>1. ledger[i].campaigns \in Seq(1..Len(made)) /\ Whole(made, ledger[i])
      BY DEF ShapeInv, WholeInv
    <3> QED  BY <2>2, <3>1, CampaignsStand DEF Whole
  <2> QED  BY <2>1, <2>3 DEF WholeInv
<1>2. CASE AppendRow
  <2>1. PICK row : /\ ledger' = Append(ledger, row)
                   /\ row.objectives = Objectives /\ row.campaigns = cycle.done
    BY <1>2 DEF AppendRow
  <2>2. UNCHANGED made /\ cycle.pc = "append" /\ Working
    BY <1>2, AppendView DEF AppendRow
  <2>3. Whole(made, row)  BY <2>1, <2>2 DEF Whole, BatchInv
  <2>4. /\ Len(ledger) \in Nat /\ DOMAIN ledger = 1..Len(ledger)
        /\ DOMAIN ledger' = 1..(Len(ledger) + 1) /\ ledger'[Len(ledger) + 1] = row
        /\ \A i \in 1..Len(ledger) : ledger'[i] = ledger[i]
    BY <2>1, AppendAny DEF ShapeInv
  <2>5. ASSUME NEW i \in 1..(Len(ledger) + 1) PROVE Whole(made, ledger'[i])
    <3>1. i \in 1..Len(ledger) \/ i = Len(ledger) + 1  BY <2>4
    <3> QED  BY <2>3, <2>4, <3>1 DEF WholeInv
  <2> QED  BY <2>2, <2>4, <2>5 DEF WholeInv
<1>3. CASE ~RunObjective /\ ~AppendRow
  <2>1. UNCHANGED <<made, ledger>>
    BY <1>3 DEF Next, Begin, OperatorBaseline, LoadCheckpoint, SaveCheckpoint, FinishBatch,
                Calibrate, Propose, Review, Fail, Crash, Restart, Poll, vars, diskVars
  <2> QED  BY <2>1 DEF WholeInv
<1> QED  BY <1>1, <1>2, <1>3

\* Every row of results.tsv is about one campaign per objective of its batch, whatever
\* was interrupted, dealt anew and resumed before it was written.
THEOREM RowsAreWhole == Spec => []WholeBatches
<1>1. Init => WholeInv  BY DEF Init, WholeInv
<1>2. Inv => ShapeInv  BY DEF Inv
<1>3. ShapeInv /\ BatchInv /\ WholeInv /\ [Next]_vars => WholeInv'  BY WholeStep
<1>4. WholeInv => WholeBatches
  BY DEF WholeInv, Whole, Fits, WholeBatches, SlugsOf, SlugsIn
<1> QED  BY <1>1, <1>2, <1>3, <1>4, BatchInvariant, BatchesFit, PTL DEF Spec

=============================================================================
