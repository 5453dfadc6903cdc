----------------------- MODULE SubmissionInputs_proofs -----------------------
(***************************************************************************)
(* Proofs about SubmissionInputs, for all definitions, submissions and     *)
(* values: types, the forest of inputs, what acceptance means, that the    *)
(* search ends, and what a Pick rule counts.                               *)
(***************************************************************************)
EXTENDS SubmissionInputs, SequenceTheorems, TLAPS

ALevel == [id : Ids, format : Formats, path : Paths]

Groupings == UNION {[D -> SUBSET Nat] : D \in SUBSET Ids}

Input == [descriptor : Ids, format : Formats, value : Items, nested : Groupings]

Frame == [items : Seq(Items), found : SUBSET Nat]

\* The types of the variables; inputs are referred to by their indices.
Typed ==
  /\ definition \in Definitions
  /\ submission \in Seq(Seq(ALevel) \ {<<>>})
  /\ at \in Nat \ {0}
  /\ stack \in Seq(Frame)
  /\ inputs \in Seq(Input)
  /\ returned \in SUBSET Nat
  /\ outcome \in Outcomes

\* The frames below the top are in the middle of an item.
Suspended == \A k \in DOMAIN stack : k < Depth => stack[k].items # <<>>

Inv == Typed /\ TypeOK /\ Suspended

----------------------------------------------------------------------------
(* Lemmas *)

\* The descriptor map at work and its level, while the stack is not empty.
LEMMA LevelType ==
  ASSUME Inv, stack # <<>>
  PROVE  /\ at \in 1 .. Len(submission)
         /\ submission[at] \in Seq(ALevel) /\ submission[at] # <<>>
         /\ Depth \in 1 .. Len(submission[at])
         /\ \A k \in DOMAIN stack : k \in 1 .. Len(submission[at]) /\ submission[at][k] \in ALevel
         /\ \A k \in DOMAIN stack : stack[k] \in Frame
<1>1. at \in 1 .. Len(submission) /\ Depth <= Len(submission[at])
  BY DEF Inv, Typed, TypeOK
<1>2. submission[at] \in Seq(ALevel) /\ submission[at] # <<>>
  BY <1>1 DEF Inv, Typed
<1>3. Depth \in Nat \ {0} /\ DOMAIN stack = 1 .. Depth
  BY DEF Inv, Typed, Depth
<1>4. \A k \in DOMAIN stack : k \in 1 .. Len(submission[at])
  BY <1>1, <1>2, <1>3
<1>5. \A k \in 1 .. Len(submission[at]) : submission[at][k] \in ALevel
  BY <1>2
<1> QED BY <1>1, <1>2, <1>3, <1>4, <1>5 DEF Inv, Typed

\* What a path finds are items.
LEMMA QueryType == ASSUME NEW x \in Items, NEW level \in ALevel PROVE Query[x][level.path] \in Seq(Items)
  BY ItemsAssumption DEF ALevel

\* group_by_input_descriptor loses no index, doubles none, and files each one
\* under the descriptor of its input.
LEMMA GroupingIsExact ==
  ASSUME Typed, NEW indices \in SUBSET DOMAIN inputs
  PROVE  /\ GroupByInputDescriptor(inputs, indices) \in Groupings
         /\ LET g == GroupByInputDescriptor(inputs, indices) IN
            /\ \A d \in DOMAIN g : \A j \in g[d] : j \in indices /\ inputs[j].descriptor = d
            /\ UNION {g[d] : d \in DOMAIN g} = indices
<1> DEFINE g == GroupByInputDescriptor(inputs, indices)
           ids == {inputs[i].descriptor : i \in indices}
<1>1. g = [d \in ids |-> {i \in indices : inputs[i].descriptor = d}]
  BY DEF GroupByInputDescriptor
<1>2. indices \in SUBSET Nat /\ \A i \in indices : inputs[i] \in Input
  BY DEF Typed
<1>3. ids \in SUBSET Ids
  BY <1>2 DEF Input
<1>4. g \in [ids -> SUBSET Nat]
  BY <1>1, <1>2, <1>3
<1>5. g \in Groupings
  BY <1>3, <1>4 DEF Groupings
<1>6. \A d \in DOMAIN g : \A j \in g[d] : j \in indices /\ inputs[j].descriptor = d
  BY <1>1
<1>7. UNION {g[d] : d \in DOMAIN g} = indices
  <2>1. DOMAIN g = ids
    BY <1>1
  <2>2. ASSUME NEW i \in UNION {g[d] : d \in DOMAIN g} PROVE i \in indices
    <3>1. PICK d \in DOMAIN g : i \in g[d]
      BY <2>2
    <3> QED BY <1>6, <3>1
  <2>3. ASSUME NEW i \in indices PROVE i \in UNION {g[d] : d \in DOMAIN g}
    <3>1. inputs[i].descriptor \in ids /\ i \in g[inputs[i].descriptor]
      BY <1>1
    <3> HIDE DEF g, ids
    <3> QED BY <2>1, <3>1
  <2> HIDE DEF g, ids
  <2> QED BY <2>2, <2>3
<1> QED BY <1>5, <1>6, <1>7

\* What a call finds is decided by verdicts and errors the program knows.
LEMMA VerdictType == ValidationVerdict \subseteq {"accepted"} \cup ValidationErrors
<1>1. \A r : GroupVerdict(r) \in {"accepted"} \cup ValidationErrors
  BY DEF GroupVerdict, ValidationErrors
<1> QED BY <1>1 DEF ValidationVerdict, ValidationErrors

\* The frame at work, its first item, and what follows it.
LEMMA TopType ==
  ASSUME Inv, stack # <<>>
  PROVE  /\ Top \in Frame /\ Depth \in DOMAIN stack /\ Level \in ALevel
         /\ Top.items # <<>> => Item \in Items
         /\ Top.items # <<>> => \A new \in SUBSET Nat : After(Top, new) \in Frame
<1>1. Depth \in DOMAIN stack /\ Top \in Frame /\ Level \in ALevel
  BY LevelType DEF Inv, Typed, Depth, Top, Level
<1>2. ASSUME Top.items # <<>> PROVE Item \in Items /\ Tail(Top.items) \in Seq(Items)
  BY <1>1, <1>2 DEF Frame, Item
<1>3. ASSUME Top.items # <<>>, NEW new \in SUBSET Nat PROVE After(Top, new) \in Frame
  BY <1>1, <1>2, <1>3 DEF Frame, After
<1> QED BY <1>1, <1>2, <1>3

\* A nested level is a level of the descriptor map.
LEMMA NestedLevelType ==
  ASSUME Inv, stack # <<>>, IsNested
  PROVE  submission[at][Depth + 1] \in ALevel /\ Depth + 1 <= Len(submission[at])
  BY LevelType DEF IsNested

----------------------------------------------------------------------------
(* Types *)

LEMMA TypesInit == Init => Inv
<1> SUFFICES ASSUME Init PROVE Inv
  OBVIOUS
<1>1. Typed
  <2>1. submission \in Seq(Seq(ALevel) \ {<<>>})
    BY SubmissionsAssumption DEF Init, ALevel
  <2>2. stack \in Seq(Frame) /\ inputs \in Seq(Input)
    BY DEF Init
  <2> QED BY <2>1, <2>2 DEF Init, Typed, Outcomes
<1>2. TypeOK
  <2>1. at = 1 /\ stack = <<>> /\ inputs = <<>> /\ returned = {} /\ outcome = "pending"
    BY DEF Init
  <2>2. Len(submission) \in Nat /\ (1 <= Len(submission) => submission[1] \in Seq(ALevel))
    BY <1>1 DEF Typed
  <2> QED BY <2>1, <2>2 DEF TypeOK, Outcomes, Depth
<1>3. Suspended
  BY DEF Init, Suspended
<1> QED BY <1>1, <1>2, <1>3 DEF Inv

LEMMA FailsKeepsTypes ==
  ASSUME Inv, NEW error \in Outcomes, Fails(error)
  PROVE  Inv'
  BY DEF Inv, Typed, TypeOK, Suspended, Fails, Depth

LEMMA EnterKeepsTypes ==
  ASSUME Inv, NEW value \in Items, NEW level \in ALevel, Enter(value, level),
         at <= Len(submission), Depth < Len(submission[at]),
         stack # <<>> => Top.items # <<>>
  PROVE  Inv'
<1>1. CASE EnterError(level) # "pending"
  <2>1. EnterError(level) \in Outcomes
    BY DEF EnterError, Outcomes, Errors
  <2> QED BY <1>1, <2>1, FailsKeepsTypes DEF Enter
<1>2. CASE EnterError(level) = "pending"
  <2> DEFINE new == [items |-> Query[value][level.path], found |-> {}]
  <2>1. /\ stack' = Append(stack, new)
        /\ UNCHANGED <<definition, submission, at, inputs, returned, outcome>>
    BY <1>2 DEF Enter
  <2>2. new \in Frame
    BY QueryType DEF Frame
  <2>3. stack' \in Seq(Frame) /\ Len(stack') = Depth + 1
    BY <2>1, <2>2 DEF Inv, Typed, Depth
  <2>4. \A k \in DOMAIN stack' : stack'[k].found \subseteq DOMAIN inputs
    <3> SUFFICES ASSUME NEW k \in DOMAIN stack' PROVE stack'[k].found \subseteq DOMAIN inputs
      OBVIOUS
    <3>1. /\ stack \in Seq(Frame) /\ Depth = Len(stack)
          /\ \A l \in DOMAIN stack : stack[l].found \subseteq DOMAIN inputs
      BY DEF Inv, Typed, TypeOK, Depth
    <3> HIDE DEF new
    <3>2. (k \in DOMAIN stack /\ stack'[k] = stack[k]) \/ stack'[k] = new
      BY <2>1, <2>2, <3>1
    <3>3. new.found = {}
      BY DEF new
    <3> QED BY <3>1, <3>2, <3>3
  <2>5. Typed'
    BY <2>1, <2>3 DEF Inv, Typed
  <2>6. Depth \in Nat /\ Len(submission[at]) \in Nat
    <3>1. Depth \in Nat
      BY DEF Inv, Typed, Depth
    <3>2. at \in 1 .. Len(submission)
      BY DEF Inv, Typed
    <3>3. submission[at] \in Seq(ALevel)
      BY <3>2 DEF Inv, Typed
    <3> QED BY <3>1, <3>3
  <2>7. TypeOK'
    BY <2>1, <2>3, <2>4, <2>6 DEF Inv, TypeOK, Depth
  <2>8. Suspended'
    BY <2>1, <2>3, <2>6 DEF Inv, Typed, Suspended, Depth, Top
  <2> QED BY <2>5, <2>7, <2>8 DEF Inv
<1> QED BY <1>1, <1>2

----------------------------------------------------------------------------
(* What the steps that add an input do *)

\* The input x is new and comes last.
Grown(x) ==
  /\ inputs' \in Seq(Input) /\ Len(inputs') = Len(inputs) + 1
  /\ DOMAIN inputs' = DOMAIN inputs \cup {Len(inputs) + 1} /\ Len(inputs) + 1 \notin DOMAIN inputs
  /\ inputs'[Len(inputs) + 1] = x
  /\ \A i \in DOMAIN inputs : inputs'[i] = inputs[i]

LEMMA AppendGrows ==
  ASSUME Typed, NEW x \in Input, inputs' = Append(inputs, x)
  PROVE  Grown(x)
  BY DEF Typed, Grown

LEMMA KeepItemEffect ==
  ASSUME Inv, KeepItem
  PROVE  /\ stack # <<>> /\ Top.items # <<>> /\ Depth \in DOMAIN stack
         /\ Grown(DecodedInput(Level, Item, {}))
         /\ stack' \in Seq(Frame) /\ Len(stack') = Len(stack) /\ DOMAIN stack' = DOMAIN stack
         /\ \A k \in DOMAIN stack : k # Depth => stack'[k] = stack[k]
         /\ stack'[Depth].found = Top.found \cup {Len(inputs) + 1}
         /\ UNCHANGED <<definition, submission, at, returned, outcome>>
<1> DEFINE x == DecodedInput(Level, Item, {})
           n == Len(inputs) + 1
<1>1. stack # <<>> /\ Top.items # <<>>
  BY DEF KeepItem, Matching, AtItem
<1>2. inputs' = Append(inputs, x) /\ stack' = [stack EXCEPT ![Depth] = After(Top, {n})]
  BY DEF KeepItem, Top
<1>3. x \in Input
  BY <1>1, TopType, GroupingIsExact DEF Inv, DecodedInput, Input, ALevel
<1>4. Grown(x)
  BY <1>2, <1>3, AppendGrows DEF Inv
<1>5. After(Top, {n}) \in Frame /\ After(Top, {n}).found = Top.found \cup {n} /\ Depth \in DOMAIN stack
  <2>1. {n} \in SUBSET Nat
    BY DEF Inv, Typed
  <2> QED BY <1>1, <2>1, TopType DEF After
<1>6. stack' \in Seq(Frame) /\ Len(stack') = Len(stack) /\ DOMAIN stack' = DOMAIN stack
  BY <1>2, <1>5 DEF Inv, Typed
<1>7. \A k \in DOMAIN stack : k # Depth => stack'[k] = stack[k]
  BY <1>2
<1>8. stack'[Depth] = After(Top, {n})
  BY <1>2, <1>5
<1>9. UNCHANGED <<definition, submission, at, returned, outcome>>
  BY DEF KeepItem
<1> QED BY <1>1, <1>4, <1>5, <1>6, <1>7, <1>8, <1>9

LEMMA ReturnNestedEffect ==
  ASSUME Inv, ReturnNested
  PROVE  /\ Depth \in Nat /\ Depth > 1 /\ DOMAIN stack = 1 .. Depth
         /\ Caller \in Frame /\ Caller.items # <<>>
         /\ Top.found \in SUBSET DOMAIN inputs
         /\ IF Top.found = {} THEN UNCHANGED inputs ELSE Grown(Parent)
         /\ stack' \in Seq(Frame) /\ DOMAIN stack' = 1 .. Depth - 1 /\ Len(stack') = Depth - 1
         /\ \A k \in 1 .. Depth - 2 : stack'[k] = stack[k]
         /\ stack'[Depth - 1].found = Caller.found \cup IF Top.found = {} THEN {} ELSE {Len(inputs) + 1}
         /\ UNCHANGED <<definition, submission, at, returned, outcome>>
<1> DEFINE new == IF Top.found = {} THEN {} ELSE {Len(inputs) + 1}
           below == SubSeq(stack, 1, Depth - 2)
<1>1. stack # <<>> /\ Depth > 1 /\ Depth \in Nat /\ Depth - 1 \in DOMAIN stack /\ DOMAIN stack = 1 .. Depth
  BY DEF Inv, Typed, ReturnNested, Returning, Depth
<1>2. Caller \in Frame /\ Caller.items # <<>> /\ Top \in Frame /\ Top.found \in SUBSET DOMAIN inputs
  BY <1>1, LevelType DEF Inv, Caller, Suspended, TypeOK, Top
<1>3. stack' = Append(below, After(Caller, new))
  BY DEF ReturnNested
<1>4. IF Top.found = {} THEN UNCHANGED inputs ELSE inputs' = Append(inputs, Parent)
  BY DEF ReturnNested
<1>5. Parent \in Input
  <2>1. Head(Caller.items) \in Items
    BY <1>2 DEF Frame
  <2>2. submission[at][Depth - 1] \in ALevel
    BY <1>1, LevelType
  <2> QED BY <1>2, <2>1, <2>2, GroupingIsExact DEF Inv, Parent, DecodedInput, Input, ALevel
<1>6. IF Top.found = {} THEN UNCHANGED inputs ELSE Grown(Parent)
  BY <1>4, <1>5, AppendGrows DEF Inv
<1>7. After(Caller, new) \in Frame /\ After(Caller, new).found = Caller.found \cup new
  <2>1. Tail(Caller.items) \in Seq(Items)
    BY <1>2 DEF Frame
  <2>2. new \in SUBSET Nat
    BY DEF Inv, Typed
  <2> QED BY <1>2, <2>1, <2>2 DEF After, Frame
<1>8. below \in Seq(Frame) /\ Len(below) = Depth - 2 /\ \A k \in 1 .. Depth - 2 : below[k] = stack[k]
  BY <1>1, LevelType, SubSeqProperties DEF Inv, Typed
<1>9. /\ stack' \in Seq(Frame) /\ Len(stack') = Depth - 1 /\ DOMAIN stack' = 1 .. Depth - 1
      /\ \A k \in 1 .. Depth - 2 : stack'[k] = stack[k]
      /\ stack'[Depth - 1] = After(Caller, new)
  BY <1>1, <1>3, <1>7, <1>8
<1>10. UNCHANGED <<definition, submission, at, returned, outcome>>
  BY DEF ReturnNested
<1> QED BY <1>1, <1>2, <1>6, <1>7, <1>9, <1>10

----------------------------------------------------------------------------
\* One case per action.
LEMMA TypesStep == Inv /\ [Next]_vars => Inv'
<1> SUFFICES ASSUME Inv, [Next]_vars PROVE Inv'
  OBVIOUS
<1> USE DEF Inv
<1>1. CASE UNCHANGED vars
  BY <1>1 DEF Typed, TypeOK, Suspended, vars, Depth
<1>2. CASE StartMap
  <2>1. stack = <<>> /\ at <= Len(submission) /\ Enter(Root, submission[at][1])
    BY <1>2 DEF StartMap
  <2>2. at \in 1 .. Len(submission)
    BY <2>1 DEF Typed
  <2>3. submission[at] \in Seq(ALevel) /\ submission[at] # <<>>
    BY <2>2 DEF Typed
  <2>4. submission[at][1] \in ALevel /\ Depth < Len(submission[at])
    BY <2>1, <2>3 DEF Depth
  <2> QED BY <2>1, <2>4, EnterKeepsTypes, ItemsAssumption
<1>3. CASE ItemFails
  <2>1. ItemError \in Outcomes
    BY DEF ItemError, Outcomes, Errors
  <2> QED BY <1>3, <2>1, FailsKeepsTypes DEF ItemFails
<1>4. CASE SkipItem
  <2>1. stack # <<>> /\ Top.items # <<>>
    BY <1>4 DEF SkipItem, AtItem
  <2>2. stack' = [stack EXCEPT ![Depth] = After(Top, {})]
    BY <1>4 DEF SkipItem, Top
  <2>3. After(Top, {}) \in Frame /\ After(Top, {}).found = Top.found /\ Depth \in DOMAIN stack
    BY <2>1, TopType DEF After, Frame
  <2>4. stack' \in Seq(Frame) /\ Len(stack') = Len(stack)
    BY <2>2, <2>3 DEF Typed
  <2>5. \A k \in DOMAIN stack' : stack'[k].found = stack[k].found
    BY <2>2, <2>3 DEF Typed, Top
  <2>6. Suspended'
    BY <2>2, <2>3, <2>4 DEF Typed, Suspended, Depth
  <2> QED BY <1>4, <2>1, <2>2, <2>4, <2>5, <2>6 DEF SkipItem, Typed, TypeOK, Depth
<1>5. CASE Descend
  <2>1. stack # <<>> /\ Top.items # <<>> /\ IsNested
    BY <1>5 DEF Descend, Matching, AtItem
  <2> QED BY <1>5, <2>1, TopType, NestedLevelType, LevelType, EnterKeepsTypes DEF Descend, IsNested
<1>6. CASE KeepItem
  <2>1. Depth \in DOMAIN stack /\ stack # <<>> /\ at <= Len(submission)
    BY <1>6, KeepItemEffect, LevelType
  <2>2. Typed'
    BY <1>6, KeepItemEffect DEF Typed, Grown
  <2>3. \A k \in DOMAIN stack' : stack'[k].found \subseteq DOMAIN inputs'
    BY <1>6, KeepItemEffect DEF TypeOK, Top, Grown
  <2>4. \A k \in DOMAIN inputs' : inputs'[k].value \in Items
    <3>1. \A k \in DOMAIN inputs' : inputs'[k] \in Input
      BY <2>2 DEF Typed
    <3> QED BY <3>1 DEF Input
  <2>5. TypeOK'
    BY <1>6, <2>1, <2>3, <2>4, KeepItemEffect DEF TypeOK, Depth, Grown
  <2>6. Suspended'
    BY <1>6, <2>1, KeepItemEffect DEF Suspended, Depth
  <2> QED BY <2>2, <2>5, <2>6
<1>7. CASE ReturnNested
  <2>1. at <= Len(submission) /\ Depth <= Len(submission[at]) /\ Len(submission[at]) \in Nat /\ stack # <<>>
    BY <1>7, ReturnNestedEffect, LevelType DEF Depth
  <2>2. Typed'
    BY <1>7, ReturnNestedEffect DEF Typed, Grown
  <2>3. \A k \in DOMAIN stack' : stack'[k].found \subseteq DOMAIN inputs'
    <3>1. Caller.found \subseteq DOMAIN inputs
      BY <1>7, ReturnNestedEffect DEF Caller, TypeOK
    <3>2. ASSUME NEW k \in DOMAIN stack' PROVE stack'[k].found \subseteq DOMAIN inputs'
      <4>0. Depth \in Nat /\ DOMAIN stack' = 1 .. Depth - 1 /\ DOMAIN stack = 1 .. Depth
        BY <1>7, ReturnNestedEffect
      <4>1. CASE k = Depth - 1
        BY <1>7, <3>1, <4>1, ReturnNestedEffect DEF Grown
      <4>2. CASE k \in 1 .. Depth - 2
        <5>1. stack'[k] = stack[k] /\ k \in DOMAIN stack
          BY <1>7, <4>0, <4>2, ReturnNestedEffect
        <5>2. DOMAIN inputs \subseteq DOMAIN inputs'
          BY <1>7, ReturnNestedEffect DEF Grown
        <5> QED BY <5>1, <5>2 DEF TypeOK
      <4> QED BY <3>2, <4>0, <4>1, <4>2
    <3> QED BY <3>2
  <2>4. \A k \in DOMAIN inputs' : inputs'[k].value \in Items
    <3>1. \A k \in DOMAIN inputs' : inputs'[k] \in Input
      BY <2>2 DEF Typed
    <3> QED BY <3>1 DEF Input
  <2>5. TypeOK'
    <3>1. Depth' <= Len(submission[at])
      BY <1>7, <2>1, ReturnNestedEffect DEF Depth
    <3> QED BY <1>7, <2>1, <2>3, <2>4, <3>1, ReturnNestedEffect DEF TypeOK, Grown
  <2>6. Suspended'
    BY <1>7, ReturnNestedEffect DEF Suspended, Depth
  <2> QED BY <2>2, <2>5, <2>6
<1>8. CASE ReturnMap
  <2>1. /\ at' = at + 1 /\ stack' = <<>> /\ returned' = returned \cup Top.found
        /\ UNCHANGED <<definition, submission, inputs, outcome>>
    BY <1>8 DEF ReturnMap
  <2>2. stack # <<>> /\ at \in 1 .. Len(submission) /\ Depth \in DOMAIN stack
    <3>1. stack \in Seq(Frame) /\ Len(stack) = 1 /\ Depth = 1
      BY <1>8 DEF ReturnMap, Depth, Typed
    <3>2. stack # <<>> /\ Depth \in DOMAIN stack
      BY <3>1
    <3> QED BY <3>2, LevelType
  <2>3. Top.found \subseteq DOMAIN inputs /\ Top.found \in SUBSET Nat
    BY <2>2 DEF TypeOK, Typed, Top
  <2>4. Typed'
    <3>1. at' \in Nat \ {0}
      BY <2>1 DEF Typed
    <3>2. stack' \in Seq(Frame)
      BY <2>1
    <3>3. returned \in SUBSET Nat
      BY DEF Typed
    <3>4. returned' \in SUBSET Nat
      BY <2>1, <2>3, <3>3
    <3> QED BY <2>1, <3>1, <3>2, <3>4 DEF Typed
  <2>5. at' <= Len(submission) => Len(submission[at']) \in Nat
    BY <2>1, <2>2 DEF Typed
  <2>6. TypeOK'
    <3>1. Len(submission) \in Nat /\ at' \in 1 .. Len(submission) + 1
      BY <2>1, <2>2 DEF Typed
    <3>2. Depth' = 0 /\ DOMAIN stack' = {}
      BY <2>1 DEF Depth
    <3>3. returned' \subseteq DOMAIN inputs
      BY <2>1, <2>3 DEF TypeOK
    <3> QED BY <2>1, <2>5, <3>1, <3>2, <3>3 DEF TypeOK
  <2>7. Suspended'
    BY <2>1 DEF Suspended
  <2> QED BY <2>4, <2>6, <2>7
<1>9. CASE Validate
  BY <1>9, VerdictType DEF Validate, Typed, TypeOK, Suspended, Depth, Outcomes
<1> QED BY <1>1, <1>2, <1>3, <1>4, <1>5, <1>6, <1>7, <1>8, <1>9 DEF Next

\* The stack follows path_nested (find_inputs_with) and is empty between
\* descriptor maps; an index that is held is the index of an input.
THEOREM TypeCorrect == Spec => []TypeOK
<1>1. Inv => TypeOK
  BY DEF Inv
<1> QED BY <1>1, TypesInit, TypesStep, PTL DEF Spec

----------------------------------------------------------------------------
(* The forest of inputs *)

Found(k) == stack[k].found

Filed ==
  \A i \in DOMAIN inputs : \A d \in DOMAIN inputs[i].nested : \A j \in inputs[i].nested[d] :
    j < i /\ inputs[j].descriptor = d

Within == \A i \in DOMAIN inputs : Nested(i) \subseteq DOMAIN inputs

Covered ==
  \A j \in DOMAIN inputs :
    \/ \E i \in DOMAIN inputs : j \in Nested(i)
    \/ \E k \in DOMAIN stack : j \in Found(k)
    \/ j \in returned

Apart ==
  /\ \A i, l \in DOMAIN inputs : i # l => Nested(i) \cap Nested(l) = {}
  /\ \A k, l \in DOMAIN stack : k # l => Found(k) \cap Found(l) = {}
  /\ \A i \in DOMAIN inputs, k \in DOMAIN stack : Nested(i) \cap Found(k) = {}
  /\ \A i \in DOMAIN inputs : Nested(i) \cap returned = {}
  /\ \A k \in DOMAIN stack : Found(k) \cap returned = {}

Forest == Filed /\ Within /\ Covered /\ Apart

LEMMA ForestIsForest == Inv /\ Forest => InputsFormAForest
<1> SUFFICES ASSUME Inv, Forest PROVE InputsFormAForest
  OBVIOUS
<1>1. /\ \A i \in DOMAIN inputs : At(<<"input", i>>) = Nested(i)
      /\ \A k \in DOMAIN stack : At(<<"frame", k>>) = Found(k)
      /\ At(<<"maps", 0>>) = returned
  BY DEF At, Found
<1>2. \A p \in Places :
        \/ \E i \in DOMAIN inputs : p = <<"input", i>>
        \/ \E k \in DOMAIN stack : p = <<"frame", k>>
        \/ p = <<"maps", 0>>
  BY DEF Places
<1>3. /\ \A i \in DOMAIN inputs : <<"input", i>> \in Places
      /\ \A k \in DOMAIN stack : <<"frame", k>> \in Places
      /\ <<"maps", 0>> \in Places
  BY DEF Places
<1>4. \A p \in Places : At(p) \subseteq DOMAIN inputs
  BY <1>1, <1>2 DEF Forest, Within, Inv, TypeOK, Found
<1>5. \A j \in DOMAIN inputs : \E p \in Places : j \in At(p)
  BY <1>1, <1>3 DEF Forest, Covered
<1>6. UNION {At(p) : p \in Places} = DOMAIN inputs
  BY <1>4, <1>5
<1>7. ASSUME NEW p \in Places, NEW q \in Places, p # q PROVE At(p) \cap At(q) = {}
  BY <1>1, <1>2, <1>7 DEF Forest, Apart
<1> QED BY <1>6, <1>7 DEF InputsFormAForest, Forest, Filed

\* Steps that only push an empty frame, drop an item or end.
LEMMA ForestUndisturbed ==
  ASSUME Forest, UNCHANGED <<inputs, returned>>, DOMAIN stack \subseteq DOMAIN stack',
         \A k \in DOMAIN stack : stack'[k].found = stack[k].found,
         \A k \in DOMAIN stack' \ DOMAIN stack : stack'[k].found = {}
  PROVE  Forest'
<1>1. \A i : Nested(i)' = Nested(i)
  BY DEF Nested
<1>2. \A k \in DOMAIN stack : Found(k)' = Found(k)
  BY DEF Found
<1>3. \A k \in DOMAIN stack' \ DOMAIN stack : Found(k)' = {}
  BY DEF Found
<1>4. Filed' /\ Within'
  BY <1>1 DEF Forest, Filed, Within
<1>5. Covered'
  BY <1>1, <1>2 DEF Forest, Covered
<1>6. Apart'
  BY <1>1, <1>2, <1>3 DEF Forest, Apart
<1> QED BY <1>4, <1>5, <1>6 DEF Forest

\* A call that starts, from find_inputs or from the level above.
LEMMA EnterKeepsForest ==
  ASSUME Inv, Forest, NEW value, NEW level, Enter(value, level)
  PROVE  Forest'
<1> DEFINE new == [items |-> Query[value][level.path], found |-> {}]
<1>1. CASE EnterError(level) # "pending"
  BY <1>1, ForestUndisturbed DEF Enter, Fails
<1>2. CASE EnterError(level) = "pending"
  <2>1. stack' = Append(stack, new) /\ UNCHANGED <<inputs, returned>>
    BY <1>2 DEF Enter
  <2>2. DOMAIN stack' = DOMAIN stack \cup {Len(stack) + 1}
    BY <2>1 DEF Inv, Typed
  <2>3. \A k \in DOMAIN stack : stack'[k] = stack[k]
    BY <2>1 DEF Inv, Typed
  <2>4. stack'[Len(stack) + 1] = new
    BY <2>1 DEF Inv, Typed
  <2> QED BY <2>1, <2>2, <2>3, <2>4, ForestUndisturbed
<1> QED BY <1>1, <1>2

\* The entries of the inputs that were there are what they were.
LEMMA GrownKeepsEntries ==
  ASSUME Forest, NEW x, Grown(x)
  PROVE  /\ \A i \in DOMAIN inputs : Nested(i)' = Nested(i)
         /\ \A n : n = Len(inputs) + 1 => Nested(n)' = UNION {x.nested[d] : d \in DOMAIN x.nested}
         /\ \A i \in DOMAIN inputs : \A d \in DOMAIN inputs'[i].nested :
              \A j \in inputs'[i].nested[d] : j < i /\ inputs'[j].descriptor = d
<1>1. \A i \in DOMAIN inputs : inputs'[i] = inputs[i]
  BY DEF Grown
<1>2. \A i \in DOMAIN inputs : Nested(i)' = Nested(i)
  BY <1>1 DEF Nested
<1>3. ASSUME NEW n, n = Len(inputs) + 1
      PROVE  Nested(n)' = UNION {x.nested[d] : d \in DOMAIN x.nested}
  <2>1. inputs'[n] = x
    BY <1>3 DEF Grown
  <2> QED BY <2>1 DEF Nested
<1>4. \A i \in DOMAIN inputs : \A d \in DOMAIN inputs[i].nested : inputs[i].nested[d] \subseteq DOMAIN inputs
  BY DEF Forest, Within, Nested
<1>5. ASSUME NEW i \in DOMAIN inputs, NEW d \in DOMAIN inputs'[i].nested, NEW j \in inputs'[i].nested[d]
      PROVE  j < i /\ inputs'[j].descriptor = d
  BY <1>1, <1>4, <1>5 DEF Forest, Filed
<1> QED BY <1>2, <1>3, <1>5

LEMMA KeepItemKeepsForest == Inv /\ Forest /\ KeepItem => Forest'
<1> SUFFICES ASSUME Inv, Forest, KeepItem PROVE Forest'
  OBVIOUS
<1> DEFINE x == DecodedInput(Level, Item, {})
<1> PICK n : n = Len(inputs) + 1
  OBVIOUS
<1> PICK top : top = Depth
  OBVIOUS
<1>1. DOMAIN x.nested = {}
  BY DEF DecodedInput, GroupByInputDescriptor
<1>2. Grown(x) /\ DOMAIN inputs' = DOMAIN inputs \cup {n} /\ n \notin DOMAIN inputs /\ inputs'[n] = x
  BY KeepItemEffect DEF Grown
<1>3. (\A i \in DOMAIN inputs : Nested(i)' = Nested(i)) /\ Nested(n)' = {}
  BY <1>1, <1>2, GrownKeepsEntries
<1>4. DOMAIN stack' = DOMAIN stack /\ top \in DOMAIN stack /\ returned' = returned
  BY KeepItemEffect
<1>5. (\A k \in DOMAIN stack : k # top => Found(k)' = Found(k)) /\ Found(top)' = Found(top) \cup {n}
  BY KeepItemEffect DEF Found, Top
<1>6. /\ \A i \in DOMAIN inputs : Nested(i) \subseteq DOMAIN inputs
      /\ \A k \in DOMAIN stack : Found(k) \subseteq DOMAIN inputs
      /\ returned \subseteq DOMAIN inputs
  BY DEF Inv, TypeOK, Forest, Within, Found
<1>7. Filed'
  BY <1>1, <1>2, GrownKeepsEntries DEF Filed
<1>8. Within'
  BY <1>2, <1>3, <1>6 DEF Within
<1>9. Covered'
  BY <1>2, <1>3, <1>4, <1>5 DEF Forest, Covered
<1>10. Apart'
  BY <1>2, <1>3, <1>4, <1>5, <1>6 DEF Forest, Apart
<1> QED BY <1>7, <1>8, <1>9, <1>10 DEF Forest

LEMMA ReturnNestedKeepsForest == Inv /\ Forest /\ ReturnNested => Forest'
<1> SUFFICES ASSUME Inv, Forest, ReturnNested PROVE Forest'
  OBVIOUS
<1> PICK n : n = Len(inputs) + 1
  OBVIOUS
<1> PICK top : top = Depth
  OBVIOUS
<1>1. /\ top \in Nat /\ top > 1 /\ DOMAIN stack = 1 .. top /\ DOMAIN stack' = 1 .. top - 1
      /\ returned' = returned /\ Top.found = Found(top) /\ Caller.found = Found(top - 1)
  BY ReturnNestedEffect DEF Found, Top, Caller
<1>2. /\ \A k \in 1 .. top - 2 : Found(k)' = Found(k)
      /\ Found(top - 1)' = Found(top - 1) \cup IF Found(top) = {} THEN {} ELSE {n}
  BY <1>1, ReturnNestedEffect DEF Found, Depth
<1>3. CASE Found(top) = {}
  <2>1. UNCHANGED inputs /\ \A k \in DOMAIN stack' : Found(k)' = Found(k)
    BY <1>1, <1>2, <1>3, ReturnNestedEffect
  <2>2. \A i : Nested(i)' = Nested(i)
    BY <2>1 DEF Nested
  <2>3. Filed' /\ Within'
    BY <2>1, <2>2 DEF Forest, Filed, Within
  <2>4. Covered'
    BY <1>1, <1>3, <2>1, <2>2 DEF Forest, Covered
  <2>5. Apart'
    BY <1>1, <2>1, <2>2 DEF Forest, Apart
  <2> QED BY <2>3, <2>4, <2>5 DEF Forest
<1>4. CASE Found(top) # {}
  <2>1. /\ Grown(Parent) /\ DOMAIN inputs' = DOMAIN inputs \cup {n}
        /\ n \notin DOMAIN inputs /\ inputs'[n] = Parent /\ DOMAIN inputs = 1 .. Len(inputs) /\ Len(inputs) \in Nat
    BY <1>1, <1>4, ReturnNestedEffect DEF Grown, Inv, Typed
  <2>2. Parent.nested = GroupByInputDescriptor(inputs, Top.found) /\ Top.found \in SUBSET DOMAIN inputs
    BY ReturnNestedEffect DEF Parent, DecodedInput
  <2>3. /\ \A d \in DOMAIN Parent.nested : \A j \in Parent.nested[d] : j \in Top.found /\ inputs[j].descriptor = d
        /\ UNION {Parent.nested[d] : d \in DOMAIN Parent.nested} = Top.found
    BY <2>2, GroupingIsExact DEF Inv
  <2>4. (\A i \in DOMAIN inputs : Nested(i)' = Nested(i)) /\ Nested(n)' = Found(top)
    <3>1. /\ \A i \in DOMAIN inputs : Nested(i)' = Nested(i)
          /\ Nested(n)' = UNION {Parent.nested[d] : d \in DOMAIN Parent.nested}
      BY <2>1, GrownKeepsEntries
    <3> QED BY <1>1, <2>3, <3>1
  <2>5. /\ \A i \in DOMAIN inputs : Nested(i) \subseteq DOMAIN inputs
        /\ \A k \in DOMAIN stack : Found(k) \subseteq DOMAIN inputs
        /\ returned \subseteq DOMAIN inputs
    BY DEF Inv, TypeOK, Forest, Within, Found
  <2>6. Found(top - 1)' = Found(top - 1) \cup {n}
    BY <1>2, <1>4
  <2>7. Filed'
    <3>1. \A j \in Top.found : j < n /\ inputs'[j] = inputs[j]
      BY <2>1, <2>2 DEF Grown
    <3>2. \A d \in DOMAIN Parent.nested : \A j \in Parent.nested[d] : j < n /\ inputs'[j].descriptor = d
      BY <2>3, <3>1
    <3> QED BY <2>1, <3>2, GrownKeepsEntries DEF Filed
  <2>8. Within'
    BY <1>1, <2>1, <2>4, <2>5 DEF Within
  <2>9. Covered'
    <3> SUFFICES ASSUME NEW j \in DOMAIN inputs'
                 PROVE  \/ \E i \in DOMAIN inputs' : j \in Nested(i)'
                        \/ \E k \in DOMAIN stack' : j \in Found(k)'
                        \/ j \in returned'
      BY DEF Covered
    <3>1. CASE j = n
      BY <1>1, <2>6, <3>1
    <3>2. CASE \E i \in DOMAIN inputs : j \in Nested(i)
      BY <2>1, <2>4, <3>2
    <3>3. CASE j \in Found(top)
      BY <2>1, <2>4, <3>3
    <3>4. CASE \E k \in 1 .. top - 1 : j \in Found(k)
      <4>1. \A k \in 1 .. top - 1 : Found(k) \subseteq Found(k)'
        BY <1>1, <1>2, <2>6
      <4> QED BY <1>1, <3>4, <4>1
    <3>5. CASE j \in returned
      BY <1>1, <3>5
    <3> QED BY <1>1, <2>1, <3>1, <3>2, <3>3, <3>4, <3>5 DEF Forest, Covered
  <2>10. Apart'
    <3>1. \A k \in DOMAIN stack' : Found(k)' = Found(k) \/ (k = top - 1 /\ Found(k)' = Found(k) \cup {n})
      BY <1>1, <1>2, <2>6
    <3>2. \A i \in DOMAIN inputs' : i # n => i \in DOMAIN inputs
      BY <2>1
    <3>3. \A i, l \in DOMAIN inputs' : i # l => Nested(i)' \cap Nested(l)' = {}
      BY <1>1, <2>4, <3>2 DEF Forest, Apart
    <3>4. \A k, l \in DOMAIN stack' : k # l => Found(k)' \cap Found(l)' = {}
      BY <1>1, <2>1, <2>5, <3>1 DEF Forest, Apart
    <3>5. \A i \in DOMAIN inputs', k \in DOMAIN stack' : Nested(i)' \cap Found(k)' = {}
      BY <1>1, <2>1, <2>4, <2>5, <3>1, <3>2 DEF Forest, Apart
    <3>6. \A i \in DOMAIN inputs' : Nested(i)' \cap returned' = {}
      BY <1>1, <2>4, <3>2 DEF Forest, Apart
    <3>7. \A k \in DOMAIN stack' : Found(k)' \cap returned' = {}
      BY <1>1, <2>1, <2>5, <3>1 DEF Forest, Apart
    <3> QED BY <3>3, <3>4, <3>5, <3>6, <3>7 DEF Apart
  <2> QED BY <2>7, <2>8, <2>9, <2>10 DEF Forest
<1> QED BY <1>3, <1>4

LEMMA ReturnMapKeepsForest == Inv /\ Forest /\ ReturnMap => Forest'
<1> SUFFICES ASSUME Inv, Forest, ReturnMap PROVE Forest'
  OBVIOUS
<1>1. DOMAIN stack = {1} /\ Top.found = Found(1)
  BY DEF Inv, Typed, ReturnMap, Depth, Top, Found
<1>2. returned' = returned \cup Found(1) /\ DOMAIN stack' = {} /\ UNCHANGED inputs
  BY <1>1 DEF ReturnMap
<1>3. \A i : Nested(i)' = Nested(i)
  BY <1>2 DEF Nested
<1>4. Filed' /\ Within'
  BY <1>2, <1>3 DEF Forest, Filed, Within
<1>5. Covered'
  BY <1>1, <1>2, <1>3 DEF Forest, Covered
<1>6. Apart'
  BY <1>1, <1>2, <1>3 DEF Forest, Apart
<1> QED BY <1>4, <1>5, <1>6 DEF Forest

LEMMA ForestInit == Init => Forest
<1> SUFFICES ASSUME Init PROVE Forest
  OBVIOUS
<1>1. DOMAIN inputs = {} /\ DOMAIN stack = {}
  BY DEF Init
<1> QED BY <1>1 DEF Forest, Filed, Within, Covered, Apart

LEMMA ForestStep == Inv /\ Forest /\ [Next]_vars => Forest'
<1> SUFFICES ASSUME Inv, Forest, [Next]_vars PROVE Forest'
  OBVIOUS
<1>1. CASE UNCHANGED vars
  BY <1>1, ForestUndisturbed DEF vars
<1>2. CASE StartMap
  BY <1>2, EnterKeepsForest DEF StartMap
<1>3. CASE ItemFails
  BY <1>3, ForestUndisturbed DEF ItemFails, Fails
<1>4. CASE SkipItem
  <2>1. stack # <<>> /\ Top.items # <<>>
    BY <1>4 DEF SkipItem, AtItem
  <2>2. stack' = [stack EXCEPT ![Depth] = After(Top, {})] /\ UNCHANGED <<inputs, returned>>
    BY <1>4 DEF SkipItem, Top
  <2>3. After(Top, {}).found = Top.found
    BY DEF After
  <2>4. DOMAIN stack' = DOMAIN stack /\ \A k \in DOMAIN stack : stack'[k].found = stack[k].found
    BY <2>2, <2>3 DEF Inv, Typed, Top
  <2> QED BY <2>2, <2>4, ForestUndisturbed
<1>5. CASE Descend
  BY <1>5, EnterKeepsForest DEF Descend
<1>6. CASE KeepItem
  BY <1>6, KeepItemKeepsForest
<1>7. CASE ReturnNested
  BY <1>7, ReturnNestedKeepsForest
<1>8. CASE ReturnMap
  BY <1>8, ReturnMapKeepsForest
<1>9. CASE Validate
  BY <1>9, ForestUndisturbed DEF Validate
<1> QED BY <1>1, <1>2, <1>3, <1>4, <1>5, <1>6, <1>7, <1>8, <1>9 DEF Next

\* Whatever find_inputs_with skips after having searched nested levels, no
\* input is lost, left behind or referred to twice.
THEOREM InputsAreAForest == Spec => []InputsFormAForest
<1>1. Init => Inv /\ Forest
  BY TypesInit, ForestInit
<1>2. Inv /\ Forest /\ [Next]_vars => (Inv /\ Forest)'
  BY TypesStep, ForestStep
<1> QED BY <1>1, <1>2, ForestIsForest, PTL DEF Spec

----------------------------------------------------------------------------
(* What acceptance means *)

\* An item that may be kept for the descriptor id.
Suits(id, format, item) ==
  /\ DescriptorIndices(id) # {}
  /\ FormatAllowed(Descriptor(id), format)
  /\ Decoding[item] # "invalid"
  /\ ConstraintsMatch(Descriptor(id), item)

InputsSuit ==
  \A i \in DOMAIN inputs : Suits(inputs[i].descriptor, inputs[i].format, inputs[i].value)

\* The levels on the stack have been entered, and the items at work below the
\* top have passed the checks of their levels.
FramesSuit ==
  \A k \in DOMAIN stack :
    /\ EnterError(submission[at][k]) = "pending"
    /\ k < Depth => Suits(submission[at][k].id, submission[at][k].format, Head(stack[k].items))

VerdictHolds == outcome = "accepted" => "accepted" \in ValidationVerdict

Sound == InputsSuit /\ FramesSuit /\ VerdictHolds

\* What an accepting verdict has checked.
LEMMA AcceptingVerdict ==
  ASSUME "accepted" \in ValidationVerdict, NEW k \in DOMAIN definition.descriptors
  PROVE  \/ /\ definition.requirements # None
            /\ \A l \in DOMAIN definition.requirements :
                 LET r == definition.requirements[l] IN
                 r.rule = "all" => r.from \notin definition.descriptors[k].groups
         \/ \E i \in DOMAIN inputs : inputs[i].descriptor = definition.descriptors[k].id
<1> DEFINE id == definition.descriptors[k].id
<1>1. id \in DOMAIN ByDescriptor => \E i \in DOMAIN inputs : inputs[i].descriptor = id
  BY DEF ByDescriptor, GroupByInputDescriptor
<1>2. CASE definition.requirements = None
  BY <1>1, <1>2 DEF ValidationVerdict, MissingDescriptor
<1>3. CASE definition.requirements # None
  <2>1. \A l \in DOMAIN definition.requirements : GroupVerdict(definition.requirements[l]) = "accepted"
    BY <1>3 DEF ValidationVerdict, Faulty
  <2>2. ASSUME NEW l \in DOMAIN definition.requirements, definition.requirements[l].rule = "all",
               definition.requirements[l].from \in definition.descriptors[k].groups
        PROVE  id \in DOMAIN ByDescriptor
    <3>1. InGroup(definition.requirements[l].from) \subseteq DOMAIN ByDescriptor
      BY <2>1, <2>2 DEF GroupVerdict
    <3>2. id \in InGroup(definition.requirements[l].from)
      BY <2>2 DEF InGroup
    <3> QED BY <3>1, <3>2
  <2> QED BY <1>1, <1>3, <2>2
<1> QED BY <1>2, <1>3

LEMMA SoundIsSatisfied == Inv /\ Sound => AcceptedSatisfiesDefinition
<1> SUFFICES ASSUME Inv, Sound, outcome = "accepted", NEW k \in DOMAIN definition.descriptors
             PROVE  LET d == definition.descriptors[k] IN
                    \/ /\ definition.requirements # None
                       /\ \A l \in DOMAIN definition.requirements :
                            LET r == definition.requirements[l] IN
                            r.rule = "all" => r.from \notin d.groups
                    \/ \E i \in DOMAIN inputs :
                         /\ inputs[i].descriptor = d.id /\ Decoding[inputs[i].value] # "invalid"
                         /\ {f.name : f \in {g \in Descriptor(d.id).fields : ~g.optional}}
                              \subseteq Holds[inputs[i].value]
                         /\ FormatAllowed(Descriptor(d.id), inputs[i].format)
  BY DEF AcceptedSatisfiesDefinition
<1>1. "accepted" \in ValidationVerdict
  BY DEF Sound, VerdictHolds
<1>2. ASSUME NEW i \in DOMAIN inputs
      PROVE  /\ Decoding[inputs[i].value] # "invalid"
             /\ {f.name : f \in {g \in Descriptor(inputs[i].descriptor).fields : ~g.optional}}
                  \subseteq Holds[inputs[i].value]
             /\ FormatAllowed(Descriptor(inputs[i].descriptor), inputs[i].format)
  BY <1>2 DEF Sound, InputsSuit, Suits, ConstraintsMatch
<1> QED BY <1>1, <1>2, AcceptingVerdict

\* The definition does not change, nor does what it says of an id.
LEMMA DefinitionStays ==
  ASSUME UNCHANGED definition
  PROVE  /\ \A id, format, item : Suits(id, format, item)' = Suits(id, format, item)
         /\ \A level : EnterError(level)' = EnterError(level)
<1>1. \A id : DescriptorIndices(id)' = DescriptorIndices(id)
  BY DEF DescriptorIndices
<1>2. \A id : Descriptor(id)' = Descriptor(id)
  BY <1>1 DEF Descriptor
<1>3. \A d, format : FormatAllowed(d, format)' = FormatAllowed(d, format)
  BY DEF FormatAllowed
<1>4. \A id, format, item : Suits(id, format, item)' = Suits(id, format, item)
  BY <1>1, <1>2, <1>3 DEF Suits
<1>5. \A level : EnterError(level)' = EnterError(level)
  BY <1>1, <1>2, <1>3 DEF EnterError
<1> QED BY <1>4, <1>5

\* An item that passes the checks of a level that was entered suits it.
LEMMA MatchingSuits ==
  ASSUME Inv, FramesSuit, Matching
  PROVE  Suits(Level.id, Level.format, Item)
<1>1. stack # <<>> /\ Decoding[Item] # "invalid" /\ ConstraintsMatch(Descriptor(Level.id), Item)
  BY DEF Matching, AtItem, ItemError
<1>2. EnterError(Level) = "pending"
  BY <1>1, TopType DEF FramesSuit, Level
<1>3. DescriptorIndices(Level.id) # {} /\ FormatAllowed(Descriptor(Level.id), Level.format)
  BY <1>2 DEF EnterError
<1> QED BY <1>1, <1>3 DEF Suits

LEMMA SoundInit == Init => Sound
  BY DEF Init, Sound, InputsSuit, FramesSuit, VerdictHolds

\* A call that starts, below an item that suits the level above.
LEMMA EnterKeepsSound ==
  ASSUME Inv, Sound, NEW value, Enter(value, submission[at][Depth + 1]), outcome = "pending",
         stack # <<>> => Suits(Level.id, Level.format, Item)
  PROVE  Sound'
<1> DEFINE level == submission[at][Depth + 1]
           new == [items |-> Query[value][level.path], found |-> {}]
<1>1. CASE EnterError(level) # "pending"
  <2>1. /\ outcome' = EnterError(level) /\ outcome' # "accepted"
        /\ UNCHANGED <<definition, submission, at, stack, inputs>>
    BY <1>1 DEF Enter, Fails, EnterError
  <2> QED BY <2>1, DefinitionStays DEF Sound, InputsSuit, FramesSuit, VerdictHolds, Depth
<1>2. CASE EnterError(level) = "pending"
  <2>1. stack' = Append(stack, new) /\ UNCHANGED <<definition, submission, at, inputs, outcome>>
    BY <1>2 DEF Enter
  <2>2. /\ Depth \in Nat /\ Depth' = Depth + 1 /\ DOMAIN stack = 1 .. Depth /\ DOMAIN stack' = 1 .. Depth + 1
        /\ \A k \in 1 .. Depth : stack'[k] = stack[k]
    BY <2>1 DEF Inv, Typed, Depth
  <2>3. FramesSuit'
    <3>0. /\ \A l : EnterError(l)' = EnterError(l)
          /\ \A id, format, item : Suits(id, format, item)' = Suits(id, format, item)
      BY <2>1, DefinitionStays
    <3> SUFFICES ASSUME NEW k \in 1 .. Depth + 1
                 PROVE  /\ EnterError(submission[at][k]) = "pending"
                        /\ k < Depth + 1 =>
                             Suits(submission[at][k].id, submission[at][k].format, Head(stack'[k].items))
      BY <2>1, <2>2, <3>0 DEF FramesSuit
    <3>1. CASE k = Depth + 1
      <4>1. ~(k < Depth + 1)
        BY <2>2, <3>1
      <4> QED BY <1>2, <3>1, <4>1
    <3>2. CASE k = Depth
      BY <2>2, <3>2 DEF Sound, FramesSuit, Level, Item, Top
    <3>3. CASE k < Depth
      BY <2>2, <3>3 DEF Sound, FramesSuit
    <3> QED BY <2>2, <3>1, <3>2, <3>3
  <2>4. InputsSuit' /\ VerdictHolds'
    BY <2>1, DefinitionStays DEF Sound, InputsSuit, VerdictHolds
  <2> QED BY <2>3, <2>4 DEF Sound
<1> QED BY <1>1, <1>2

\* The verdict is about the definition and the inputs, and about nothing else.
LEMMA VerdictStays ==
  ASSUME UNCHANGED <<definition, inputs>>
  PROVE  ValidationVerdict' = ValidationVerdict
<1>1. ByDescriptor' = ByDescriptor
  BY DEF ByDescriptor, GroupByInputDescriptor
<1>2. \A group : InGroup(group)' = InGroup(group)
  BY DEF InGroup
<1>3. \A r : GroupVerdict(r)' = GroupVerdict(r)
  BY <1>1, <1>2 DEF GroupVerdict
<1>4. \A k : Faulty(k)' <=> Faulty(k)
  BY <1>3 DEF Faulty
<1>5. MissingDescriptor' <=> MissingDescriptor
  BY <1>1 DEF MissingDescriptor
<1> QED BY <1>3, <1>4, <1>5 DEF ValidationVerdict

LEMMA SoundStep == Inv /\ Sound /\ [Next]_vars => Sound'
<1> SUFFICES ASSUME Inv, Sound, [Next]_vars PROVE Sound'
  OBVIOUS
<1> USE DEF Sound
<1>1. CASE UNCHANGED vars
  <2>1. ValidationVerdict' = ValidationVerdict
    BY <1>1, VerdictStays DEF vars
  <2> QED BY <1>1, <2>1, DefinitionStays DEF vars, InputsSuit, FramesSuit, VerdictHolds, Depth
<1>2. CASE StartMap
  <2>1. stack = <<>> /\ Depth = 0 /\ outcome = "pending" /\ Enter(Root, submission[at][1])
    BY <1>2 DEF StartMap, Depth
  <2> QED BY <2>1, EnterKeepsSound
<1>3. CASE ItemFails
  <2>1. UNCHANGED <<definition, submission, at, stack, inputs>> /\ outcome' # "accepted"
    BY <1>3 DEF ItemFails, Fails, ItemError
  <2> QED BY <2>1, DefinitionStays DEF InputsSuit, FramesSuit, VerdictHolds, Depth
<1>4. CASE SkipItem
  <2>1. /\ UNCHANGED <<definition, submission, at, inputs, outcome>> /\ outcome = "pending"
        /\ stack # <<>> /\ stack' = [stack EXCEPT ![Depth] = After(Top, {})]
    BY <1>4 DEF SkipItem, AtItem, Top
  <2>2. DOMAIN stack' = DOMAIN stack /\ Depth' = Depth /\ \A k \in DOMAIN stack : k < Depth => stack'[k] = stack[k]
    BY <2>1, TypesStep DEF Inv, Typed, Depth
  <2> QED BY <2>1, <2>2, DefinitionStays DEF InputsSuit, FramesSuit, VerdictHolds
<1>5. CASE Descend
  BY <1>5, MatchingSuits, EnterKeepsSound DEF Descend, Matching, AtItem
<1>6. CASE KeepItem
  <2>1. Suits(Level.id, Level.format, Item) /\ outcome = "pending"
    BY <1>6, MatchingSuits DEF KeepItem, Matching, AtItem
  <2>2. Grown(DecodedInput(Level, Item, {}))
    BY <1>6, KeepItemEffect
  <2>3. \A i \in DOMAIN inputs' : Suits(inputs'[i].descriptor, inputs'[i].format, inputs'[i].value)
    BY <2>1, <2>2 DEF Grown, DecodedInput, InputsSuit
  <2>4. InputsSuit' /\ VerdictHolds'
    BY <1>6, <2>1, <2>3, KeepItemEffect, DefinitionStays DEF InputsSuit, VerdictHolds
  <2>5. FramesSuit'
    BY <1>6, KeepItemEffect, DefinitionStays DEF FramesSuit, Depth
  <2> QED BY <2>4, <2>5
<1>7. CASE ReturnNested
  <2>1. Suits(submission[at][Depth - 1].id, submission[at][Depth - 1].format, Head(Caller.items))
    BY <1>7, ReturnNestedEffect DEF FramesSuit, Caller
  <2>2. \A i \in DOMAIN inputs' : Suits(inputs'[i].descriptor, inputs'[i].format, inputs'[i].value)
    <3>1. CASE Top.found = {}
      BY <1>7, <3>1, ReturnNestedEffect DEF InputsSuit
    <3>2. CASE Top.found # {}
      <4>1. Grown(Parent)
        BY <1>7, <3>2, ReturnNestedEffect
      <4> QED BY <2>1, <4>1 DEF Grown, Parent, DecodedInput, InputsSuit
    <3> QED BY <3>1, <3>2
  <2>3. outcome = "pending"
    BY <1>7 DEF ReturnNested, Returning
  <2>4. InputsSuit' /\ VerdictHolds'
    BY <1>7, <2>2, <2>3, ReturnNestedEffect, DefinitionStays DEF InputsSuit, VerdictHolds
  <2>5. FramesSuit'
    BY <1>7, ReturnNestedEffect, DefinitionStays DEF FramesSuit, Depth
  <2> QED BY <2>4, <2>5
<1>8. CASE ReturnMap
  <2>1. /\ UNCHANGED <<definition, submission, inputs, outcome>> /\ outcome = "pending"
        /\ DOMAIN stack' = {}
    BY <1>8 DEF ReturnMap
  <2> QED BY <2>1, DefinitionStays DEF InputsSuit, FramesSuit, VerdictHolds
<1>9. CASE Validate
  <2>1. outcome' \in ValidationVerdict /\ UNCHANGED <<definition, submission, at, stack, inputs>>
    BY <1>9 DEF Validate
  <2>2. ValidationVerdict' = ValidationVerdict
    BY <2>1, VerdictStays
  <2> QED BY <2>1, <2>2, DefinitionStays DEF InputsSuit, FramesSuit, VerdictHolds, Depth
<1> QED BY <1>1, <1>2, <1>3, <1>4, <1>5, <1>6, <1>7, <1>8, <1>9 DEF Next

\* find_and_validate_inputs accepts only what satisfies the definition.
THEOREM AcceptanceIsSound == Spec => []AcceptedSatisfiesDefinition
<1>1. Init => Inv /\ Sound
  BY TypesInit, SoundInit
<1>2. Inv /\ Sound /\ [Next]_vars => (Inv /\ Sound)'
  BY TypesStep, SoundStep
<1> QED BY <1>1, <1>2, SoundIsSatisfied, PTL DEF Spec

----------------------------------------------------------------------------
(* The search ends *)

\* What SearchMovesForward asks of a step.
Forward ==
  \/ outcome' # "pending"
  \/ at' = at + 1 /\ at <= Len(submission)
  \/ /\ at' = at /\ Len(stack') <= Len(submission[at])
     /\ \E k \in DOMAIN stack' :
          /\ \A j \in 1 .. k - 1 : j \in DOMAIN stack /\ Left(j)' = Left(j)
          /\ k \in DOMAIN stack => Left(k)' < Left(k)

\* A step that is done with an item at level k and leaves the levels above
\* alone takes the search forward, whatever becomes of the levels below.
LEMMA ItemDoneIsForward ==
  ASSUME Inv, stack # <<>>, at' = at, NEW k \in DOMAIN stack, NEW new,
         stack[k].items # <<>>, Len(stack') = k, DOMAIN stack' = 1 .. k,
         stack'[k] = After(stack[k], new),
         \A j \in 1 .. k - 1 : stack'[j] = stack[j]
  PROVE  Forward
<1>1. /\ k \in 1 .. Len(submission[at]) /\ DOMAIN stack = 1 .. Len(stack)
      /\ stack[k] \in Frame /\ Len(submission[at]) \in Nat
  BY LevelType DEF Inv, Typed
<1>2. Left(k)' < Left(k)
  <2>1. Left(k)' = Len(Tail(stack[k].items))
    BY DEF Left, After
  <2>2. stack[k].items \in Seq(Items) /\ stack[k].items # <<>>
    BY <1>1 DEF Frame
  <2>3. Len(Tail(stack[k].items)) < Len(stack[k].items)
    BY <2>2
  <2> QED BY <2>1, <2>3 DEF Left
<1>3. \A j \in 1 .. k - 1 : j \in DOMAIN stack /\ Left(j)' = Left(j)
  BY <1>1 DEF Left
<1>4. k \in DOMAIN stack' /\ Len(stack') <= Len(submission[at])
  BY <1>1
<1> QED BY <1>2, <1>3, <1>4 DEF Forward

\* A call enters a level that was not entered, or fails.
LEMMA EnterIsForward ==
  ASSUME Inv, NEW value, NEW level, Enter(value, level),
         Depth < Len(submission[at]), at <= Len(submission)
  PROVE  Forward
<1>1. CASE EnterError(level) # "pending"
  BY <1>1 DEF Enter, Fails, Forward
<1>2. CASE EnterError(level) = "pending"
  <2> DEFINE new == [items |-> Query[value][level.path], found |-> {}]
  <2>1. stack' = Append(stack, new) /\ at' = at
    BY <1>2 DEF Enter
  <2>2. at \in 1 .. Len(submission)
    BY DEF Inv, Typed
  <2>3. submission[at] \in Seq(ALevel)
    BY <2>2 DEF Inv, Typed
  <2>4. Len(submission[at]) \in Nat /\ Depth \in Nat /\ DOMAIN stack = 1 .. Depth
    BY <2>3 DEF Inv, Typed, Depth
  <2>5. Len(stack') = Depth + 1 /\ DOMAIN stack' = 1 .. Depth + 1
    <3> HIDE DEF new
    <3> QED BY <2>1, <2>4 DEF Inv, Typed, Depth
  <2>6. \A j \in 1 .. Depth : stack'[j] = stack[j]
    <3> HIDE DEF new
    <3> QED BY <2>1, <2>4 DEF Inv, Typed, Depth
  <2>7. \A j \in 1 .. (Depth + 1) - 1 : j \in DOMAIN stack /\ Left(j)' = Left(j)
    BY <2>4, <2>6 DEF Left
  <2>8. Depth + 1 \in DOMAIN stack' /\ Depth + 1 \notin DOMAIN stack /\ Len(stack') <= Len(submission[at])
    BY <2>4, <2>5
  <2> QED BY <2>1, <2>7, <2>8 DEF Forward
<1> QED BY <1>1, <1>2

\* One case per action.
LEMMA StepIsForward == ASSUME Inv, Next PROVE Forward
<1>1. CASE StartMap
  <2>1. stack = <<>> /\ at <= Len(submission) /\ Enter(Root, submission[at][1])
    BY <1>1 DEF StartMap
  <2>2. at \in 1 .. Len(submission)
    BY <2>1 DEF Inv, Typed
  <2>3. submission[at] \in Seq(ALevel) /\ submission[at] # <<>>
    BY <2>2 DEF Inv, Typed
  <2>4. Depth < Len(submission[at])
    BY <2>1, <2>3 DEF Depth
  <2> QED BY <2>1, <2>4, EnterIsForward
<1>2. CASE ItemFails
  BY <1>2 DEF ItemFails, Fails, Forward
<1>3. CASE SkipItem
  <2>1. /\ stack # <<>> /\ Top.items # <<>> /\ at' = at
        /\ stack' = [stack EXCEPT ![Depth] = After(Top, {})]
    BY <1>3 DEF SkipItem, AtItem, Top
  <2>2. Depth \in DOMAIN stack /\ Depth = Len(stack) /\ DOMAIN stack = 1 .. Depth
    BY <2>1, TopType DEF Inv, Typed, Depth
  <2>3. Len(stack') = Depth /\ DOMAIN stack' = 1 .. Depth /\ stack'[Depth] = After(stack[Depth], {})
    BY <2>1, <2>2 DEF Inv, Typed, Top
  <2>4. \A j \in 1 .. Depth - 1 : stack'[j] = stack[j]
    BY <2>1, <2>2
  <2> QED BY <2>1, <2>2, <2>3, <2>4, ItemDoneIsForward DEF Top
<1>4. CASE Descend
  <2>1. stack # <<>> /\ IsNested /\ Enter(Item, submission[at][Depth + 1])
    BY <1>4 DEF Descend, Matching, AtItem
  <2>2. at <= Len(submission)
    BY <2>1, LevelType
  <2> QED BY <2>1, <2>2, EnterIsForward DEF IsNested
<1>5. CASE KeepItem
  <2> DEFINE n == Len(inputs) + 1
  <2>1. /\ stack # <<>> /\ Top.items # <<>> /\ at' = at
        /\ stack' = [stack EXCEPT ![Depth] = After(Top, {n})]
    BY <1>5 DEF KeepItem, Matching, AtItem, Top
  <2>2. Depth \in DOMAIN stack /\ Depth = Len(stack) /\ DOMAIN stack = 1 .. Depth
    BY <2>1, TopType DEF Inv, Typed, Depth
  <2> HIDE DEF n
  <2>3. Len(stack') = Depth /\ DOMAIN stack' = 1 .. Depth /\ stack'[Depth] = After(stack[Depth], {n})
    BY <2>1, <2>2 DEF Inv, Typed, Top
  <2>4. \A j \in 1 .. Depth - 1 : stack'[j] = stack[j]
    BY <2>1, <2>2
  <2> QED BY <2>1, <2>2, <2>3, <2>4, ItemDoneIsForward DEF Top
<1>6. CASE ReturnNested
  <2> DEFINE new == IF Top.found = {} THEN {} ELSE {Len(inputs) + 1}
  <2>1. /\ Depth \in Nat /\ Depth > 1 /\ DOMAIN stack = 1 .. Depth
        /\ Caller \in Frame /\ Caller.items # <<>>
        /\ DOMAIN stack' = 1 .. Depth - 1 /\ Len(stack') = Depth - 1 /\ at' = at
        /\ \A j \in 1 .. Depth - 2 : stack'[j] = stack[j]
    BY <1>6, ReturnNestedEffect
  <2>2. stack' = Append(SubSeq(stack, 1, Depth - 2), After(Caller, new))
    BY <1>6 DEF ReturnNested
  <2>3. stack \in Seq(Frame) /\ Depth = Len(stack)
    BY DEF Inv, Typed, Depth
  <2>4. Len(SubSeq(stack, 1, Depth - 2)) = Depth - 2 /\ SubSeq(stack, 1, Depth - 2) \in Seq(Frame)
    BY <2>1, <2>3, SubSeqProperties
  <2>5. stack'[Depth - 1] = After(Caller, new)
    <3> HIDE DEF new
    <3> QED BY <2>1, <2>2, <2>4
  <2>6. Depth - 1 \in DOMAIN stack /\ stack # <<>> /\ stack[Depth - 1].items # <<>>
    BY <2>1 DEF Caller
  <2> HIDE DEF new
  <2>7. stack'[Depth - 1] = After(stack[Depth - 1], new)
    BY <2>5 DEF Caller
  <2>8. \A j \in 1 .. (Depth - 1) - 1 : stack'[j] = stack[j]
    BY <2>1
  <2> QED BY <2>1, <2>6, <2>7, <2>8, ItemDoneIsForward
<1>7. CASE ReturnMap
  <2>1. stack # <<>> /\ at' = at + 1
    BY <1>7 DEF ReturnMap, Depth
  <2> QED BY <2>1, LevelType DEF Forward
<1>8. CASE Validate
  BY <1>8, VerdictType DEF Validate, ValidationErrors, Forward
<1> QED BY <1>1, <1>2, <1>3, <1>4, <1>5, <1>6, <1>7, <1>8 DEF Next

\* presentation_submission.rs: each step of the recursion over path_nested
\* takes the search forward, for any submission, any definition and whatever
\* the paths find: it can neither go round in an item nor come back to a
\* descriptor map.
THEOREM SearchEnds == Spec => SearchMovesForward
<1>1. Inv /\ [Next]_vars => [Forward]_vars
  BY StepIsForward
<1>2. Spec => [][Forward]_vars
  BY <1>1, TypesInit, TypesStep, PTL DEF Spec
<1> QED BY <1>2 DEF SearchMovesForward, Forward

----------------------------------------------------------------------------
(* What a Pick rule counts *)

\* No descriptor map of the submission has a path_nested.
Flat == \A m \in DOMAIN submission : Len(submission[m]) <= 1

\* A verdict is about a search that has come to its end.
Judgements == {"accepted"} \cup ValidationErrors

Judged == outcome \in Judgements => stack = <<>> /\ outcome \in ValidationVerdict

\* Without path_nested no input has others nested in it.
Unnested == Flat => \A i \in DOMAIN inputs : Nested(i) = {}

\* Errors end the search without a verdict.
LEMMA ErrorsAreNoJudgements ==
  /\ "pending" \notin Judgements
  /\ \A level : EnterError(level) \notin Judgements
  /\ ItemError \notin Judgements
<1> USE DEF Judgements, ValidationErrors
<1>1. \A level : EnterError(level) \notin Judgements
  BY DEF EnterError
<1>2. ItemError \notin Judgements
  BY DEF ItemError
<1> QED BY <1>1, <1>2

LEMMA CountingStep ==
  ASSUME Inv, Forest, Judged, Unnested, [Next]_vars
  PROVE  Judged' /\ Unnested'
<1>0. Flat' = Flat
  BY DEF Next, vars, Flat, StartMap, ItemFails, SkipItem, Descend, KeepItem, ReturnNested,
         ReturnMap, Validate, Enter, Fails
<1>1. CASE UNCHANGED vars
  <2>1. ValidationVerdict' = ValidationVerdict /\ \A i : Nested(i)' = Nested(i)
    BY <1>1, VerdictStays DEF vars, Nested
  <2> QED BY <1>0, <1>1, <2>1 DEF vars, Judged, Unnested
\* A step that adds no input and gives no verdict.
<1>2. ASSUME UNCHANGED inputs, outcome' \notin Judgements PROVE Judged' /\ Unnested'
  <2>1. \A i : Nested(i)' = Nested(i)
    BY <1>2 DEF Nested
  <2> QED BY <1>0, <1>2, <2>1 DEF Judged, Unnested
<1>3. CASE StartMap \/ Descend
  <2>1. PICK value, level : Enter(value, level) /\ outcome = "pending"
    BY <1>3 DEF StartMap, Descend, Matching, AtItem
  <2>2. UNCHANGED inputs /\ outcome' \in {"pending", EnterError(level)}
    BY <2>1 DEF Enter, Fails
  <2> QED BY <1>2, <2>2, ErrorsAreNoJudgements
<1>4. CASE ItemFails
  BY <1>2, <1>4, ErrorsAreNoJudgements DEF ItemFails, Fails
<1>5. CASE SkipItem \/ ReturnMap
  <2>1. UNCHANGED inputs /\ outcome' = "pending"
    BY <1>5 DEF SkipItem, AtItem, ReturnMap
  <2> QED BY <1>2, <2>1, ErrorsAreNoJudgements
<1>6. CASE KeepItem
  <2>1. Grown(DecodedInput(Level, Item, {})) /\ outcome' = "pending"
    BY <1>6, KeepItemEffect DEF KeepItem, Matching, AtItem
  <2> DEFINE x == DecodedInput(Level, Item, {})
  <2>2. UNION {x.nested[d] : d \in DOMAIN x.nested} = {}
    <3> DEFINE g == GroupByInputDescriptor(inputs, {})
    <3>1. x.nested = g
      BY DEF DecodedInput
    <3>2. {} \in SUBSET DOMAIN inputs
      OBVIOUS
    <3>3. UNION {g[d] : d \in DOMAIN g} = {}
      <4> HIDE DEF g
      <4> QED BY <3>2, GroupingIsExact DEF Inv, g
    <3> HIDE DEF g, x
    <3> QED BY <3>1, <3>3
  <2> PICK n : n = Len(inputs) + 1
    OBVIOUS
  <2>3. (\A i \in DOMAIN inputs : Nested(i)' = Nested(i)) /\ Nested(n)' = {}
    <3>1. Grown(x)
      BY <2>1
    <3> HIDE DEF x
    <3> QED BY <3>1, <2>2, GrownKeepsEntries
  <2>4. DOMAIN inputs' = DOMAIN inputs \cup {n}
    BY <2>1 DEF Grown
  <2> QED BY <1>0, <2>1, <2>3, <2>4, ErrorsAreNoJudgements DEF Judged, Unnested
<1>7. CASE ReturnNested
  <2>0. DOMAIN stack = 1 .. Depth /\ Depth \in Nat /\ Depth > 1 /\ outcome' = outcome
    BY <1>7, ReturnNestedEffect
  <2>1. outcome' = "pending" /\ 1 \in DOMAIN stack
    BY <1>7, <2>0 DEF ReturnNested, Returning
  <2>2. ~Flat
    <3>1. stack # <<>>
      BY <2>1
    <3>2. at \in DOMAIN submission /\ submission[at] \in Seq(ALevel) /\ Depth \in 1 .. Len(submission[at])
      BY <3>1, LevelType DEF Inv, Typed
    <3>3. Depth <= Len(submission[at]) /\ Len(submission[at]) \in Nat
      BY <2>0, <3>2
    <3>4. 1 < Len(submission[at])
      BY <2>0, <3>3
    <3> QED BY <3>2, <3>3, <3>4 DEF Flat
  <2> QED BY <1>0, <2>1, <2>2, ErrorsAreNoJudgements DEF Judged, Unnested
<1>8. CASE Validate
  <2>1. stack' = <<>> /\ outcome' \in ValidationVerdict /\ UNCHANGED <<definition, inputs>>
    BY <1>8 DEF Validate
  <2>2. ValidationVerdict' = ValidationVerdict /\ \A i : Nested(i)' = Nested(i)
    BY <2>1, VerdictStays DEF Nested
  <2> QED BY <1>0, <2>1, <2>2 DEF Judged, Unnested
<1> QED BY <1>1, <1>3, <1>4, <1>5, <1>6, <1>7, <1>8 DEF Next

\* A verdict on a flat submission is about the inputs the descriptor maps
\* have found, all of them.
LEMMA FlatIsReturned ==
  ASSUME Inv, Forest, Judged, Unnested, Flat, outcome \in Judgements
  PROVE  returned = DOMAIN inputs
<1>1. DOMAIN stack = {}
  BY DEF Judged
<1> QED BY <1>1 DEF Inv, TypeOK, Forest, Covered, Unnested

\* The verdict "wrong_size" is that of a rule with a count.
LEMMA WrongSizeVerdict ==
  ASSUME "wrong_size" \in ValidationVerdict
  PROVE  \E k \in DOMAIN definition.requirements :
           LET r == definition.requirements[k] IN
           /\ r.rule # "all" /\ r.count # None
           /\ r.count # Cardinality({i \in DOMAIN inputs : inputs[i].descriptor \in InGroup(r.from)})
<1>1. PICK k \in DOMAIN definition.requirements : GroupVerdict(definition.requirements[k]) = "wrong_size"
  BY DEF ValidationVerdict
<1> QED BY <1>1 DEF GroupVerdict

\* presentation_definition.rs:326: the count of a Pick rule is what its comment
\* says on every submission whose descriptor maps have no path_nested; the
\* levels of path_nested are all that the finding about it rests on.
THEOREM FlatSubmissionsAreCounted == Spec => [](Flat => PickCountsDescriptorMaps)
<1> DEFINE Counting == Inv /\ Forest /\ Judged /\ Unnested
<1>1. Init => Counting
  BY TypesInit, ForestInit DEF Init, Judged, Unnested, Judgements, ValidationErrors
<1>2. Counting /\ [Next]_vars => Counting'
  BY TypesStep, ForestStep, CountingStep
<1>3. Counting => (Flat => PickCountsDescriptorMaps)
  <2> SUFFICES ASSUME Counting, Flat, outcome = "wrong_size" PROVE PickCountsDescriptorMaps
    BY DEF PickCountsDescriptorMaps
  <2>1. outcome \in Judgements
    BY DEF Judgements, ValidationErrors
  <2>2. returned = DOMAIN inputs
    BY <2>1, FlatIsReturned
  <2>3. "wrong_size" \in ValidationVerdict
    BY <2>1 DEF Judged
  <2> QED BY <2>2, <2>3, WrongSizeVerdict DEF PickCountsDescriptorMaps
<1> HIDE DEF Counting
<1> QED BY <1>1, <1>2, <1>3, PTL DEF Spec

============================================================================
