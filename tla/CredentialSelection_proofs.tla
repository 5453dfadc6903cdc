---------------------- MODULE CredentialSelection_proofs ----------------------
(***************************************************************************)
(* Proofs about the search for inputs, for all definitions, submissions    *)
(* and values: it finds what the submission selects, a submission that     *)
(* answers its definition is accepted, and the wallet's and the verifier's *)
(* reading of a constraint field agree.                                    *)
(***************************************************************************)
EXTENDS CredentialSelection, SubmissionInputs_proofs, WellFoundedInduction

Chains == Seq(ALevel) \ {<<>>}

----------------------------------------------------------------------------
(* What a descriptor map selects below an item *)

\* The branches from an item of level k to the last level, on which every item
\* satisfies its level, and what lies on them.
BranchesBelow(chain, k, x) ==
  {t \in [k .. Len(chain) -> Items] :
     /\ t[k] = x
     /\ \A j \in k .. Len(chain) :
          /\ Satisfies(chain[j], t[j])
          /\ j > k => t[j] \in Contained(t[j - 1], chain[j].path)}

Triple(level, x) == <<level.id, level.format, x>>

OnBranch(chain, k, t) == {Triple(chain[j], t[j]) : j \in k .. Len(chain)}

Below(chain, k, x) == UNION {OnBranch(chain, k, t) : t \in BranchesBelow(chain, k, x)}

BelowSome(chain, k, xs) == UNION {Below(chain, k, x) : x \in xs}

\* What is selected inside a value, and the value if there is any.
Containing(inside, triple) == inside \cup IF inside = {} THEN {} ELSE {triple}

LEMMA BelowUnsatisfying ==
  ASSUME NEW chain \in Chains, NEW k \in 1 .. Len(chain), NEW x, ~Satisfies(chain[k], x)
  PROVE  Below(chain, k, x) = {}
<1>1. k \in k .. Len(chain)
  BY DEF Chains
<1> QED BY <1>1 DEF Below, BranchesBelow

\* A value at the last level is selected if it satisfies the level.
LEMMA BelowLast ==
  ASSUME NEW chain \in Chains, NEW x \in Items, Satisfies(chain[Len(chain)], x)
  PROVE  Below(chain, Len(chain), x) = {Triple(chain[Len(chain)], x)}
<1> DEFINE n == Len(chain)
           t == [j \in n .. n |-> x]
<1>1. n \in Nat /\ n .. n = {n}
  BY DEF Chains
<1>2. t \in BranchesBelow(chain, n, x) /\ OnBranch(chain, n, t) = {Triple(chain[n], x)}
  BY <1>1 DEF BranchesBelow, OnBranch
<1>3. \A u \in BranchesBelow(chain, n, x) : OnBranch(chain, n, u) = {Triple(chain[n], x)}
  BY <1>1 DEF BranchesBelow, OnBranch
<1> HIDE DEF t
<1> QED BY <1>2, <1>3 DEF Below

\* A value above the last level is selected if something in it is, together
\* with what is selected in it.
LEMMA BelowStep ==
  ASSUME NEW chain \in Chains, NEW k \in 1 .. Len(chain) - 1, NEW x \in Items,
         Satisfies(chain[k], x)
  PROVE  Below(chain, k, x)
           = Containing(BelowSome(chain, k + 1, Contained(x, chain[k + 1].path)), Triple(chain[k], x))
<1> DEFINE n == Len(chain)
           kids == Contained(x, chain[k + 1].path)
           inside == BelowSome(chain, k + 1, kids)
<1>0. n \in Nat /\ k \in Nat /\ k < n /\ k .. n = {k} \cup (k + 1 .. n) /\ k + 1 \in k + 1 .. n
  BY DEF Chains
\* A branch from x goes on as a branch from one of the values in it.
<1>1. ASSUME NEW t \in BranchesBelow(chain, k, x)
      PROVE  /\ OnBranch(chain, k, t) \subseteq inside \cup {Triple(chain[k], x)}
             /\ inside # {}
  <2> DEFINE u == [j \in k + 1 .. n |-> t[j]]
  <2>1. /\ t \in [k .. n -> Items] /\ t[k] = x
        /\ \A j \in k .. n : Satisfies(chain[j], t[j])
        /\ \A j \in k .. n : j > k => t[j] \in Contained(t[j - 1], chain[j].path)
    BY DEF BranchesBelow
  <2>2. t[k + 1] \in kids
    BY <1>0, <2>1
  <2>3. u \in BranchesBelow(chain, k + 1, t[k + 1])
    <3>1. u \in [k + 1 .. n -> Items] /\ u[k + 1] = t[k + 1]
      BY <1>0, <2>1
    <3>2. \A j \in k + 1 .. n : Satisfies(chain[j], u[j])
      BY <1>0, <2>1
    <3>3. \A j \in k + 1 .. n : j > k + 1 => u[j] \in Contained(u[j - 1], chain[j].path)
      BY <1>0, <2>1
    <3> QED BY <3>1, <3>2, <3>3 DEF BranchesBelow
  <2>4. OnBranch(chain, k + 1, u) \subseteq inside
    BY <2>2, <2>3 DEF BelowSome, Below
  <2>5. OnBranch(chain, k, t) = {Triple(chain[k], x)} \cup OnBranch(chain, k + 1, u)
    BY <1>0, <2>1 DEF OnBranch
  <2>6. OnBranch(chain, k + 1, u) # {}
    BY <1>0 DEF OnBranch
  <2> HIDE DEF u, inside
  <2> QED BY <2>4, <2>5, <2>6
\* A branch from a value in x is the rest of a branch from x.
<1>2. ASSUME NEW y \in kids, NEW u \in BranchesBelow(chain, k + 1, y)
      PROVE  \E t \in BranchesBelow(chain, k, x) :
               OnBranch(chain, k, t) = {Triple(chain[k], x)} \cup OnBranch(chain, k + 1, u)
  <2> DEFINE t == [j \in k .. n |-> IF j = k THEN x ELSE u[j]]
  <2>1. /\ u \in [k + 1 .. n -> Items] /\ u[k + 1] = y
        /\ \A j \in k + 1 .. n : Satisfies(chain[j], u[j])
        /\ \A j \in k + 1 .. n : j > k + 1 => u[j] \in Contained(u[j - 1], chain[j].path)
    BY DEF BranchesBelow
  <2>2. t \in [k .. n -> Items] /\ t[k] = x /\ \A j \in k + 1 .. n : t[j] = u[j]
    BY <1>0, <2>1
  <2> HIDE DEF t
  <2>3. \A j \in k .. n : Satisfies(chain[j], t[j])
    BY <1>0, <2>1, <2>2
  <2>4. ASSUME NEW j \in k .. n, j > k PROVE t[j] \in Contained(t[j - 1], chain[j].path)
    <3>1. CASE j = k + 1
      BY <1>0, <2>1, <2>2, <3>1
    <3>2. CASE j > k + 1
      BY <1>0, <2>1, <2>2, <2>4, <3>2
    <3> QED BY <1>0, <2>4, <3>1, <3>2
  <2>5. t \in BranchesBelow(chain, k, x)
    BY <2>2, <2>3, <2>4 DEF BranchesBelow
  <2>6. OnBranch(chain, k, t) = {Triple(chain[k], x)} \cup OnBranch(chain, k + 1, u)
    BY <1>0, <2>2 DEF OnBranch
  <2> QED BY <2>5, <2>6
<1>3. inside \subseteq Below(chain, k, x)
  <2> SUFFICES ASSUME NEW y \in kids, NEW u \in BranchesBelow(chain, k + 1, y)
               PROVE  OnBranch(chain, k + 1, u) \subseteq Below(chain, k, x)
    BY DEF BelowSome, Below
  <2> HIDE DEF kids
  <2> QED BY <1>2 DEF Below
<1>4. inside # {} => Triple(chain[k], x) \in Below(chain, k, x)
  <2> SUFFICES ASSUME NEW y \in kids, NEW u \in BranchesBelow(chain, k + 1, y)
               PROVE  Triple(chain[k], x) \in Below(chain, k, x)
    BY DEF BelowSome, Below
  <2> HIDE DEF kids
  <2> QED BY <1>2 DEF Below
<1>5. Below(chain, k, x) \subseteq inside \cup IF inside = {} THEN {} ELSE {Triple(chain[k], x)}
  <2> HIDE DEF inside
  <2> QED BY <1>1 DEF Below
<1> HIDE DEF inside
<1>6. Below(chain, k, x) = inside \cup IF inside = {} THEN {} ELSE {Triple(chain[k], x)}
  BY <1>3, <1>4, <1>5
<1> QED BY <1>6 DEF inside, Containing

\* What a map selects is what lies below the values its first level points at.
LEMMA SelectedIsBelow ==
  ASSUME NEW chain \in Chains
  PROVE  Selected(chain) = BelowSome(chain, 1, Contained(Root, chain[1].path))
<1> DEFINE n == Len(chain)
           complete == {u \in Branches(chain, n) : Satisfies(chain[n], u[n])}
           from == Contained(Root, chain[1].path)
<1>1. n \in Nat \ {0} /\ 1 \in 1 .. n
  BY DEF Chains
<1>2. ASSUME NEW t PROVE t \in complete <=> \E x \in from : t \in BranchesBelow(chain, 1, x)
  <2>1. t \in complete <=>
          /\ t \in [1 .. n -> Items]
          /\ \A j \in 1 .. n : Satisfies(chain[j], t[j])
          /\ \A j \in 1 .. n : t[j] \in Contained(IF j = 1 THEN Root ELSE t[j - 1], chain[j].path)
    BY <1>1 DEF Branches
  <2>2. (\A j \in 1 .. n : t[j] \in Contained(IF j = 1 THEN Root ELSE t[j - 1], chain[j].path)) <=>
          /\ t[1] \in from
          /\ \A j \in 1 .. n : j > 1 => t[j] \in Contained(t[j - 1], chain[j].path)
    BY <1>1
  <2> HIDE DEF complete, from
  <2> QED BY <2>1, <2>2 DEF BranchesBelow
<1>3. Selected(chain) = UNION {OnBranch(chain, 1, t) : t \in complete}
  BY DEF Selected, OnBranch, Triple
<1> HIDE DEF complete, from
<1>4. Selected(chain) = BelowSome(chain, 1, from)
  BY <1>2, <1>3 DEF BelowSome, Below
<1> QED BY <1>4 DEF from

----------------------------------------------------------------------------
(* The search finds what is selected *)

ItemsOf(s) == {s[n] : n \in DOMAIN s}

LEMMA HeadAndTail ==
  ASSUME NEW s \in Seq(Items), s # <<>>
  PROVE  /\ Head(s) \in Items /\ Tail(s) \in Seq(Items)
         /\ ItemsOf(s) = {Head(s)} \cup ItemsOf(Tail(s))
<1>1. /\ Len(s) \in Nat \ {0} /\ DOMAIN s = 1 .. Len(s) /\ Head(s) = s[1]
      /\ \A i \in DOMAIN s : s[i] \in Items
  OBVIOUS
<1>2. /\ Tail(s) \in Seq(Items) /\ DOMAIN Tail(s) = 1 .. Len(s) - 1
      /\ \A i \in 1 .. Len(s) - 1 : Tail(s)[i] = s[i + 1]
  BY <1>1
<1>3. ASSUME NEW i \in DOMAIN s, i # 1 PROVE s[i] \in ItemsOf(Tail(s))
  <2>1. i - 1 \in DOMAIN Tail(s) /\ Tail(s)[i - 1] = s[i]
    BY <1>1, <1>2, <1>3
  <2> QED BY <2>1 DEF ItemsOf
<1>4. ItemsOf(Tail(s)) \subseteq ItemsOf(s)
  BY <1>1, <1>2 DEF ItemsOf
<1>5. ItemsOf(s) \subseteq {Head(s)} \cup ItemsOf(Tail(s))
  BY <1>1, <1>3 DEF ItemsOf
<1>6. Head(s) \in ItemsOf(s)
  BY <1>1 DEF ItemsOf
<1> QED BY <1>1, <1>2, <1>4, <1>5, <1>6

\* What has been found, and what the maps that have been read select.
Yield == {<<inputs[i].descriptor, inputs[i].format, inputs[i].value>> : i \in DOMAIN inputs}

Earlier == UNION {Selected(submission[m]) : m \in 1 .. at - 1}

\* The value in which the items of a frame were found.
From(k) == IF k = 1 THEN Root ELSE Head(stack[k - 1].items)

\* A frame whose items in done have been read.
FrameHolds(k, done) ==
  /\ done \cup ItemsOf(stack[k].items) = Contained(From(k), submission[at][k].path)
  /\ stack[k].found # {} <=> BelowSome(submission[at], k, done) # {}
  /\ k < Depth => Satisfies(submission[at][k], Head(stack[k].items))

Read(D) == UNION {BelowSome(submission[at], k, D[k]) : k \in DOMAIN stack}

Progress(D) ==
  /\ D \in [DOMAIN stack -> SUBSET Items]
  /\ \A k \in DOMAIN stack : FrameHolds(k, D[k])
  /\ Yield = Earlier \cup Read(D)

Tracked == \E D : Progress(D)

ReadToTheEnd ==
  outcome \in {"accepted"} \cup ValidationErrors => stack = <<>> /\ at = Len(submission) + 1

\* The definition does not change, nor does what a map selects.
LEMMA SelectionStays ==
  ASSUME UNCHANGED definition
  PROVE  /\ \A level, x : Satisfies(level, x)' = Satisfies(level, x)
         /\ \A chain : Selected(chain)' = Selected(chain)
         /\ \A chain, k, xs : BelowSome(chain, k, xs)' = BelowSome(chain, k, xs)
<1>1. \A id : Descriptor(id)' = Descriptor(id)
  BY DEF Descriptor, DescriptorIndices
<1>2. \A level, x : Satisfies(level, x)' = Satisfies(level, x)
  BY <1>1 DEF Satisfies
<1>3. \A chain, k : Branches(chain, k)' = Branches(chain, k)
  BY <1>2 DEF Branches
<1>4. \A chain : Selected(chain)' = Selected(chain)
  BY <1>2, <1>3 DEF Selected
<1>5. \A chain, k, x : BranchesBelow(chain, k, x)' = BranchesBelow(chain, k, x)
  BY <1>2 DEF BranchesBelow
<1>6. \A chain, k, x : Below(chain, k, x)' = Below(chain, k, x)
  BY <1>5 DEF Below
<1>7. \A chain, k, xs : BelowSome(chain, k, xs)' = BelowSome(chain, k, xs)
  BY <1>6 DEF BelowSome
<1> QED BY <1>2, <1>4, <1>7

\* Constraints::matches asks what the selection asks.
LEMMA MatchIsSatisfaction ==
  ASSUME NEW level, NEW x
  PROVE  Satisfies(level, x) <=> ConstraintsMatch(Descriptor(level.id), x)
  BY DEF Satisfies, ConstraintsMatch

LEMMA SelectionAtWorkStays ==
  ASSUME UNCHANGED <<definition, submission, at>>
  PROVE  /\ \A k, xs : BelowSome(submission[at], k, xs)' = BelowSome(submission[at], k, xs)
         /\ \A k, x : Satisfies(submission[at][k], x)' = Satisfies(submission[at][k], x)
<1> PICK chain : chain = submission[at]
  OBVIOUS
<1>1. chain = submission'[at']
  OBVIOUS
<1>2. \A k, xs : BelowSome(chain, k, xs)' = BelowSome(chain, k, xs)
  BY SelectionStays
<1>3. \A k, x : Satisfies(chain[k], x)' = Satisfies(chain[k], x)
  BY SelectionStays
<1> QED BY <1>1, <1>2, <1>3

\* A frame after a step within a descriptor map.
LEMMA FrameNext ==
  ASSUME UNCHANGED <<definition, submission, at>>, NEW k, NEW done
  PROVE  FrameHolds(k, done)' <=>
           /\ done \cup ItemsOf(stack'[k].items) = Contained(From(k)', submission[at][k].path)
           /\ stack'[k].found # {} <=> BelowSome(submission[at], k, done) # {}
           /\ k < Depth' => Satisfies(submission[at][k], Head(stack'[k].items))
  BY SelectionAtWorkStays DEF FrameHolds, Contained

\* Steps that read nothing.
LEMMA NothingRead ==
  ASSUME Tracked, UNCHANGED <<definition, submission, at, stack, inputs>>
  PROVE  Tracked'
<1> PICK D : Progress(D)
  BY DEF Tracked
<1>1. \A k, done : FrameHolds(k, done)' <=> FrameHolds(k, done)
  <2>1. \A k : From(k)' = From(k)
    BY DEF From
  <2> QED BY <2>1, FrameNext DEF FrameHolds, Depth
<1>2. Yield' = Yield /\ Earlier' = Earlier /\ Read(D)' = Read(D)
  BY SelectionStays DEF Yield, Earlier, Read
<1>3. Progress(D)'
  BY <1>1, <1>2 DEF Progress
<1> QED BY <1>3 DEF Tracked

\* A call that starts, below an item that satisfies the level above.
LEMMA EnterIsTracked ==
  ASSUME Inv, Tracked, Enter(From(Depth + 1), submission[at][Depth + 1]),
         stack # <<>> => Satisfies(Level, Item)
  PROVE  Tracked'
<1> PICK top : top = Depth + 1
  OBVIOUS
<1> PICK level : level = submission[at][top]
  OBVIOUS
<1> PICK from : from = From(top)
  OBVIOUS
<1> PICK new : new = [items |-> Query[from][level.path], found |-> {}]
  OBVIOUS
<1>1. CASE EnterError(level) # "pending"
  BY <1>1, NothingRead DEF Enter, Fails
<1>2. CASE EnterError(level) = "pending"
  <2> PICK D : Progress(D)
    BY DEF Tracked
  <2> PICK E : E = [k \in 1 .. top |-> IF k = top THEN {} ELSE D[k]]
    OBVIOUS
  <2>1. stack' = Append(stack, new) /\ UNCHANGED <<definition, submission, at, inputs, outcome>>
    BY <1>2 DEF Enter
  <2>2. /\ top \in Nat /\ Depth = top - 1 /\ Depth' = top /\ top \in 1 .. top
        /\ DOMAIN stack = 1 .. top - 1 /\ DOMAIN stack' = 1 .. top /\ 1 .. top = (1 .. top - 1) \cup {top}
        /\ \A k \in 1 .. top - 1 : stack'[k] = stack[k]
        /\ stack'[top] = new
    <3>1. stack \in Seq(Frame) /\ Depth = Len(stack) /\ Depth' = Len(stack')
      BY DEF Inv, Typed, Depth
    <3> QED BY <2>1, <3>1
  <2>3. \A k \in 1 .. top : From(k)' = From(k)
    <3>1. \A k \in 1 .. top : k # 1 => k - 1 \in 1 .. top - 1
      BY <2>2
    <3> QED BY <2>2, <3>1 DEF From
  <2>4. /\ E \in [1 .. top -> SUBSET Items]
        /\ E[top] = {} /\ \A k \in 1 .. top - 1 : E[k] = D[k]
    BY <2>2 DEF Progress
  <2>5. BelowSome(submission[at], top, {}) = {}
    BY DEF BelowSome
  <2>6. ASSUME NEW k \in 1 .. top - 1 PROVE FrameHolds(k, E[k])'
    <3>1. FrameHolds(k, D[k])
      BY <2>2 DEF Progress
    <3>2. Satisfies(submission[at][k], Head(stack[k].items))
      <4>1. CASE k < Depth
        BY <3>1, <4>1 DEF FrameHolds
      <4>2. CASE k = Depth
        BY <2>2, <4>2 DEF Level, Item, Top
      <4> QED BY <2>2, <4>1, <4>2
    <3>3. FrameHolds(k, D[k])'
      <4>1. stack'[k] = stack[k] /\ From(k)' = From(k)
        BY <2>2, <2>3
      <4> QED BY <2>1, <3>1, <3>2, <4>1, FrameNext DEF FrameHolds
    <3>4. E[k] = D[k]
      BY <2>4
    <3> QED BY <3>3, <3>4
  <2>7. FrameHolds(top, E[top])'
    <3>1. ~(top < top) /\ From(top)' = From(top)
      BY <2>2, <2>3
    <3>2. ItemsOf(new.items) = Contained(from, level.path) /\ new.found = {}
      BY DEF ItemsOf, Contained
    <3>3. FrameHolds(top, {})'
      <4>1. {} \cup ItemsOf(stack'[top].items) = Contained(From(top)', submission[at][top].path)
        BY <2>2, <3>1, <3>2
      <4>2. stack'[top].found # {} <=> BelowSome(submission[at], top, {}) # {}
        BY <2>2, <2>5, <3>2
      <4> QED BY <2>1, <2>2, <3>1, <4>1, <4>2, FrameNext
    <3> QED BY <2>4, <3>3
  <2>8. ASSUME NEW k \in 1 .. top - 1 PROVE BelowSome(submission[at], k, E[k])' = BelowSome(submission[at], k, D[k])
    <3>1. BelowSome(submission[at], k, E[k])' = BelowSome(submission[at], k, E[k])
      BY <2>1, SelectionAtWorkStays
    <3> QED BY <2>4, <3>1
  <2>9. BelowSome(submission[at], top, E[top])' = {}
    <3>1. BelowSome(submission[at], top, E[top])' = BelowSome(submission[at], top, E[top])
      BY <2>1, SelectionAtWorkStays
    <3> QED BY <2>4, <2>5, <3>1
  <2>10. Read(E)' = Read(D)
    <3>1. ASSUME NEW z \in Read(E)' PROVE z \in Read(D)
      <4>1. PICK k \in DOMAIN stack' : z \in BelowSome(submission[at], k, E[k])'
        BY <3>1 DEF Read
      <4>2. k \in 1 .. top - 1
        BY <2>2, <2>9, <4>1
      <4>3. z \in BelowSome(submission[at], k, D[k])
        BY <2>8, <4>1, <4>2
      <4> QED BY <2>2, <4>2, <4>3 DEF Read
    <3>2. ASSUME NEW z \in Read(D) PROVE z \in Read(E)'
      <4>1. PICK k \in 1 .. top - 1 : z \in BelowSome(submission[at], k, D[k])
        BY <2>2 DEF Read
      <4>2. z \in BelowSome(submission[at], k, E[k])' /\ k \in 1 .. top
        BY <2>2, <2>8, <4>1
      <4> QED BY <2>2, <4>2 DEF Read
    <3> QED BY <3>1, <3>2
  <2>11. Yield' = Yield /\ Earlier' = Earlier
    BY <2>1, SelectionStays DEF Yield, Earlier
  <2>12. \A k \in 1 .. top : FrameHolds(k, E[k])'
    BY <2>2, <2>6, <2>7
  <2>13. Progress(E)'
    BY <2>2, <2>4, <2>10, <2>11, <2>12 DEF Progress
  <2> QED BY <2>13 DEF Tracked
<1> QED BY <1>1, <1>2

\* The item at work in the frame t has been read, the frames above being gone;
\* what has been found is what lies below it.
LEMMA ItemIsTracked ==
  ASSUME Inv, NEW D, Progress(D), NEW t \in DOMAIN stack, stack[t].items # <<>>,
         UNCHANGED <<definition, submission, at>>,
         DOMAIN stack' = 1 .. t, Depth' = t, \A k \in 1 .. t - 1 : stack'[k] = stack[k],
         stack'[t].items = Tail(stack[t].items),
         stack'[t].found # {} <=>
           stack[t].found # {} \/ Below(submission[at], t, Head(stack[t].items)) # {},
         Yield' = Earlier \cup (UNION {BelowSome(submission[at], k, D[k]) : k \in 1 .. t})
                    \cup Below(submission[at], t, Head(stack[t].items))
  PROVE  Tracked'
<1> PICK x : x = Head(stack[t].items)
  OBVIOUS
<1> PICK E : E = [k \in 1 .. t |-> IF k = t THEN D[t] \cup {x} ELSE D[k]]
  OBVIOUS
<1>1. /\ Depth \in Nat /\ DOMAIN stack = 1 .. Depth /\ t \in Nat /\ 1 <= t /\ t <= Depth
      /\ t \in 1 .. t /\ 1 .. t = (1 .. t - 1) \cup {t}
  BY DEF Inv, Typed, Depth
<1>2. x \in Items /\ ItemsOf(stack[t].items) = {x} \cup ItemsOf(stack'[t].items)
  <2>1. stack[t].items \in Seq(Items)
    <3>1. stack[t] \in Frame
      BY LevelType
    <3> QED BY <3>1 DEF Frame
  <2> QED BY <2>1, HeadAndTail
<1>3. /\ E \in [1 .. t -> SUBSET Items] /\ E[t] = D[t] \cup {x} /\ \A k \in 1 .. t - 1 : E[k] = D[k]
  BY <1>1, <1>2 DEF Progress
<1>4. \A k \in 1 .. t : From(k)' = From(k)
  BY <1>1 DEF From
<1>5. ASSUME NEW k \in 1 .. t - 1 PROVE FrameHolds(k, E[k])'
  <2>1. FrameHolds(k, D[k]) /\ k < Depth /\ k < t /\ k \in 1 .. t
    BY <1>1 DEF Progress
  <2>2. E[k] = D[k] /\ From(k)' = From(k) /\ stack'[k] = stack[k]
    BY <1>3, <1>4, <2>1
  <2>3. FrameHolds(k, D[k])'
    BY <2>1, <2>2, FrameNext DEF FrameHolds
  <2> QED BY <2>2, <2>3
<1>6. FrameHolds(t, E[t])'
  <2>1. FrameHolds(t, D[t])
    BY <1>1 DEF Progress
  <2>2. BelowSome(submission[at], t, E[t]) = BelowSome(submission[at], t, D[t]) \cup Below(submission[at], t, x)
    <3>1. BelowSome(submission[at], t, D[t] \cup {x})
            = BelowSome(submission[at], t, D[t]) \cup Below(submission[at], t, x)
      BY DEF BelowSome
    <3> QED BY <1>3, <3>1
  <2>3. E[t] \cup ItemsOf(stack'[t].items) = D[t] \cup ItemsOf(stack[t].items)
    BY <1>2, <1>3
  <2>4. From(t)' = From(t) /\ ~(t < t)
    BY <1>1, <1>4
  <2>5. E[t] \cup ItemsOf(stack'[t].items) = Contained(From(t), submission[at][t].path)
    BY <2>1, <2>3 DEF FrameHolds
  <2>6. stack'[t].found # {} <=> BelowSome(submission[at], t, E[t]) # {}
    BY <2>1, <2>2 DEF FrameHolds
  <2> QED BY <2>4, <2>5, <2>6, FrameNext
<1>7. Read(E)' = (UNION {BelowSome(submission[at], k, D[k]) : k \in 1 .. t}) \cup Below(submission[at], t, x)
  <2>1. \A k \in 1 .. t - 1 : BelowSome(submission[at], k, E[k])' = BelowSome(submission[at], k, D[k])
    BY <1>3, SelectionAtWorkStays
  <2>2. BelowSome(submission[at], t, E[t])' = BelowSome(submission[at], t, D[t]) \cup Below(submission[at], t, x)
    <3>1. BelowSome(submission[at], t, E[t])' = BelowSome(submission[at], t, E[t])
      BY SelectionAtWorkStays
    <3>2. BelowSome(submission[at], t, E[t]) = BelowSome(submission[at], t, D[t]) \cup Below(submission[at], t, x)
      <4>1. BelowSome(submission[at], t, D[t] \cup {x})
              = BelowSome(submission[at], t, D[t]) \cup Below(submission[at], t, x)
        BY DEF BelowSome
      <4> QED BY <1>3, <4>1
    <3> QED BY <3>1, <3>2
  <2>3. ASSUME NEW z \in Read(E)'
        PROVE  z \in (UNION {BelowSome(submission[at], k, D[k]) : k \in 1 .. t}) \cup Below(submission[at], t, x)
    <3>1. PICK k \in 1 .. t : z \in BelowSome(submission[at], k, E[k])'
      BY DEF Read
    <3>2. z \in BelowSome(submission[at], k, D[k]) \/ z \in Below(submission[at], t, x)
      BY <1>1, <2>1, <2>2, <3>1
    <3> QED BY <3>2
  <2>4. ASSUME NEW k \in 1 .. t, NEW z \in BelowSome(submission[at], k, D[k]) PROVE z \in Read(E)'
    <3>1. z \in BelowSome(submission[at], k, E[k])'
      BY <1>1, <2>1, <2>2
    <3> QED BY <3>1 DEF Read
  <2>5. ASSUME NEW z \in Below(submission[at], t, x) PROVE z \in Read(E)'
    <3>1. z \in BelowSome(submission[at], t, E[t])'
      BY <2>2
    <3> QED BY <1>1, <3>1 DEF Read
  <2> QED BY <2>3, <2>4, <2>5
<1>8. Earlier' = Earlier
  BY SelectionStays DEF Earlier
<1>9. Yield' = Earlier' \cup Read(E)'
  BY <1>7, <1>8
<1>10. \A k \in 1 .. t : FrameHolds(k, E[k])'
  BY <1>1, <1>5, <1>6
<1>11. Progress(E)'
  BY <1>3, <1>9, <1>10 DEF Progress
<1> QED BY <1>11 DEF Tracked

LEMMA TrackedInit == Init => Tracked
<1> SUFFICES ASSUME Init PROVE Tracked
  OBVIOUS
<1> PICK D : D = [k \in {} |-> {}]
  OBVIOUS
<1>1. DOMAIN stack = {} /\ DOMAIN inputs = {} /\ 1 .. at - 1 = {}
  BY DEF Init
<1>2. Yield = {} /\ Earlier = {} /\ Read(D) = {}
  BY <1>1 DEF Yield, Earlier, Read
<1>3. Progress(D)
  BY <1>1, <1>2 DEF Progress
<1> QED BY <1>3 DEF Tracked

\* The chain at work.
LEMMA AtWork == Inv /\ stack # <<>> => submission[at] \in Chains /\ Len(submission[at]) \in Nat
  BY LevelType DEF Chains

\* The constraints of the last level do not match.
LEMMA SkipIsTracked == Inv /\ Tracked /\ SkipItem => Tracked'
<1> SUFFICES ASSUME Inv, Tracked, SkipItem PROVE Tracked'
  OBVIOUS
<1> PICK D : Progress(D)
  BY DEF Tracked
<1> PICK t : t = Depth
  OBVIOUS
<1>1. /\ stack # <<>> /\ stack[t].items # <<>> /\ ~Satisfies(submission[at][t], Head(stack[t].items))
      /\ UNCHANGED <<definition, submission, at, inputs, outcome>>
  BY MatchIsSatisfaction DEF SkipItem, AtItem, Top, Item, Level
<1>2. stack' = [stack EXCEPT ![t] = After(stack[t], {})]
  BY DEF SkipItem
<1>3. t \in Nat /\ t \in DOMAIN stack /\ DOMAIN stack = 1 .. t /\ t \in 1 .. Len(submission[at]) /\ submission[at] \in Chains
  BY <1>1, LevelType, AtWork DEF Inv, Typed, Depth
<1>4. Below(submission[at], t, Head(stack[t].items)) = {}
  BY <1>1, <1>3, BelowUnsatisfying
<1>5. /\ DOMAIN stack' = 1 .. t /\ Depth' = t /\ \A k \in 1 .. t - 1 : stack'[k] = stack[k]
      /\ stack'[t].items = Tail(stack[t].items) /\ stack'[t].found = stack[t].found
  <2>1. stack' \in Seq(Frame)
    BY TypesStep DEF Inv, Typed, Next
  <2> QED BY <1>2, <1>3, <2>1 DEF After, Depth
<1>6. Yield' = Earlier \cup (UNION {BelowSome(submission[at], k, D[k]) : k \in 1 .. t})
                 \cup Below(submission[at], t, Head(stack[t].items))
  BY <1>1, <1>3, <1>4 DEF Progress, Read, Yield
<1> QED BY <1>1, <1>3, <1>4, <1>5, <1>6, ItemIsTracked

\* What is found next is the triple of the new input.
LEMMA YieldGrows ==
  ASSUME NEW x, Grown(x)
  PROVE  Yield' = Yield \cup {<<x.descriptor, x.format, x.value>>}
  BY DEF Grown, Yield

LEMMA KeepIsTracked == Inv /\ Tracked /\ KeepItem => Tracked'
<1> SUFFICES ASSUME Inv, Tracked, KeepItem PROVE Tracked'
  OBVIOUS
<1> PICK D : Progress(D)
  BY DEF Tracked
<1> PICK t : t = Depth
  OBVIOUS
<1> PICK x : x = Head(stack[t].items)
  OBVIOUS
<1>1. /\ stack # <<>> /\ stack[t].items # <<>> /\ Satisfies(submission[at][t], x)
      /\ x = Item /\ Level = submission[at][t] /\ ~(t < Len(submission[at]))
  BY MatchIsSatisfaction DEF KeepItem, Matching, AtItem, Top, Item, Level, IsNested
<1>2. UNCHANGED <<definition, submission, at>>
  BY DEF KeepItem
<1>3. /\ t \in Nat /\ t \in DOMAIN stack /\ DOMAIN stack = 1 .. t /\ t = Len(submission[at])
      /\ submission[at] \in Chains /\ x \in Items
  <2>1. x \in Items
    BY <1>1, TopType DEF Top
  <2> QED BY <1>1, <2>1, LevelType, AtWork DEF Inv, Typed, Depth
<1>4. Below(submission[at], t, x) = {Triple(Level, x)}
  BY <1>1, <1>3, BelowLast
<1>5. /\ DOMAIN stack' = 1 .. t /\ Depth' = t /\ \A k \in 1 .. t - 1 : stack'[k] = stack[k]
      /\ stack'[t].found # {}
  <2>1. stack'[t].found = Top.found \cup {Len(inputs) + 1}
    BY KeepItemEffect
  <2>2. stack'[t].found # {}
    BY <2>1
  <2> QED BY <1>3, <2>2, KeepItemEffect DEF Depth
<1>6. stack'[t].items = Tail(stack[t].items)
  BY <1>3 DEF KeepItem, After
<1>7. Yield' = Earlier \cup (UNION {BelowSome(submission[at], k, D[k]) : k \in 1 .. t})
                 \cup Below(submission[at], t, x)
  <2>1. Yield' = Yield \cup {Triple(Level, x)}
    BY <1>1, KeepItemEffect, YieldGrows DEF DecodedInput, Triple
  <2>2. Yield = Earlier \cup (UNION {BelowSome(submission[at], k, D[k]) : k \in 1 .. t})
    BY <1>3 DEF Progress, Read
  <2> QED BY <1>4, <2>1, <2>2
<1>8. Below(submission[at], t, x) # {}
  BY <1>4
<1> QED BY <1>1, <1>2, <1>3, <1>5, <1>6, <1>7, <1>8, ItemIsTracked

LEMMA ReturnNestedIsTracked == Inv /\ Tracked /\ ReturnNested => Tracked'
<1> SUFFICES ASSUME Inv, Tracked, ReturnNested PROVE Tracked'
  OBVIOUS
<1> PICK D : Progress(D)
  BY DEF Tracked
<1> PICK t : t = Depth - 1
  OBVIOUS
<1> PICK chain : chain = submission[at]
  OBVIOUS
<1> PICK x : x = Head(stack[t].items)
  OBVIOUS
<1> PICK inside : inside = BelowSome(chain, t + 1, D[t + 1])
  OBVIOUS
<1>1. /\ t \in Nat /\ t \in DOMAIN stack /\ DOMAIN stack = 1 .. t + 1 /\ t < Depth /\ Depth = t + 1
      /\ t + 1 \in DOMAIN stack /\ 1 .. t + 1 = (1 .. t) \cup {t + 1} /\ stack # <<>>
      /\ Caller = stack[t] /\ Top = stack[t + 1] /\ Top.items = <<>>
      /\ UNCHANGED <<definition, submission, at>>
  <2>1. Depth \in Nat /\ Depth > 1 /\ DOMAIN stack = 1 .. Depth /\ Depth = t + 1 /\ stack # <<>>
    BY ReturnNestedEffect
  <2>2. Top.items = <<>> /\ UNCHANGED <<definition, submission, at>>
    BY DEF ReturnNested, Returning
  <2> QED BY <2>1, <2>2 DEF Caller, Top
<1>2. chain \in Chains /\ t \in 1 .. Len(chain) - 1
  BY <1>1, LevelType, AtWork
<1>3. stack[t].items # <<>> /\ x \in Items
  BY <1>1, ReturnNestedEffect, HeadAndTail DEF Frame
<1>4. FrameHolds(t, D[t]) /\ FrameHolds(t + 1, D[t + 1])
  BY <1>1 DEF Progress
<1>5. Satisfies(chain[t], x)
  BY <1>1, <1>4 DEF FrameHolds
<1>6. D[t + 1] = Contained(x, chain[t + 1].path) /\ (Top.found # {} <=> inside # {})
  <2>1. ItemsOf(stack[t + 1].items) = {}
    BY <1>1 DEF ItemsOf
  <2>2. From(t + 1) = x
    BY <1>1 DEF From
  <2> QED BY <1>1, <1>4, <2>1, <2>2 DEF FrameHolds
<1>7. Below(chain, t, x) = inside \cup IF inside = {} THEN {} ELSE {Triple(chain[t], x)}
  <2>1. inside = BelowSome(chain, t + 1, Contained(x, chain[t + 1].path))
    BY <1>6
  <2>2. Below(chain, t, x)
          = Containing(BelowSome(chain, t + 1, Contained(x, chain[t + 1].path)), Triple(chain[t], x))
    BY <1>2, <1>3, <1>5, BelowStep
  <2> QED BY <2>1, <2>2 DEF Containing
<1>8. /\ DOMAIN stack' = 1 .. t /\ Depth' = t /\ \A k \in 1 .. t - 1 : stack'[k] = stack[k]
      /\ stack'[t].found = stack[t].found \cup IF Top.found = {} THEN {} ELSE {Len(inputs) + 1}
  <2>1. DOMAIN stack' = 1 .. Depth - 1 /\ Len(stack') = Depth - 1
    BY ReturnNestedEffect
  <2>2. \A k \in 1 .. Depth - 2 : stack'[k] = stack[k]
    BY ReturnNestedEffect
  <2>3. stack'[Depth - 1].found = Caller.found \cup IF Top.found = {} THEN {} ELSE {Len(inputs) + 1}
    BY ReturnNestedEffect
  <2> QED BY <1>1, <2>1, <2>2, <2>3 DEF Depth
<1>9. stack'[t].items = Tail(stack[t].items)
  <2>1. SubSeq(stack, 1, Depth - 2) \in Seq(Frame) /\ Len(SubSeq(stack, 1, Depth - 2)) = t - 1
    BY <1>1, LevelType, SubSeqProperties DEF Inv, Typed
  <2>2. \E f : stack' = Append(SubSeq(stack, 1, Depth - 2), f) /\ f.items = Tail(stack[t].items)
    <3>1. \A new : After(Caller, new).items = Tail(stack[t].items)
      BY <1>1 DEF After
    <3>2. \E new : stack' = Append(SubSeq(stack, 1, Depth - 2), After(Caller, new))
      BY DEF ReturnNested
    <3> QED BY <3>1, <3>2
  <2> QED BY <1>1, <2>1, <2>2
<1>10. stack'[t].found # {} <=> stack[t].found # {} \/ Below(chain, t, x) # {}
  <2>1. Below(chain, t, x) # {} <=> inside # {}
    BY <1>7
  <2> QED BY <1>6, <1>8, <2>1
<1>11. Yield' = Yield \cup IF inside = {} THEN {} ELSE {Triple(chain[t], x)}
  <2>1. CASE inside = {}
    BY <1>6, <2>1, ReturnNestedEffect DEF Yield
  <2>2. CASE inside # {}
    <3>1. Grown(Parent)
      BY <1>6, <2>2, ReturnNestedEffect
    <3>2. <<Parent.descriptor, Parent.format, Parent.value>> = Triple(chain[t], x)
      BY <1>1 DEF Parent, DecodedInput, Triple
    <3> QED BY <2>2, <3>1, <3>2, YieldGrows
  <2> QED BY <2>1, <2>2
<1>12. Yield = Earlier \cup (UNION {BelowSome(chain, k, D[k]) : k \in 1 .. t}) \cup inside
  <2>1. Yield = Earlier \cup (UNION {BelowSome(chain, k, D[k]) : k \in 1 .. t + 1})
    BY <1>1 DEF Progress, Read
  <2> QED BY <1>1, <2>1
<1>13. Yield' = Earlier \cup (UNION {BelowSome(chain, k, D[k]) : k \in 1 .. t}) \cup Below(chain, t, x)
  BY <1>7, <1>11, <1>12
<1>14. Yield' = Earlier \cup (UNION {BelowSome(submission[at], k, D[k]) : k \in 1 .. t})
                  \cup Below(submission[at], t, Head(stack[t].items))
  BY <1>13
<1>15. stack'[t].found # {} <=> stack[t].found # {} \/ Below(submission[at], t, Head(stack[t].items)) # {}
  BY <1>10
<1> QED BY <1>1, <1>3, <1>8, <1>9, <1>14, <1>15, ItemIsTracked

\* All that the first level points at has been read.
LEMMA ReturnMapIsTracked == Inv /\ Tracked /\ ReturnMap => Tracked'
<1> SUFFICES ASSUME Inv, Tracked, ReturnMap PROVE Tracked'
  OBVIOUS
<1> PICK D : Progress(D)
  BY DEF Tracked
<1> PICK E : E = [k \in {} |-> {}]
  OBVIOUS
<1> PICK chain : chain = submission[at]
  OBVIOUS
<1>1. /\ Depth = 1 /\ Top.items = <<>> /\ at' = at + 1 /\ stack' = <<>>
      /\ UNCHANGED <<definition, submission, inputs>>
  BY DEF ReturnMap
<1>2. DOMAIN stack = {1} /\ stack # <<>> /\ Top = stack[1]
  <2>1. stack \in Seq(Frame) /\ Len(stack) = 1
    BY <1>1 DEF Inv, Typed, Depth
  <2>2. stack # <<>> /\ DOMAIN stack = {1}
    BY <2>1
  <2> QED BY <1>1, <2>2 DEF Top
<1>3. at \in Nat \ {0} /\ chain \in Chains
  BY <1>2, AtWork, LevelType
<1>4. D[1] = Contained(Root, chain[1].path)
  <2>1. FrameHolds(1, D[1]) /\ ItemsOf(stack[1].items) = {} /\ From(1) = Root
    BY <1>1, <1>2 DEF Progress, ItemsOf, From
  <2> QED BY <2>1 DEF FrameHolds
<1>5. Read(D) = Selected(chain)
  <2>1. Read(D) = BelowSome(chain, 1, D[1])
    BY <1>2 DEF Read
  <2> QED BY <1>3, <1>4, <2>1, SelectedIsBelow
<1>6. Earlier' = Earlier \cup Selected(chain)
  <2>1. 1 .. at' - 1 = (1 .. at - 1) \cup {at}
    BY <1>1, <1>3
  <2>2. Earlier' = UNION {Selected(submission[m]) : m \in 1 .. at' - 1}
    BY <1>1, SelectionStays DEF Earlier
  <2> QED BY <2>1, <2>2 DEF Earlier
<1>7. Yield' = Yield /\ Yield = Earlier \cup Read(D)
  BY <1>1 DEF Yield, Progress
<1>8. Read(E)' = {} /\ DOMAIN stack' = {}
  BY <1>1 DEF Read
<1>9. Progress(E)'
  BY <1>5, <1>6, <1>7, <1>8 DEF Progress
<1> QED BY <1>9 DEF Tracked

LEMMA TrackedStep == Inv /\ Tracked /\ [Next]_vars => Tracked'
<1> SUFFICES ASSUME Inv, Tracked, [Next]_vars PROVE Tracked'
  OBVIOUS
<1>1. CASE UNCHANGED vars
  BY <1>1, NothingRead DEF vars
<1>2. CASE StartMap
  <2>1. stack = <<>> /\ Depth = 0 /\ Enter(Root, submission[at][1])
    BY <1>2 DEF StartMap, Depth
  <2>2. Enter(From(Depth + 1), submission[at][Depth + 1])
    BY <2>1 DEF From
  <2> QED BY <2>1, <2>2, EnterIsTracked
<1>3. CASE ItemFails
  BY <1>3, NothingRead DEF ItemFails, Fails
<1>4. CASE SkipItem
  BY <1>4, SkipIsTracked
<1>5. CASE Descend
  <2>1. stack # <<>> /\ Satisfies(Level, Item) /\ Enter(Item, submission[at][Depth + 1])
    BY <1>5, MatchIsSatisfaction DEF Descend, Matching, AtItem
  <2>2. Depth \in Nat \ {0}
    BY <2>1 DEF Inv, Typed, Depth
  <2>3. From(Depth + 1) = Item
    BY <2>2 DEF From, Item, Top
  <2> QED BY <2>1, <2>3, EnterIsTracked
<1>6. CASE KeepItem
  BY <1>6, KeepIsTracked
<1>7. CASE ReturnNested
  BY <1>7, ReturnNestedIsTracked
<1>8. CASE ReturnMap
  BY <1>8, ReturnMapIsTracked
<1>9. CASE Validate
  BY <1>9, NothingRead DEF Validate
<1> QED BY <1>1, <1>2, <1>3, <1>4, <1>5, <1>6, <1>7, <1>8, <1>9 DEF Next

LEMMA ReadToTheEndStep == Inv /\ ReadToTheEnd /\ [Next]_vars => ReadToTheEnd'
<1> SUFFICES ASSUME Inv, ReadToTheEnd, [Next]_vars PROVE ReadToTheEnd'
  OBVIOUS
<1>1. CASE UNCHANGED vars
  BY <1>1 DEF vars, ReadToTheEnd
<1>2. CASE Validate
  <2>1. /\ stack = <<>> /\ at > Len(submission)
        /\ UNCHANGED <<submission, at, stack>>
    BY <1>2 DEF Validate
  <2>2. at \in 1 .. Len(submission) + 1 /\ Len(submission) \in Nat
    BY DEF Inv, TypeOK, Typed
  <2> QED BY <2>1, <2>2 DEF ReadToTheEnd
<1>3. CASE StartMap \/ ItemFails \/ SkipItem \/ Descend \/ KeepItem \/ ReturnNested \/ ReturnMap
  <2>1. \A value, level : outcome = "pending" /\ Enter(value, level) => outcome' \in {"pending"} \cup Errors
    BY DEF Enter, EnterError, Fails, Errors
  <2>2. ItemError \in {"pending"} \cup Errors
    BY DEF ItemError, Errors
  <2>3. outcome' \in {"pending"} \cup Errors
    BY <1>3, <2>1, <2>2 DEF StartMap, ItemFails, SkipItem, Descend, KeepItem, ReturnNested, ReturnMap,
       Matching, AtItem, Returning, Fails
  <2> QED BY <2>3 DEF ReadToTheEnd, Errors, ValidationErrors
<1> QED BY <1>1, <1>2, <1>3 DEF Next

LEMMA TrackedIsSelected == Inv /\ Tracked /\ ReadToTheEnd => FindsWhatIsSelected
<1> SUFFICES ASSUME Inv, Tracked, stack = <<>>, at = Len(submission) + 1
             PROVE  Yield = UNION {Selected(submission[k]) : k \in DOMAIN submission}
  BY DEF ReadToTheEnd, FindsWhatIsSelected, Yield
<1> PICK D : Progress(D)
  BY DEF Tracked
<1>1. Read(D) = {}
  BY DEF Read
<1>2. 1 .. at - 1 = DOMAIN submission
  BY DEF Inv, Typed
<1> QED BY <1>1, <1>2 DEF Progress, Earlier

\* find_inputs_with, skipping and nesting as it does, finds exactly the values
\* that a submission selects.
THEOREM SearchIsExact == Spec => []FindsWhatIsSelected
<1>1. Init => Inv /\ Tracked /\ ReadToTheEnd
  BY TypesInit, TrackedInit DEF Init, ReadToTheEnd, ValidationErrors
<1>2. Inv /\ Tracked /\ ReadToTheEnd /\ [Next]_vars => (Inv /\ Tracked /\ ReadToTheEnd)'
  BY TypesStep, TrackedStep, ReadToTheEndStep
<1> QED BY <1>1, <1>2, TrackedIsSelected, PTL DEF Spec

----------------------------------------------------------------------------
(* A submission that answers its definition is accepted *)

\* Why a search ends without acceptance.
Explained ==
  /\ outcome \in Errors => \E m \in DOMAIN submission : ~Legible(submission[m])
  /\ outcome \in ValidationErrors => outcome \in ValidationVerdict

LEMMA LegibilityStays ==
  ASSUME UNCHANGED definition
  PROVE  \A chain : Legible(chain)' <=> Legible(chain)
<1>1. \A id : DescriptorIndices(id)' = DescriptorIndices(id) /\ Descriptor(id)' = Descriptor(id)
  BY DEF Descriptor, DescriptorIndices
<1>2. \A chain, k : Branches(chain, k)' = Branches(chain, k)
  BY SelectionStays DEF Branches
<1>3. \A d, format : Takes(d, format)' <=> Takes(d, format)
  BY DEF Takes
<1> QED BY <1>1, <1>2, <1>3 DEF Legible

LEMMA TakenIsAllowed ==
  ASSUME NEW d, NEW format
  PROVE  Takes(d, format) <=> FormatAllowed(d, format)
  BY DEF Takes, FormatAllowed

\* The items at work lie on a branch of the map at work.
LEMMA ItemsLieOnABranch ==
  ASSUME Inv, Tracked, stack # <<>>, Top.items # <<>>
  PROVE  \E t \in Branches(submission[at], Depth) : t[Depth] = Item
<1> PICK D : Progress(D)
  BY DEF Tracked
<1> PICK top : top = Depth
  OBVIOUS
<1> PICK t : t = [j \in 1 .. top |-> Head(stack[j].items)]
  OBVIOUS
<1>1. top \in Nat \ {0} /\ DOMAIN stack = 1 .. top /\ top \in 1 .. top
  BY DEF Inv, Typed, Depth
<1>2. ASSUME NEW j \in 1 .. top
      PROVE  /\ t[j] \in Items /\ t[j] = Head(stack[j].items)
             /\ t[j] \in Contained(From(j), submission[at][j].path)
             /\ j < top => Satisfies(submission[at][j], t[j])
  <2>1. stack[j] \in Frame /\ stack[j].items # <<>>
    <3>1. CASE j < top
      BY <1>1, <3>1, LevelType DEF Inv, Suspended
    <3>2. CASE j = top
      BY <1>1, <3>2, LevelType DEF Top
    <3> QED BY <1>1, <3>1, <3>2
  <2>2. Head(stack[j].items) \in Items /\ Head(stack[j].items) \in ItemsOf(stack[j].items)
    BY <2>1, HeadAndTail DEF Frame
  <2>3. FrameHolds(j, D[j]) /\ t[j] = Head(stack[j].items)
    BY <1>1 DEF Progress
  <2> QED BY <2>2, <2>3 DEF FrameHolds
<1>3. ASSUME NEW j \in 1 .. top PROVE From(j) = IF j = 1 THEN Root ELSE t[j - 1]
  <2>1. j # 1 => j - 1 \in 1 .. top
    BY <1>1
  <2> QED BY <1>2, <2>1 DEF From
<1>4. t \in Branches(submission[at], top)
  <2>1. t \in [1 .. top -> Items]
    BY <1>2
  <2> QED BY <1>2, <1>3, <2>1 DEF Branches
<1>5. t[top] = Item
  BY <1>1, <1>2 DEF Item, Top
<1> QED BY <1>4, <1>5

\* A level that cannot be entered, or an item that cannot be read, is one the
\* map should not have named.
LEMMA EnterErrorIsIllegible ==
  ASSUME Inv, at \in DOMAIN submission, Depth + 1 \in DOMAIN submission[at],
         EnterError(submission[at][Depth + 1]) # "pending"
  PROVE  ~Legible(submission[at])
  BY TakenIsAllowed DEF EnterError, Legible

LEMMA ItemErrorIsIllegible ==
  ASSUME Inv, Tracked, ItemFails
  PROVE  ~Legible(submission[at])
<1>1. stack # <<>> /\ Top.items # <<>> /\ ItemError # "pending"
  BY DEF ItemFails, AtItem
<1>2. PICK t \in Branches(submission[at], Depth) : t[Depth] = Item
  BY <1>1, ItemsLieOnABranch
<1>3. Depth \in DOMAIN submission[at] /\ Item \in Items /\ Level = submission[at][Depth]
  BY <1>1, LevelType, TopType DEF Level
<1>4. IsNested <=> Depth # Len(submission[at])
  BY <1>1, <1>3, LevelType DEF IsNested
<1>5. ~(\/ Decoding[Item] = "json"
        \/ Decoding[Item] = "opaque" /\ Depth = Len(submission[at]) /\ Descriptor(Level.id).fields = {})
  BY <1>1, <1>4 DEF ItemError
<1> QED BY <1>2, <1>3, <1>5 DEF Legible

LEMMA EnterIsExplained ==
  ASSUME Inv, outcome = "pending", at \in DOMAIN submission, Depth + 1 \in DOMAIN submission[at],
         NEW value, Enter(value, submission[at][Depth + 1])
  PROVE  Explained'
<1>1. CASE EnterError(submission[at][Depth + 1]) # "pending"
  <2>1. UNCHANGED <<definition, submission>> /\ outcome' \in Errors
    BY <1>1 DEF Enter, Fails, EnterError, Errors
  <2>2. ~Legible(submission[at])'
    <3> PICK chain : chain = submission[at]
      OBVIOUS
    <3>1. ~Legible(chain)
      BY <1>1, EnterErrorIsIllegible
    <3>2. ~Legible(chain)'
      BY <2>1, <3>1, LegibilityStays
    <3> QED BY <1>1, <3>2 DEF Enter, Fails
  <2>3. at' \in DOMAIN submission'
    BY <1>1 DEF Enter, Fails
  <2> QED BY <2>1, <2>2, <2>3 DEF Explained, Errors, ValidationErrors
<1>2. CASE EnterError(submission[at][Depth + 1]) = "pending"
  BY <1>2 DEF Enter, Explained, Errors, ValidationErrors
<1> QED BY <1>1, <1>2

LEMMA ExplainedStep == Inv /\ Tracked /\ Explained /\ [Next]_vars => Explained'
<1> SUFFICES ASSUME Inv, Tracked, Explained, [Next]_vars PROVE Explained'
  OBVIOUS
<1>1. CASE UNCHANGED vars
  <2>1. ValidationVerdict' = ValidationVerdict
    BY <1>1, VerdictStays DEF vars
  <2> QED BY <1>1, <2>1, LegibilityStays DEF vars, Explained
<1>2. CASE StartMap
  <2>1. /\ stack = <<>> /\ Depth = 0 /\ outcome = "pending" /\ at <= Len(submission)
        /\ Enter(Root, submission[at][1])
    BY <1>2 DEF StartMap, Depth
  <2>2. at \in DOMAIN submission
    BY <2>1 DEF Inv, Typed
  <2>3. 1 \in DOMAIN submission[at]
    BY <2>2 DEF Inv, Typed
  <2> QED BY <2>1, <2>2, <2>3, EnterIsExplained
<1>3. CASE ItemFails
  <2>1. UNCHANGED <<definition, submission, at>> /\ outcome' \in Errors
    BY <1>3 DEF ItemFails, Fails, ItemError, Errors
  <2>2. at \in DOMAIN submission
    BY <1>3, LevelType DEF ItemFails, AtItem, Inv, Typed
  <2> PICK chain : chain = submission[at]
    OBVIOUS
  <2>3. ~Legible(chain)'
    BY <1>3, <2>1, ItemErrorIsIllegible, LegibilityStays
  <2> QED BY <2>1, <2>2, <2>3 DEF Explained, Errors, ValidationErrors
<1>4. CASE Descend
  <2>1. stack # <<>> /\ IsNested /\ outcome = "pending" /\ Enter(Item, submission[at][Depth + 1])
    BY <1>4 DEF Descend, Matching, AtItem
  <2>2. at \in DOMAIN submission /\ Depth + 1 \in DOMAIN submission[at]
    <3>1. at \in DOMAIN submission /\ submission[at] \in Seq(ALevel) /\ Depth \in Nat
      BY <2>1, LevelType DEF Inv, Typed
    <3> QED BY <2>1, <3>1, NestedLevelType
  <2> QED BY <2>1, <2>2, EnterIsExplained
<1>5. CASE SkipItem \/ KeepItem \/ ReturnNested \/ ReturnMap
  <2>1. outcome' = "pending"
    BY <1>5 DEF SkipItem, KeepItem, ReturnNested, ReturnMap, Matching, AtItem, Returning
  <2> QED BY <2>1 DEF Explained, Errors, ValidationErrors
<1>6. CASE Validate
  <2>1. outcome' \in ValidationVerdict /\ UNCHANGED <<definition, submission, inputs>>
    BY <1>6 DEF Validate
  <2>2. ValidationVerdict' = ValidationVerdict
    BY <2>1, VerdictStays
  <2>3. outcome' \notin Errors
    BY <2>1, VerdictType DEF Errors, ValidationErrors
  <2> QED BY <2>1, <2>2, <2>3 DEF Explained
<1> QED BY <1>1, <1>2, <1>3, <1>4, <1>5, <1>6 DEF Next

LEMMA ExplainedIsAccepted == Inv /\ Explained /\ FindsWhatIsSelected => ConformingIsAccepted
<1> SUFFICES ASSUME Inv, Explained, FindsWhatIsSelected, outcome \notin {"pending", "accepted"}, Conforming
             PROVE  FALSE
  BY DEF ConformingIsAccepted
<1>1. outcome \in ValidationErrors
  BY DEF Inv, Typed, Outcomes, Explained, Conforming
<1>2. MissingDescriptor
  BY <1>1 DEF Explained, ValidationVerdict, Conforming, ValidationErrors
<1>3. PICK k \in DOMAIN definition.descriptors : definition.descriptors[k].id \notin DOMAIN ByDescriptor
  BY <1>2 DEF MissingDescriptor
<1>4. PICK t : t[1] = definition.descriptors[k].id /\ t \in UNION {Selected(submission[m]) : m \in DOMAIN submission}
  BY DEF Conforming
<1>5. t \in Yield
  BY <1>1, <1>4 DEF FindsWhatIsSelected, Yield
<1>6. PICK i \in DOMAIN inputs : t[1] = inputs[i].descriptor
  BY <1>5 DEF Yield
<1>7. inputs[i].descriptor \in DOMAIN ByDescriptor
  BY DEF ByDescriptor, GroupByInputDescriptor
<1> QED BY <1>3, <1>4, <1>6, <1>7

\* find_and_validate_inputs refuses no submission that answers its definition.
THEOREM AnswersAreAccepted == Spec => []ConformingIsAccepted
<1>1. Init => Inv /\ Tracked /\ ReadToTheEnd /\ Explained
  BY TypesInit, TrackedInit DEF Init, ReadToTheEnd, Explained, Errors, ValidationErrors
<1>2. /\ Inv /\ Tracked /\ ReadToTheEnd /\ Explained /\ [Next]_vars
        => (Inv /\ Tracked /\ ReadToTheEnd /\ Explained)'
  BY TypesStep, TrackedStep, ReadToTheEndStep, ExplainedStep
<1>3. Inv /\ Tracked /\ ReadToTheEnd /\ Explained => ConformingIsAccepted
  BY TrackedIsSelected, ExplainedIsAccepted
<1> QED BY <1>1, <1>2, <1>3, PTL DEF Spec

----------------------------------------------------------------------------
(* The wallet's and the verifier's reading of a field *)

LEMMA LeastNumber ==
  ASSUME NEW T \in SUBSET Nat, T # {}
  PROVE  \E n \in T : \A m \in T : n <= m
<1>1. PICK n \in T : \A m \in T : ~(<<m, n>> \in OpToRel(<, Nat))
  BY NatLessThanWellFounded, WFMin
<1>2. \A m \in T : ~(m < n)
  BY <1>1, Zenon DEF OpToRel
<1> QED BY <1>2

LEMMA GreatestIndex ==
  ASSUME NEW n \in Nat, NEW T \in SUBSET (1 .. n), T # {}
  PROVE  \E k \in T : \A l \in T : l <= k
<1> DEFINE U == {n - k : k \in T}
<1>1. U \in SUBSET Nat /\ U # {}
  <2>1. \A k \in T : n - k \in Nat
    OBVIOUS
  <2> QED BY <2>1
<1>2. PICK u \in U : \A v \in U : u <= v
  BY <1>1, LeastNumber
<1>3. PICK k \in T : u = n - k
  BY <1>2
<1>4. ASSUME NEW l \in T PROVE l <= k
  <2>1. n - k <= n - l
    BY <1>2, <1>3
  <2> QED BY <2>1
<1> QED BY <1>4

\* An id that is defined has a descriptor of the definition.
LEMMA DescriptorIsDefined ==
  ASSUME Typed, NEW id, DescriptorIndices(id) # {}
  PROVE  \E k \in DOMAIN definition.descriptors : Descriptor(id) = definition.descriptors[k]
<1> DEFINE T == DescriptorIndices(id)
<1>1. PICK n \in Nat : DOMAIN definition.descriptors = 1 .. n
  BY DefinitionsAssumption DEF Typed
<1>2. T \in SUBSET (1 .. n)
  BY <1>1 DEF DescriptorIndices
<1>3. \E k \in T : \A l \in T : l <= k
  BY <1>2, GreatestIndex
<1>4. (CHOOSE k \in T : \A l \in T : l <= k) \in DOMAIN definition.descriptors
  BY <1>1, <1>2, <1>3
<1> QED BY <1>4 DEF Descriptor

Fields(def) == UNION {def.descriptors[k].fields : k \in DOMAIN def.descriptors}

LEMMA PositionType ==
  ASSUME NEW def \in Definitions, NEW f \in Fields(def), NEW x \in Items, NEW p \in Positions(f, x)
  PROVE  p[1] \in Nat /\ p[2] \in Nat /\ Value(f, x, p) \in Items
<1>1. f.paths \in Seq(Paths)
  BY DefinitionsAssumption DEF Fields
<1>2. PICK k \in DOMAIN f.paths : p \in {k} \X DOMAIN Query[x][f.paths[k]]
  BY DEF Positions
<1>3. f.paths[k] \in Paths /\ k \in Nat
  BY <1>1
<1>4. Query[x][f.paths[k]] \in Seq(Items)
  BY <1>3, ItemsAssumption
<1>5. p[1] = k /\ p[2] \in DOMAIN Query[x][f.paths[k]]
  BY <1>2
<1> QED BY <1>3, <1>4, <1>5 DEF Value

\* ConstraintsField::query finds something if and only if some value passes.
LEMMA QueryFindsWhatPasses ==
  ASSUME NEW def \in Definitions, NEW f \in Fields(def), NEW x \in Items
  PROVE  FieldQuery(f, x) # None <=> Passing(f, x) # {}
<1>1. ASSUME Passing(f, x) # {} PROVE FieldQuery(f, x) # None
  <2> DEFINE P == Passing(f, x)
  <2>1. \A p \in P : p[1] \in Nat /\ p[2] \in Nat /\ Value(f, x, p) \in Items
    BY PositionType DEF Passing
  <2>2. PICK i \in {p[1] : p \in P} : \A j \in {p[1] : p \in P} : i <= j
    <3>1. {p[1] : p \in P} \in SUBSET Nat /\ {p[1] : p \in P} # {}
      BY <1>1, <2>1
    <3> QED BY <3>1, LeastNumber
  <2> DEFINE S == {p[2] : p \in {q \in P : q[1] = i}}
  <2>3. PICK l \in S : \A m \in S : l <= m
    <3>1. S \in SUBSET Nat /\ S # {}
      BY <2>1, <2>2
    <3> QED BY <3>1, LeastNumber
  <2>4. PICK p \in P : p[1] = i /\ p[2] = l
    BY <2>3
  <2>5. ASSUME NEW q \in P PROVE Before(p, q)
    <3>1. i <= q[1] /\ (q[1] = i => l <= q[2])
      BY <2>2, <2>3
    <3> QED BY <2>1, <2>4, <3>1 DEF Before
  <2>6. First(P) \in P
    BY <2>4, <2>5 DEF First
  <2>7. Value(f, x, First(P)) \in Items
    BY <2>1, <2>6
  <2> QED BY <1>1, <2>7, DefinitionsAssumption DEF FieldQuery
<1>2. Passing(f, x) = {} => FieldQuery(f, x) = None
  BY DEF FieldQuery
<1> QED BY <1>1, <1>2

LEMMA HoldsIfPassing ==
  ASSUME NEW def \in Definitions, NEW k \in DOMAIN def.descriptors,
         NEW f \in def.descriptors[k].fields, NEW x \in Items
  PROVE  f.name \in Holds[x] <=> Passing(f, x) # {}
<1>1. f \in Fields(def)
  BY DEF Fields
<1> QED BY <1>1, QueryFindsWhatPasses, HoldsAssumption

\* An item that fails a required field of a descriptor of the definition, while
\* is_credential_match takes it, has nothing where a field without a filter looks.
LEMMA MismatchIsAbsence ==
  ASSUME NEW def \in Definitions, NEW k \in DOMAIN def.descriptors, NEW x \in Items,
         ~ConstraintsMatch(def.descriptors[k], x), IsCredentialMatch(def, x)
  PROVE  \E f \in RequiredFields(def.descriptors[k]) :
           f.filter = None /\ RequestedField(f, x).raw_fields = {}
<1>1. PICK f \in def.descriptors[k].fields : ~f.optional /\ f.name \notin Holds[x]
  BY DEF ConstraintsMatch
<1>2. f \in RequiredFields(def.descriptors[k]) /\ Passing(f, x) = {}
  BY <1>1, HoldsIfPassing DEF RequiredFields
<1>3. f.filter = None
  BY <1>2 DEF IsCredentialMatch, Passing
<1>4. RequestedField(f, x).raw_fields = {}
  BY <1>2, <1>3 DEF RequestedField, Passing
<1> QED BY <1>2, <1>3, <1>4

\* What is_credential_match takes, the verifier keeps, but for absent fields.
THEOREM MatchesAreKept == Spec => MatchIsKept
<1> DEFINE Keeps == SkipItem /\ IsCredentialMatch(definition, Item) =>
                      \E f \in RequiredFields(Descriptor(Level.id)) :
                        f.filter = None /\ RequestedField(f, Item).raw_fields = {}
<1>1. Init => Inv /\ Sound
  BY TypesInit, SoundInit
<1>2. Inv /\ Sound /\ [Next]_vars => (Inv /\ Sound)'
  BY TypesStep, SoundStep
<1>3. Inv /\ Sound => Keeps
  <2> SUFFICES ASSUME Inv, Sound, SkipItem, IsCredentialMatch(definition, Item)
               PROVE  \E f \in RequiredFields(Descriptor(Level.id)) :
                        f.filter = None /\ RequestedField(f, Item).raw_fields = {}
    OBVIOUS
  <2>1. stack # <<>> /\ Top.items # <<>> /\ ~ConstraintsMatch(Descriptor(Level.id), Item)
    BY DEF SkipItem, AtItem
  <2>2. Item \in Items /\ EnterError(Level) = "pending"
    BY <2>1, TopType DEF Sound, FramesSuit, Level
  <2>3. DescriptorIndices(Level.id) # {}
    BY <2>2 DEF EnterError
  <2>4. PICK k \in DOMAIN definition.descriptors : Descriptor(Level.id) = definition.descriptors[k]
    BY <2>3, DescriptorIsDefined DEF Inv
  <2> QED BY <2>1, <2>2, <2>4, MismatchIsAbsence DEF Inv, Typed
<1>4. Inv /\ Sound /\ [Next]_vars => [Keeps]_vars
  BY <1>3
<1> QED BY <1>1, <1>2, <1>4, PTL DEF Spec, MatchIsKept

\* A credential that satisfies every descriptor is a match for the wallet.
THEOREM SatisfyingIsMatch ==
  \A def \in Definitions : \A x \in Items :
    (\A k \in DOMAIN def.descriptors : ConstraintsMatch(def.descriptors[k], x)) => IsCredentialMatch(def, x)
<1> SUFFICES ASSUME NEW def \in Definitions, NEW x \in Items,
                    \A k \in DOMAIN def.descriptors : ConstraintsMatch(def.descriptors[k], x),
                    NEW k \in DOMAIN def.descriptors, NEW f \in RequiredFields(def.descriptors[k])
             PROVE  f.filter = None \/ \E p \in Positions(f, x) : Value(f, x, p) \in f.filter
  BY DEF IsCredentialMatch
<1>1. f \in def.descriptors[k].fields /\ f.name \in Holds[x]
  BY DEF ConstraintsMatch, RequiredFields
<1>2. Passing(f, x) # {}
  BY <1>1, HoldsIfPassing
<1> QED BY <1>2 DEF Passing

==============================================================================
