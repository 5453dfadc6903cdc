--------------------------- MODULE SubmissionInputs ---------------------------
(***************************************************************************)
(* PresentationSubmission::find_and_validate_inputs: the verifier finds in *)
(* a vp_token the inputs a presentation submission points to, and checks   *)
(* them against its presentation definition                                *)
(* (core/presentation_submission.rs, core/presentation_definition.rs,      *)
(* core/input_descriptor.rs).                                              *)
(*                                                                         *)
(* JSON values are constants, Items, with what a path finds in them, what  *)
(* the decoder makes of them and which constraint fields find a value in   *)
(* them.  A descriptor map and its path_nested are a sequence of levels    *)
(* [id, format, path].  The recursion of find_inputs_with is a stack with  *)
(* one frame per level.                                                    *)
(***************************************************************************)
EXTENDS Naturals, Sequences, FiniteSets

CONSTANTS
  Ids,            \* ids of input descriptors
  Formats,        \* claim format designations
  Paths,          \* JSON paths
  Items,          \* JSON values, encoded or decoded
  Root,           \* the vp_token
  Query,          \* Query[item][path]: the items at path in the decoded item
  Decoding,       \* Decoding[item]: "json", "opaque" (no JSON form), "invalid"
  Holds,          \* Holds[item]: the fields that find a value passing their filter
  Definitions,    \* presentation definitions
  Submissions,    \* descriptor maps of submissions
  None

ASSUME ItemsAssumption ==
  /\ Root \in Items
  /\ Query \in [Items -> [Paths -> Seq(Items)]]
  /\ Decoding \in [Items -> {"json", "opaque", "invalid"}]

ASSUME SubmissionsAssumption ==
  \A s \in Submissions : s \in Seq(Seq([id : Ids, format : Formats, path : Paths]) \ {<<>>})

VARIABLES
  definition,     \* [descriptors, formats, requirements]
  submission,     \* sequence of descriptor maps
  at,             \* index of the descriptor map at work
  stack,          \* [items, found]: items left at a level, inputs found there
  inputs,         \* the decoded inputs
  returned,       \* the inputs that the descriptor maps found directly
  outcome

vars == <<definition, submission, at, stack, inputs, returned, outcome>>

Errors ==
  {"undefined_input_descriptor", "format_mismatch", "decoding", "nesting_unsupported"}
ValidationErrors == {"missing", "too_small", "too_large", "wrong_size"}
Outcomes == {"pending", "accepted"} \cup Errors \cup ValidationErrors

----------------------------------------------------------------------------
(* Presentation definitions *)

\* input_descriptors_map: of two descriptors with one id the later counts.
DescriptorIndices(id) == {k \in DOMAIN definition.descriptors : definition.descriptors[k].id = id}

Descriptor(id) ==
  definition.descriptors[CHOOSE k \in DescriptorIndices(id) : \A l \in DescriptorIndices(id) : l <= k]

\* The formats of the descriptor, or else those of the definition; a
\* definition without any takes every format.
FormatAllowed(descriptor, format) ==
  \/ format \in descriptor.formats
  \/ descriptor.formats = {} /\ (definition.formats = {} \/ format \in definition.formats)

\* Faulty variant: one field is enough.
ConstraintsMatchPartly(descriptor, item) ==
  descriptor.fields = {} \/ \E f \in descriptor.fields : f.optional \/ f.name \in Holds[item]

\* Constraints::matches: an optional field never fails.
ConstraintsMatch(descriptor, item) ==
  \A f \in descriptor.fields : f.optional \/ f.name \in Holds[item]

----------------------------------------------------------------------------
(* MatchingInputs::validate *)

\* group_by_input_descriptor, also for by_descriptor.
GroupByInputDescriptor(ins, indices) ==
  [d \in {ins[i].descriptor : i \in indices} |-> {i \in indices : ins[i].descriptor = d}]

ByDescriptor == GroupByInputDescriptor(inputs, DOMAIN inputs)

InGroup(group) ==
  {definition.descriptors[k].id :
     k \in {l \in DOMAIN definition.descriptors : group \in definition.descriptors[l].groups}}

\* validate_group; None where a bound of a Pick rule is not given.
GroupVerdict(r) ==
  LET ids   == InGroup(r.from)
      count == Cardinality({i \in DOMAIN inputs : inputs[i].descriptor \in ids}) IN
  IF r.rule = "all"
    THEN IF ids \subseteq DOMAIN ByDescriptor THEN "accepted" ELSE "missing"
  ELSE IF r.min # None /\ count < r.min THEN "too_small"
  ELSE IF r.max # None /\ count > r.max THEN "too_large"
  ELSE IF r.count # None /\ count # r.count THEN "wrong_size"
  ELSE "accepted"

Faulty(k) == GroupVerdict(definition.requirements[k]) # "accepted"

MissingDescriptor ==
  \E k \in DOMAIN definition.descriptors : definition.descriptors[k].id \notin DOMAIN ByDescriptor

\* The verdict, as a singleton: that of the first faulty requirement, if there
\* is one.  SubmissionRequirement::validate validates every requirement nested
\* in a from_nested one, for both rules, so that requirements are the sequence
\* of those with a from.
ValidationVerdict ==
  IF definition.requirements = None
    THEN {IF MissingDescriptor THEN "missing" ELSE "accepted"}
  ELSE LET indices == DOMAIN definition.requirements IN
       {GroupVerdict(definition.requirements[k]) :
          k \in {l \in indices : Faulty(l) /\ \A n \in indices : n < l => ~Faulty(n)}}
       \cup {v \in {"accepted"} : \A k \in indices : ~Faulty(k)}

----------------------------------------------------------------------------
(* DescriptorMap::find_inputs_with *)

Init ==
  /\ definition \in Definitions /\ submission \in Submissions
  /\ at = 1 /\ stack = <<>> /\ inputs = <<>> /\ returned = {} /\ outcome = "pending"

Depth == Len(stack)
Top == stack[Depth]
Item == Head(Top.items)
Level == submission[at][Depth]
IsNested == Depth < Len(submission[at])

Fails(error) ==
  outcome' = error /\ UNCHANGED <<definition, submission, at, stack, inputs, returned>>

EnterError(level) ==
  IF DescriptorIndices(level.id) = {} THEN "undefined_input_descriptor"
  ELSE IF ~FormatAllowed(Descriptor(level.id), level.format) THEN "format_mismatch"
  ELSE "pending"

\* A call of find_inputs_with on a value.
Enter(value, level) ==
  IF EnterError(level) # "pending" THEN Fails(EnterError(level))
  ELSE /\ stack' = Append(stack, [items |-> Query[value][level.path], found |-> {}])
       /\ UNCHANGED <<definition, submission, at, inputs, returned, outcome>>

StartMap ==
  /\ outcome = "pending" /\ stack = <<>> /\ at <= Len(submission)
  /\ Enter(Root, submission[at][1])

AtItem == outcome = "pending" /\ stack # <<>> /\ Top.items # <<>>

\* Faulty variant: a value without a JSON form is refused wherever it is.
ItemErrorOfAnyOpaque ==
  IF Decoding[Item] = "invalid" THEN "decoding"
  ELSE IF Decoding[Item] = "opaque" THEN "nesting_unsupported"
  ELSE "pending"

ItemError ==
  IF Decoding[Item] = "invalid" THEN "decoding"
  ELSE IF Decoding[Item] = "opaque" /\ (Descriptor(Level.id).fields # {} \/ IsNested)
    THEN "nesting_unsupported"
  ELSE "pending"

ItemFails == AtItem /\ ItemError # "pending" /\ Fails(ItemError)

\* The frame f after its first item, having found the inputs in new.
After(f, new) == [items |-> Tail(f.items), found |-> f.found \cup new]

\* The constraints do not match: the next item.
SkipItem ==
  /\ AtItem /\ ItemError = "pending" /\ ~ConstraintsMatch(Descriptor(Level.id), Item)
  /\ stack' = [stack EXCEPT ![Depth] = After(@, {})]
  /\ UNCHANGED <<definition, submission, at, inputs, returned, outcome>>

Matching == AtItem /\ ItemError = "pending" /\ ConstraintsMatch(Descriptor(Level.id), Item)

Descend ==
  /\ Matching /\ IsNested
  /\ Enter(Item, submission[at][Depth + 1])

DecodedInput(level, item, indices) ==
  [descriptor |-> level.id, format |-> level.format, value |-> item,
   nested |-> GroupByInputDescriptor(inputs, indices)]

\* Faulty variant: the item stays the next one.
KeepItemAgain ==
  /\ Matching /\ ~IsNested
  /\ inputs' = Append(inputs, DecodedInput(Level, Item, {}))
  /\ stack' = [stack EXCEPT ![Depth].found = @ \cup {Len(inputs) + 1}]
  /\ UNCHANGED <<definition, submission, at, returned, outcome>>

KeepItem ==
  /\ Matching /\ ~IsNested
  /\ inputs' = Append(inputs, DecodedInput(Level, Item, {}))
  /\ stack' = [stack EXCEPT ![Depth] = After(@, {Len(inputs) + 1})]
  /\ UNCHANGED <<definition, submission, at, returned, outcome>>

\* The frame of the caller, and what it was called for.
Caller == stack[Depth - 1]
Parent == DecodedInput(submission[at][Depth - 1], Head(Caller.items), Top.found)

Returning == outcome = "pending" /\ Depth > 1 /\ Top.items = <<>>

\* Faulty variant: an item in which nothing was found is kept as well.
ReturnNestedAlways ==
  /\ Returning
  /\ inputs' = Append(inputs, Parent)
  /\ stack' = Append(SubSeq(stack, 1, Depth - 2), After(Caller, {Len(inputs) + 1}))
  /\ UNCHANGED <<definition, submission, at, returned, outcome>>

\* Faulty variant: what was found is not recorded in the item.
ReturnNestedUnrecorded ==
  /\ Returning
  /\ IF Top.found = {}
     THEN /\ stack' = Append(SubSeq(stack, 1, Depth - 2), After(Caller, {}))
          /\ UNCHANGED inputs
     ELSE /\ stack' = Append(SubSeq(stack, 1, Depth - 2), After(Caller, {Len(inputs) + 1}))
          /\ inputs' = Append(inputs, [Parent EXCEPT !.nested = <<>>])
  /\ UNCHANGED <<definition, submission, at, returned, outcome>>

\* A nested call returns; its caller drops the item if nothing was found.
ReturnNested ==
  /\ Returning
  /\ IF Top.found = {}
     THEN /\ stack' = Append(SubSeq(stack, 1, Depth - 2), After(Caller, {}))
          /\ UNCHANGED inputs
     ELSE /\ stack' = Append(SubSeq(stack, 1, Depth - 2), After(Caller, {Len(inputs) + 1}))
          /\ inputs' = Append(inputs, Parent)
  /\ UNCHANGED <<definition, submission, at, returned, outcome>>

\* Faulty variant: the frame of one descriptor map is left to the next.
ReturnMapKeepingFrame ==
  /\ outcome = "pending" /\ Depth = 1 /\ Top.items = <<>>
  /\ returned' = returned \cup Top.found /\ at' = at + 1
  /\ UNCHANGED <<definition, submission, stack, inputs, outcome>>

\* PresentationSubmission::find_inputs goes to the next descriptor map.
ReturnMap ==
  /\ outcome = "pending" /\ Depth = 1 /\ Top.items = <<>>
  /\ returned' = returned \cup Top.found /\ at' = at + 1 /\ stack' = <<>>
  /\ UNCHANGED <<definition, submission, inputs, outcome>>

Validate ==
  /\ outcome = "pending" /\ stack = <<>> /\ at > Len(submission)
  /\ outcome' \in ValidationVerdict
  /\ UNCHANGED <<definition, submission, at, stack, inputs, returned>>

Next ==
  \/ StartMap \/ ItemFails \/ SkipItem \/ Descend \/ KeepItem
  \/ ReturnNested \/ ReturnMap \/ Validate

Spec == Init /\ [][Next]_vars

----------------------------------------------------------------------------
(* Properties *)

\* The stack follows path_nested, one frame for each level of the descriptor
\* map at work, and is gone when the last map has been read.
TypeOK ==
  /\ outcome \in Outcomes
  /\ at \in 1 .. Len(submission) + 1 /\ returned \subseteq DOMAIN inputs
  /\ IF at <= Len(submission) THEN Depth <= Len(submission[at]) ELSE stack = <<>>
  /\ \A k \in DOMAIN stack : stack[k].found \subseteq DOMAIN inputs
  /\ \A k \in DOMAIN inputs : inputs[k].value \in Items

Nested(i) == UNION {inputs[i].nested[d] : d \in DOMAIN inputs[i].nested}

\* Where an input may be referred to: by another input, by a call that has
\* not returned, or as found by a descriptor map; and what is referred to there.
Places == ({"input"} \X DOMAIN inputs) \cup ({"frame"} \X DOMAIN stack) \cup {<<"maps", 0>>}

At(p) ==
  IF p[1] = "input" THEN Nested(p[2]) ELSE IF p[1] = "frame" THEN stack[p[2]].found ELSE returned

\* The inputs are a forest: the nested entries of an input are earlier inputs
\* of the descriptor they are filed under, no input is referred to twice, and
\* none is left behind by a level that was given up (find_inputs_with pushes to
\* one vector from all levels and skips items afterwards).
InputsFormAForest ==
  /\ \A i \in DOMAIN inputs : \A d \in DOMAIN inputs[i].nested : \A j \in inputs[i].nested[d] :
       j < i /\ inputs[j].descriptor = d
  /\ UNION {At(p) : p \in Places} = DOMAIN inputs
  /\ \A p, q \in Places : p # q => At(p) \cap At(q) = {}

\* Where the search is: the map at work, and how many items are left at each
\* of its levels.
Left(k) == Len(stack[k].items)

\* Each step of the search takes it forward: to a verdict, to the next map, or,
\* with as many items left at each level above, to fewer at a level or into a
\* level not entered before.  As levels and items are finite in number, the
\* recursion over path_nested ends on every submission, whatever is decoded,
\* skipped or found in an item.
SearchMovesForward ==
  [][\/ outcome' # "pending"
     \/ at' = at + 1 /\ at <= Len(submission)
     \/ /\ at' = at /\ Len(stack') <= Len(submission[at])
        /\ \E k \in DOMAIN stack' :
             /\ \A j \in 1 .. k - 1 : j \in DOMAIN stack /\ Left(j)' = Left(j)
             /\ k \in DOMAIN stack => Left(k)' < Left(k)]_vars

(* What a descriptor map selects: the items on the branches that lead from *)
(* the root through every level, each item at the path in the one before   *)
(* and satisfying the descriptor of its level.                             *)

Satisfies(level, item) ==
  LET d == Descriptor(level.id) IN
  {f.name : f \in {g \in d.fields : ~g.optional}} \subseteq Holds[item]

Contained(item, path) == {Query[item][path][n] : n \in DOMAIN Query[item][path]}

\* The branches down to level k; the last item is not asked to satisfy.
Branches(chain, k) ==
  {t \in [1 .. k -> Items] :
     \A j \in 1 .. k :
       /\ t[j] \in Contained(IF j = 1 THEN Root ELSE t[j - 1], chain[j].path)
       /\ j < k => Satisfies(chain[j], t[j])}

Selected(chain) ==
  LET n == Len(chain) IN
  UNION {{<<chain[k].id, chain[k].format, t[k]>> : k \in 1 .. n} :
           t \in {u \in Branches(chain, n) : Satisfies(chain[n], u[n])}}

\* A submission that is read to its end yields the inputs it selects, no more
\* and no fewer, whatever is skipped on the way.
FindsWhatIsSelected ==
  outcome \in {"accepted"} \cup ValidationErrors =>
    {<<inputs[i].descriptor, inputs[i].format, inputs[i].value>> : i \in DOMAIN inputs}
      = UNION {Selected(submission[k]) : k \in DOMAIN submission}

\* An accepted submission satisfies the definition: every descriptor that is
\* asked for (all of them without requirements, those of a group under an
\* "all" rule) has an item that holds its required fields, in a format the
\* definition allows.
AcceptedSatisfiesDefinition ==
  outcome = "accepted" =>
    \A k \in DOMAIN definition.descriptors :
      LET d == definition.descriptors[k] IN
      \/ /\ definition.requirements # None
         /\ \A l \in DOMAIN definition.requirements :
              LET r == definition.requirements[l] IN r.rule = "all" => r.from \notin d.groups
      \/ \E i \in DOMAIN inputs :
           /\ inputs[i].descriptor = d.id /\ Decoding[inputs[i].value] # "invalid"
           /\ {f.name : f \in {g \in Descriptor(d.id).fields : ~g.optional}}
                \subseteq Holds[inputs[i].value]
           /\ FormatAllowed(Descriptor(d.id), inputs[i].format)

----------------------------------------------------------------------------
(* What the documentation says, and the code does not do *)

\* presentation_definition.rs: a Pick rule counts "the descriptor maps that
\* match the grouped input descriptors".  Then a rule with a count that is
\* refused for its size asks for more or fewer than the descriptor maps of its
\* group have found, whatever the levels nested in them have found besides.
PickCountsDescriptorMaps ==
  outcome = "wrong_size" =>
    \E k \in DOMAIN definition.requirements :
      LET r == definition.requirements[k] IN
      /\ r.rule # "all" /\ r.count # None
      /\ r.count # Cardinality({i \in returned : inputs[i].descriptor \in InGroup(r.from)})

============================================================================
