------------------------- MODULE CredentialSelection -------------------------
(***************************************************************************)
(* The wallet's side of a presentation definition: the functions by which  *)
(* a wallet finds the credentials that answer it, shows its holder what is *)
(* asked for, and builds the descriptor maps of the submission             *)
(* (core/input_descriptor.rs, core/presentation_definition.rs,             *)
(* core/presentation_submission.rs), beside the verifier's search for      *)
(* inputs, which asks the same questions of the same values in its own way.*)
(*                                                                         *)
(* A constraint field is [name, optional, paths, filter]: a sequence of    *)
(* JSON paths and None or the values its JSON schema takes.                *)
(***************************************************************************)
EXTENDS SubmissionInputs

----------------------------------------------------------------------------
(* ConstraintsField *)

\* The places a field looks at in an item: its paths in order, and of each
\* path the values in order.
Positions(f, x) == UNION {{k} \X DOMAIN Query[x][f.paths[k]] : k \in DOMAIN f.paths}

Value(f, x, p) == Query[x][f.paths[p[1]]][p[2]]

Passing(f, x) == {p \in Positions(f, x) : f.filter = None \/ Value(f, x, p) \in f.filter}

Before(p, q) == p[1] < q[1] \/ (p[1] = q[1] /\ p[2] <= q[2])

First(ps) == CHOOSE p \in ps : \A q \in ps : Before(p, q)

\* Faulty variant: only the first value of each path is looked at.
FieldQueryOfFirstValues(f, x) ==
  LET firsts == {p \in Passing(f, x) : p[2] = 1} IN
  IF firsts = {} THEN None ELSE Value(f, x, First(firsts))

\* ConstraintsField::query.
FieldQuery(f, x) == IF Passing(f, x) = {} THEN None ELSE Value(f, x, First(Passing(f, x)))

\* ConstraintsField::requested_fields: what the holder is shown.
RequestedField(f, x) ==
  [name |-> f.name, required |-> ~f.optional,
   raw_fields |-> {Value(f, x, p) : p \in Positions(f, x)}]

ASSUME DefinitionsAssumption ==
  /\ \A def \in Definitions :
       Len(def.descriptors) \in Nat /\ DOMAIN def.descriptors = 1 .. Len(def.descriptors)
  /\ \A def \in Definitions : \A k \in DOMAIN def.descriptors : \A f \in def.descriptors[k].fields :
       f.paths \in Seq(Paths)
  /\ None \notin Items

\* Holds is what the fields of the definitions find.
ASSUME HoldsAssumption ==
  \A def \in Definitions : \A k \in DOMAIN def.descriptors : \A f \in def.descriptors[k].fields :
    \A x \in Items : f.name \in Holds[x] <=> FieldQuery(f, x) # None

----------------------------------------------------------------------------
(* InputDescriptor and PresentationDefinition *)

RequiredFields(descriptor) == {f \in descriptor.fields : ~f.optional}

\* PresentationDefinition::is_credential_match: a field without a filter
\* passes; the fields of all descriptors count.
IsCredentialMatch(def, x) ==
  \A k \in DOMAIN def.descriptors : \A f \in RequiredFields(def.descriptors[k]) :
    f.filter = None \/ \E p \in Positions(f, x) : Value(f, x, p) \in f.filter

----------------------------------------------------------------------------
(* How definitions are built *)

NewField(name, path) == [name |-> name, optional |-> FALSE, paths |-> <<path>>, filter |-> None]
AddPath(f, path) == [f EXCEPT !.paths = Append(@, path)]
SetFilter(f, values) == [f EXCEPT !.filter = values]
SetOptional(f, optional) == [f EXCEPT !.optional = optional]

NewDescriptor(id, fields) == [id |-> id, fields |-> fields, formats |-> {}, groups |-> {}]
SetFormat(x, formats) == [x EXCEPT !.formats = formats]

NewDefinition(descriptor) == [descriptors |-> <<descriptor>>, formats |-> {}, requirements |-> None]
AddInputDescriptor(def, descriptor) == [def EXCEPT !.descriptors = Append(@, descriptor)]
SetSubmissionRequirements(def, requirements) == [def EXCEPT !.requirements = requirements]
AddSubmissionRequirement(def, r) ==
  [def EXCEPT !.requirements = IF @ = None THEN <<r>> ELSE Append(@, r)]

----------------------------------------------------------------------------
(* DescriptorMap *)

NewMap(id, format, path) == <<[id |-> id, format |-> format, path |-> path]>>

\* set_path_nested: the nested map takes the id; what is nested in it, built
\* before, keeps its own.
SetPathNested(map, nested) ==
  <<map[1], [nested[1] EXCEPT !.id = map[1].id]>> \o Tail(nested)

----------------------------------------------------------------------------
(* Properties *)

\* A credential the wallet takes for a match of the definition is never passed
\* over by the verifier for its constraints, unless it lacks a required field
\* that has no filter: is_credential_match and Constraints::matches look at
\* the same paths and values, each in its own order and with its own exits.
MatchIsKept ==
  [][SkipItem /\ IsCredentialMatch(definition, Item) =>
       \E f \in RequiredFields(Descriptor(Level.id)) :
         f.filter = None /\ RequestedField(f, Item).raw_fields = {}]_vars

Takes(descriptor, format) ==
  LET allowed == IF descriptor.formats = {} THEN definition.formats ELSE descriptor.formats IN
  allowed = {} \/ format \in allowed

Legible(chain) ==
  \A k \in DOMAIN chain :
    /\ DescriptorIndices(chain[k].id) # {}
    /\ Takes(Descriptor(chain[k].id), chain[k].format)
    /\ \A t \in Branches(chain, k) :
         \/ Decoding[t[k]] = "json"
         \/ Decoding[t[k]] = "opaque" /\ k = Len(chain) /\ Descriptor(chain[k].id).fields = {}

Conforming ==
  /\ definition.requirements = None
  /\ \A m \in DOMAIN submission : Legible(submission[m])
  /\ \A k \in DOMAIN definition.descriptors : \E m \in DOMAIN submission :
       \E t \in Selected(submission[m]) : t[1] = definition.descriptors[k].id

\* A submission that answers its definition is accepted: where every level
\* names a descriptor and a format the definition takes, every value it
\* reaches can be read as far as it is needed, and some map selects a value
\* for each descriptor, neither the search nor the validation refuses it.
ConformingIsAccepted == outcome \notin {"pending", "accepted"} => ~Conforming

============================================================================
