-------------------------- MODULE MCSubmissionInputs --------------------------
(***************************************************************************)
(* A vp_token with one presentation that holds four credentials, one of    *)
(* them with a credential inside; definitions of one and two descriptors;  *)
(* submissions of up to two descriptor maps of up to three levels.         *)
(***************************************************************************)
EXTENDS CredentialSelection

MCItems == {"root", "vp", "good", "bare", "opaque", "broken", "inner", "degree", "licence", "acme"}

MCPaths == {"$", "all", "in", "good", "bare", "opaque", "broken", "nowhere", "type", "vct", "issuer"}

\* What is found at the paths: "$" the presentation, "all" every credential
\* with a JSON form, "in" the credential inside, and each one on its own;
\* types, of which "good" has two, are at "type" or at "vct".
MCQuery ==
  [x \in MCItems |-> [p \in MCPaths |->
     IF x = "root" /\ p = "$" THEN <<"vp">>
     ELSE IF x = "vp" /\ p = "all" THEN <<"bare", "good">>
     ELSE IF x = "good" /\ p = "in" THEN <<"inner", "bare">>
     ELSE IF x = "vp" /\ p \in MCItems THEN <<p>>
     ELSE IF x = "good" /\ p = "type" THEN <<"licence", "degree">>
     ELSE IF x = "bare" /\ p = "type" THEN <<"licence">>
     ELSE IF x = "vp" /\ p = "type" THEN <<"degree">>
     ELSE IF x = "inner" /\ p = "vct" THEN <<"degree">>
     ELSE IF x = "bare" /\ p = "issuer" THEN <<"acme">>
     ELSE <<>>]]

MCDecoding ==
  [x \in MCItems |-> IF x = "broken" THEN "invalid" ELSE IF x = "opaque" THEN "opaque" ELSE "json"]

----------------------------------------------------------------------------
Type == SetFilter(AddPath(NewField("type", "vct"), "type"), {"degree"})
Issuer == NewField("issuer", "issuer")
Name == SetOptional(NewField("name", "nowhere"), TRUE)

\* A type is found in the presentation and in two credentials, an issuer in one.
MCHolds == [x \in MCItems |-> {f.name : f \in {g \in {Type, Issuer, Name} : FieldQuery(g, x) # None}}]

InGroupOf(descriptor, group) == [descriptor EXCEPT !.groups = {group}]

A == InGroupOf(NewDescriptor("a", {Type, Name}), "g")
B == InGroupOf(NewDescriptor("b", {}), "h")
Two == AddInputDescriptor(NewDefinition(A), B)

All(group) == [rule |-> "all", from |-> group]
Pick(group, count, min, max) ==
  [rule |-> "pick", from |-> group, count |-> count, min |-> min, max |-> max]

\* One descriptor, two, two of one id, two that ask for different fields; a
\* format for all; requirements of one and of two rules, and none at all.
MCDefinitions ==
  {NewDefinition(A), Two,
   AddInputDescriptor(NewDefinition(NewDescriptor("a", {})),
                      SetFormat(NewDescriptor("a", {Type}), {"jwt_vc"})),
   AddInputDescriptor(NewDefinition(NewDescriptor("a", {Type})), NewDescriptor("b", {Issuer})),
   SetFormat(Two, {"jwt_vc"}),
   AddSubmissionRequirement(Two, Pick("g", 1, None, None)),
   AddSubmissionRequirement(AddSubmissionRequirement(Two, All("g")), Pick("h", None, 1, 2)),
   SetSubmissionRequirements(Two, <<>>)}

\* Two levels, and three built from the inside, with the ids given.
In(map, nested) == SetPathNested(map, nested)
M(id, format, path) == NewMap(id, format, path)

Chains ==
  {M("a", "jwt_vp", "$"),
   In(M("a", "jwt_vp", "$"), M("a", "jwt_vc", "all")),
   In(M("b", "jwt_vc", "$"), In(M("a", "jwt_vc", "all"), M("a", "jwt_vc", "in"))),
   In(M("a", "jwt_vc", "$"), In(M("b", "jwt_vc", "all"), M("b", "jwt_vc", "in"))),
   In(M("b", "jwt_vp", "$"), M("b", "jwt_vc", "opaque")),
   In(M("b", "jwt_vp", "$"), In(M("b", "jwt_vc", "opaque"), M("b", "jwt_vc", "in"))),
   In(M("b", "jwt_vp", "$"), In(M("b", "jwt_vc", "all"), M("c", "jwt_vc", "good"))),
   In(M("b", "jwt_vc", "$"), M("b", "jwt_vc", "good"))}

\* A submission that is read as JSON may name any id at a level.
L(id, format, path) == M(id, format, path)[1]

ReadChains ==
  {<<L("a", "jwt_vc", "$"), L("b", "jwt_vc", "all"), L("a", "jwt_vc", "in")>>,
   <<L("a", "jwt_vp", "$"), L("a", "jwt_vc", "broken")>>,
   <<L("a", "jwt_vp", "$"), L("b", "jwt_vc", "nowhere")>>,
   <<L("b", "jwt_vp", "$"), L("c", "jwt_vc", "good")>>,
   <<L("b", "jwt_vc", "$"), L("a", "jwt_vc", "bare")>>}

MCSubmissions == {<<>>} \cup {<<m>> : m \in Chains \cup ReadChains} \cup {<<m, n>> : m, n \in Chains \cup ReadChains}

============================================================================
