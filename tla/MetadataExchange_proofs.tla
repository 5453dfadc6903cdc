----------------------- MODULE MetadataExchange_proofs -----------------------
(***************************************************************************)
(* Theorems about MetadataExchange.  The inductive invariant says what the *)
(* two halves of the wallet's metadata hold whatever was done to them: the *)
(* typed copies are values, the untyped object has a list, nothing or an   *)
(* unreadable value for each of the two lists that can be added to, and    *)
(* the two agree on what was not given or changed apart.                   *)
(***************************************************************************)
EXTENDS MetadataExchange, TLAPS

Lists == SUBSET Names

\* The untyped object and the typed copies, whatever was done to them.
Sound(m) ==
  /\ DOMAIN m = {"raw", "typed"} /\ DOMAIN m.raw = MetadataKeys /\ DOMAIN m.typed = MetadataKeys
  /\ \A k \in {Prefixes, SigningAlgs} : m.raw[k] \in Lists \cup {Absent, Bad}
  /\ \A k \in MetadataKeys : m.typed[k] \notin {Absent, Bad}

\* The typed copies are those of the untyped object, but for the keys apart.
Agree ==
  \A k \in MetadataKeys \ apart :
    mine.typed[k] = IF Readable(mine.raw, k) THEN mine.raw[k] ELSE ListDefault[k]

Inv == Sound(mine) /\ TypeOK /\ Agree

\* What the key sets are made of.
LEMMA Keys ==
  /\ {Prefixes, SigningAlgs} \subseteq MetadataKeys \ Required /\ Prefixes # SigningAlgs
  /\ Required \subseteq MetadataKeys
  /\ \A k \in MetadataKeys \ Required : k \in Optional
BY MetadataAssumption DEF Prefixes, SigningAlgs, MetadataKeys

\* A default is a list.
LEMMA Defaults == \A k \in Optional : ListDefault[k] \in Lists /\ ListDefault[k] \notin {Absent, Bad}
BY MetadataAssumption DEF Lists

\* WalletMetadata::new gives a value to every typed copy.
LEMMA NewIsSound ==
  ASSUME NEW parts \in RequiredParts, NEW o \in Objects PROVE Sound(NewMetadata(parts, o))
<1> DEFINE m == NewMetadata(parts, o)
<1>1. /\ DOMAIN m = {"raw", "typed"} /\ m.raw = o
      /\ m.typed = [k \in MetadataKeys |-> IF k \in Required THEN parts[k] ELSE ListDefault[k]]
  BY DEF NewMetadata
<1>2. DOMAIN m.raw = MetadataKeys /\ \A k \in {Prefixes, SigningAlgs} : m.raw[k] \in Lists \cup {Absent, Bad}
  BY <1>1, MetadataAssumption DEF Lists
<1>3. ASSUME NEW k \in MetadataKeys PROVE m.typed[k] \notin {Absent, Bad}
  BY <1>1, Keys, Defaults, MetadataAssumption
<1> QED BY <1>1, <1>2, <1>3 DEF Sound

\* What decoding keeps of an object that has the required members.
LEMMA DecodedTyped ==
  ASSUME NEW o, Decodable(o)
  PROVE  /\ DOMAIN FromObject(o) = {"raw", "typed"} /\ FromObject(o).raw = o
         /\ DOMAIN FromObject(o).typed = MetadataKeys
         /\ \A k \in MetadataKeys :
              /\ FromObject(o).typed[k] = IF Readable(o, k) THEN o[k] ELSE ListDefault[k]
              /\ FromObject(o).typed[k] \notin {Absent, Bad}
<1>1. /\ DOMAIN FromObject(o) = {"raw", "typed"} /\ FromObject(o).raw = o
      /\ FromObject(o).typed = [k \in MetadataKeys |-> IF Readable(o, k) THEN o[k] ELSE ListDefault[k]]
  BY DEF FromObject
<1>2. ASSUME NEW k \in MetadataKeys PROVE FromObject(o).typed[k] \notin {Absent, Bad}
  <2>1. CASE Readable(o, k)
    BY <1>1, <2>1 DEF Readable
  <2>2. CASE ~Readable(o, k)
    <3>1. k \in Optional
      BY <2>2, Keys DEF Decodable
    <3> QED BY <1>1, <2>2, <3>1, Defaults
  <2> QED BY <2>1, <2>2
<1> QED BY <1>1, <1>2

\* What the wallet publishes.
LEMMA Published ==
  ASSUME NEW m, Sound(m)
  PROVE  /\ DOMAIN ToObject(m) = MetadataKeys
         /\ ToObject(m).authorization_endpoint = m.typed.authorization_endpoint
         /\ ToObject(m).vp_formats_supported = m.typed.vp_formats_supported
         /\ \A k \in MetadataKeys \ {"authorization_endpoint", "vp_formats_supported"} :
              ToObject(m)[k] = m.raw[k]
<1>1. /\ "authorization_endpoint" \in MetadataKeys /\ "vp_formats_supported" \in MetadataKeys
  BY Keys DEF Required
<1> QED BY <1>1 DEF Sound, ToObject

LEMMA InitIsSound == Init => Inv
<1> SUFFICES ASSUME Init PROVE Inv
  OBVIOUS
<1>1. theirs = None
  BY DEF Init
<1>2. Sound(mine) /\ Agree
  <2>1. CASE \E parts \in RequiredParts, o \in Objects :
               mine = NewMetadata(parts, o) /\ apart = MetadataKeys
    BY <2>1, NewIsSound DEF Agree
  <2>2. CASE \E o \in Objects : Decodable(o) /\ mine = FromObject(o)
    <3>1. PICK o \in Objects : Decodable(o) /\ mine = FromObject(o)
      BY <2>2
    <3>2. DOMAIN o = MetadataKeys /\ \A k \in {Prefixes, SigningAlgs} : o[k] \in Lists \cup {Absent, Bad}
      BY MetadataAssumption DEF Lists
    <3> QED BY <3>1, <3>2, DecodedTyped DEF Sound, Agree
  <2> QED BY <2>1, <2>2 DEF Init
<1> QED BY <1>1, <1>2 DEF Inv, TypeOK, Sound

\* A change of the wallet's own metadata that is sound leaves the copy alone.
LEMMA MineChanged == ASSUME Inv, Sound(mine'), Agree', theirs' = theirs PROVE Inv'
BY DEF Inv, TypeOK, Sound

\* Add puts a list into the untyped object that has what was there.
LEMMA Appended ==
  ASSUME Inv, NEW key \in {Prefixes, SigningAlgs}, NEW values \in Lists, Add(key, values)
  PROVE  \E list \in Lists : /\ mine' = [mine EXCEPT !.raw[key] = list]
                             /\ ValueOrDefault(mine.raw, key) \subseteq list
<1>1. ValueOrDefault(mine.raw, key) \in Lists
  <2>1. mine.raw[key] \in Lists \cup {Absent}
    BY DEF Inv, Sound, Add, CanAppend
  <2>2. key \in Optional
    BY MetadataAssumption
  <2> QED BY <2>1, <2>2, Defaults DEF ValueOrDefault
<1>2. ValueOrDefault(mine.raw, key) \cup values \in Lists
  BY <1>1 DEF Lists
<1>3. mine' = [mine EXCEPT !.raw[key] = ValueOrDefault(mine.raw, key) \cup values]
  BY DEF Add, AppendList
<1>4. WITNESS ValueOrDefault(mine.raw, key) \cup values \in Lists
<1> QED BY <1>3

\* Replacing one member of the untyped object.
LEMMA RawReplaced ==
  ASSUME NEW m, Sound(m), NEW key, NEW value,
         key \in {Prefixes, SigningAlgs} => value \in Lists
  PROVE  /\ Sound([m EXCEPT !.raw[key] = value])
         /\ [m EXCEPT !.raw[key] = value].typed = m.typed
         /\ \A k : k # key => [m EXCEPT !.raw[key] = value].raw[k] = m.raw[k]
<1> DEFINE n == [m EXCEPT !.raw[key] = value]
<1>1. DOMAIN n = {"raw", "typed"} /\ n.typed = m.typed /\ n.raw = [m.raw EXCEPT ![key] = value]
  BY DEF Sound
<1>2. DOMAIN n.raw = MetadataKeys
  BY <1>1 DEF Sound
<1>3. \A k \in {Prefixes, SigningAlgs} : n.raw[k] \in Lists \cup {Absent, Bad}
  BY <1>1, <1>2, Keys DEF Sound
<1>4. \A k : k # key => n.raw[k] = m.raw[k]
  BY <1>1
<1> QED BY <1>1, <1>2, <1>3, <1>4 DEF Sound

\* A key that was changed in the untyped object is apart.
LEMMA RestAgrees ==
  ASSUME Inv, NEW key, mine'.typed = mine.typed, \A k : k # key => mine'.raw[k] = mine.raw[k],
         apart' = apart \cup {key}
  PROVE  Agree'
BY DEF Inv, Agree, Readable

\* The invariant is kept by every step.
LEMMA StepIsSound == ASSUME Inv, [Next]_vars PROVE Inv'
<1>1. ASSUME NEW key \in {Prefixes, SigningAlgs}, NEW values \in Lists, Add(key, values) PROVE Inv'
  <2>0. PICK list \in Lists : mine' = [mine EXCEPT !.raw[key] = list]
    BY <1>1, Appended
  <2>1. /\ Sound(mine') /\ mine'.typed = mine.typed
        /\ \A k : k # key => mine'.raw[k] = mine.raw[k]
    BY <2>0, RawReplaced DEF Inv
  <2>2. Agree'
    BY <1>1, <2>1, RestAgrees DEF Add
  <2> QED BY <1>1, <2>1, <2>2, MineChanged DEF Add
<1>2. ASSUME NEW formats \in FormatMaps, ReplaceFormats(formats) PROVE Inv'
  <2>1. mine' = [mine EXCEPT !.typed.vp_formats_supported = formats]
    BY <1>2 DEF ReplaceFormats, SetFormats
  <2>2. formats \notin {Absent, Bad}
    BY MetadataAssumption
  <2>3. Sound(mine')
    BY <2>1, <2>2 DEF Inv, Sound
  <2>4. Agree'
    <3>1. /\ mine'.raw = mine.raw /\ apart' = apart \cup {"vp_formats_supported"}
          /\ \A k \in MetadataKeys \ {"vp_formats_supported"} : mine'.typed[k] = mine.typed[k]
      BY <1>2, <2>1 DEF ReplaceFormats, Inv, Sound
    <3> QED BY <3>1 DEF Inv, Agree
  <2> QED BY <1>2, <2>3, <2>4, MineChanged DEF ReplaceFormats
<1>3. ASSUME NEW i \in Inserts, Insert(i[1], i[2]) PROVE Inv'
  <2>1. mine' = [mine EXCEPT !.raw[i[1]] = i[2]]
    BY <1>3 DEF Insert, InsertRaw
  <2>2. i[1] \in {Prefixes, SigningAlgs} => i[2] \in Lists
    BY MetadataAssumption DEF Lists
  <2>3. /\ Sound(mine') /\ mine'.typed = mine.typed
        /\ \A k : k # i[1] => mine'.raw[k] = mine.raw[k]
    BY <2>1, <2>2, RawReplaced DEF Inv
  <2>4. Agree'
    BY <1>3, <2>3, RestAgrees DEF Insert
  <2> QED BY <1>3, <2>3, <2>4, MineChanged DEF Insert
<1>4. ASSUME Publish PROVE Inv'
  <2>1. /\ mine' = mine /\ apart' = apart
        /\ theirs' = FromObject(ToObject(mine)) /\ Decodable(ToObject(mine))
    BY <1>4 DEF Publish
  <2>2. Agree'
    BY <2>1 DEF Inv, Agree
  <2> QED BY <2>1, <2>2, DecodedTyped DEF Inv, TypeOK, Sound
<1>5. ASSUME UNCHANGED vars PROVE Inv'
  BY <1>5 DEF Inv, TypeOK, Sound, Agree, vars
<1>6. PrefixLists \subseteq Lists /\ AlgLists \subseteq Lists
  BY MetadataAssumption DEF Lists
<1>7. Adding => \E key \in {Prefixes, SigningAlgs}, values \in Lists : Add(key, values)
  BY <1>6 DEF Adding
<1> QED BY <1>1, <1>2, <1>3, <1>4, <1>5, <1>7 DEF Next

\* The two halves of the metadata stay what TypeOK says, whatever constructor,
\* method or DerefMut has made or changed them.
THEOREM MetadataTypeOK == Spec => []TypeOK
<1>1. Inv => TypeOK
  BY DEF Inv
<1> QED BY InitIsSound, StepIsSound, <1>1, PTL DEF Spec

\* The lists that are published of the untyped object and enforced from the
\* typed copies.
ListsOfBoth == {"response_types_supported", "subject_syntax_types_supported"}

\* The copy is that of the typed copies which are written back.
WrittenBack(copy) ==
  \A k \in {"vp_formats_supported", "authorization_endpoint"} : copy.typed[k] = mine.typed[k]

\* Only Publish changes the verifier's copy, to what the wallet enforces.
LEMMA PublishingIsFaithful ==
  ASSUME Inv, Next, theirs' # theirs
  PROVE  /\ mine.raw[Prefixes] # Bad => theirs'.typed[Prefixes] = EnforcedPrefixes(mine)
         /\ WrittenBack(theirs')
         /\ \A k \in ListsOfBoth \ apart : theirs'.typed[k] = mine.typed[k]
<1>1. Publish
  BY DEF Next, Adding, Add, ReplaceFormats, Insert
<1> DEFINE o == ToObject(mine)
<1>2. theirs' = FromObject(o) /\ Decodable(o) /\ Sound(mine)
  BY <1>1 DEF Publish, Inv
<1>3. \A k \in MetadataKeys : theirs'.typed[k] = IF Readable(o, k) THEN o[k] ELSE ListDefault[k]
  BY <1>2, DecodedTyped
<1>4. /\ o.authorization_endpoint = mine.typed.authorization_endpoint
      /\ o.vp_formats_supported = mine.typed.vp_formats_supported
      /\ \A k \in MetadataKeys \ {"authorization_endpoint", "vp_formats_supported"} :
           o[k] = mine.raw[k]
  BY <1>2, Published
<1>5. /\ {Prefixes, "authorization_endpoint", "vp_formats_supported"} \subseteq MetadataKeys
      /\ ListsOfBoth \subseteq MetadataKeys
  BY Keys, MetadataAssumption DEF Required, MetadataKeys, ListsOfBoth
<1>6. Readable(o, "authorization_endpoint") /\ Readable(o, "vp_formats_supported")
  BY <1>2 DEF Decodable, Required
<1>7. ASSUME mine.raw[Prefixes] # Bad PROVE theirs'.typed[Prefixes] = EnforcedPrefixes(mine)
  <2>1. o[Prefixes] = mine.raw[Prefixes]
    BY <1>4, <1>5 DEF Prefixes
  <2> QED BY <1>3, <1>5, <1>7, <2>1, MetadataAssumption DEF Readable, EnforcedPrefixes, ValueOrDefault
<1>8. ASSUME NEW k \in ListsOfBoth \ apart PROVE theirs'.typed[k] = mine.typed[k]
  <2>1. o[k] = mine.raw[k] /\ k \in MetadataKeys
    BY <1>4, <1>5 DEF ListsOfBoth
  <2> QED BY <1>3, <2>1 DEF Inv, Agree, Readable
<1> QED BY <1>3, <1>4, <1>5, <1>6, <1>7, <1>8 DEF WrittenBack

\* What the verifier's copy says of prefixes, formats and the endpoint, and, of
\* metadata whose two halves were not given or changed apart, of response types
\* and subject syntax types, is what the wallet enforces when it publishes it,
\* for every history of the wallet's metadata.
THEOREM PublishedCopyIsEnforced == Spec => PublishedIsEnforced
<1>1. Inv /\ [Next]_vars =>
        [theirs' # theirs =>
          /\ mine.raw[Prefixes] # Bad => theirs'.typed[Prefixes] = EnforcedPrefixes(mine)
          /\ \A k \in {"vp_formats_supported", "authorization_endpoint"} :
               theirs'.typed[k] = mine.typed[k]
          /\ \A k \in {"response_types_supported", "subject_syntax_types_supported"} \ apart :
               theirs'.typed[k] = mine.typed[k]]_vars
  BY PublishingIsFaithful DEF WrittenBack, ListsOfBoth, vars
<1> QED BY InitIsSound, StepIsSound, <1>1, PTL DEF Spec, PublishedIsEnforced

\* Add keeps what the other list holds, and what its own list held.
LEMMA AddingKeeps ==
  ASSUME Inv, Adding
  PROVE  /\ EnforcedPrefixes(mine) \subseteq EnforcedPrefixes(mine')
         /\ EnforcedAlgs(mine) \subseteq EnforcedAlgs(mine')
<1>1. PrefixLists \subseteq Lists /\ AlgLists \subseteq Lists
  BY MetadataAssumption DEF Lists
<1>2. PICK key \in {Prefixes, SigningAlgs}, values \in Lists : Add(key, values)
  BY <1>1 DEF Adding
<1>3. PICK list \in Lists : /\ mine' = [mine EXCEPT !.raw[key] = list]
                            /\ ValueOrDefault(mine.raw, key) \subseteq list
  BY <1>2, Appended
<1>4. mine'.raw = [mine.raw EXCEPT ![key] = list] /\ DOMAIN mine.raw = MetadataKeys
  BY <1>3 DEF Inv, Sound
<1>5. list \notin {Absent, Bad}
  BY <1>3, MetadataAssumption DEF Lists
<1>6. /\ mine'.raw[key] = list
      /\ \A k \in {Prefixes, SigningAlgs} : k # key => mine'.raw[k] = mine.raw[k]
  BY <1>4, Keys
<1>7. EnforcedPrefixes(mine) \subseteq EnforcedPrefixes(mine')
  BY <1>3, <1>5, <1>6, MetadataAssumption DEF EnforcedPrefixes, ValueOrDefault
<1>8. EnforcedAlgs(mine) \subseteq EnforcedAlgs(mine')
  BY <1>3, <1>5, <1>6, MetadataAssumption DEF EnforcedAlgs, ValueOrDefault, Readable
<1> QED BY <1>7, <1>8

\* A prefix or an algorithm that is added takes none away, whatever the list
\* was before.
THEOREM NothingIsWithdrawn == Spec => AddingWithdrawsNothing
<1>1. Inv /\ [Next]_vars =>
        [Adding => /\ EnforcedPrefixes(mine) \subseteq EnforcedPrefixes(mine')
                   /\ EnforcedAlgs(mine) \subseteq EnforcedAlgs(mine')]_vars
  BY AddingKeeps
<1> QED BY InitIsSound, StepIsSound, <1>1, PTL DEF Spec, AddingWithdrawsNothing

----------------------------------------------------------------------------
(* What is_client_id_prefix_supported is late about *)

\* A prefix that is added is let pass by the wallet at once, and the copy that
\* is published next lists it, with every other prefix the wallet lets pass.
AddedPrefixIsHonoured ==
  /\ \A values \in PrefixLists : Add(Prefixes, values) => values \subseteq EnforcedPrefixes(mine')
  /\ theirs' # theirs => \A p \in EnforcedPrefixes(mine) : IsClientIdPrefixSupported(theirs', p)

LEMMA AddedIsEnforced ==
  ASSUME Inv, NEW values \in PrefixLists, Add(Prefixes, values)
  PROVE  values \subseteq EnforcedPrefixes(mine')
<1> DEFINE list == ValueOrDefault(mine.raw, Prefixes) \cup values
<1>1. mine' = AppendList(mine, Prefixes, values) /\ mine.raw[Prefixes] # Bad
  BY DEF Add, CanAppend
<1>2. mine'.raw[Prefixes] = list
  <2>1. DOMAIN mine = {"raw", "typed"} /\ Prefixes \in DOMAIN mine.raw
    BY Keys DEF Inv, Sound
  <2> QED BY <1>1, <2>1 DEF AppendList
<1>3. ValueOrDefault(mine.raw, Prefixes) \in Lists /\ values \in Lists
  BY <1>1, Keys, Defaults, MetadataAssumption DEF Inv, Sound, ValueOrDefault, Lists
<1>4. list \in Lists /\ list \notin {Absent, Bad}
  BY <1>3, MetadataAssumption DEF Lists
<1> HIDE DEF list
<1>5. EnforcedPrefixes(mine') = list
  BY <1>2, <1>4 DEF EnforcedPrefixes, ValueOrDefault
<1> QED BY <1>5 DEF list

\* metadata/mod.rs:108 and :126: only the answer of the metadata that was
\* changed lags behind; what the wallet accepts and what it publishes do not.
THEOREM AddedPrefixTakesEffect == Spec => [][AddedPrefixIsHonoured]_vars
<1>1. Inv /\ [Next]_vars => [AddedPrefixIsHonoured]_vars
  <2> SUFFICES ASSUME Inv, Next PROVE AddedPrefixIsHonoured
    OBVIOUS
  <2>1. ASSUME theirs' # theirs, NEW p \in EnforcedPrefixes(mine)
        PROVE  IsClientIdPrefixSupported(theirs', p)
    <3>1. mine.raw[Prefixes] # Bad
      BY <2>1 DEF EnforcedPrefixes
    <3>2. theirs'.typed[Prefixes] = EnforcedPrefixes(mine)
      BY <2>1, <3>1, PublishingIsFaithful
    <3> QED BY <2>1, <3>2 DEF IsClientIdPrefixSupported, Prefixes
  <2> QED BY <2>1, AddedIsEnforced DEF AddedPrefixIsHonoured
<1> QED BY InitIsSound, StepIsSound, <1>1, PTL DEF Spec

============================================================================
