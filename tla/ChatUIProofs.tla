---------------------------- MODULE ChatUIProofs ----------------------------
(***************************************************************************)
(* Theorems about ChatUI, and with it about ChatStore and SettingsStore,   *)
(* for any number of chats, calls, tokens, providers and acts.             *)
(***************************************************************************)
EXTENDS ChatUI, SequenceTheorems, FiniteSetTheorems, WellFoundedInduction, TLAPS

(* Operators on sequences *)

\* Some number of a set that does not go beyond a bound is the last.
LEMMA LastOne ==
  ASSUME NEW n \in Nat, NEW S \in SUBSET (1 .. n), S # {}
  PROVE  Max(S) \in S /\ \A j \in S : j <= Max(S)
<1> DEFINE beyond(i) == {j \in S : i <= j}
           D == {beyond(i) : i \in S}
<1>1. D \subseteq FiniteSubsetsOf(1 .. n) /\ D # {}
  <2>1. IsFiniteSet(1 .. n)
    BY FS_Interval
  <2>2. \A i \in S : beyond(i) \in SUBSET (1 .. n) /\ IsFiniteSet(beyond(i))
    BY <2>1, FS_Subset
  <2>. QED  BY <2>2 DEF FiniteSubsetsOf
<1>2. PICK X \in D : \A Y \in D : <<Y, X>> \notin StrictSubsetOrdering(1 .. n)
  BY <1>1, FS_StrictSubsetOrderingWellFounded, WFMin
<1>3. PICK i \in S : X = beyond(i)
  OBVIOUS
<1>4. ASSUME NEW j \in S PROVE j <= i
  <2>1. SUFFICES ASSUME ~(j <= i) PROVE FALSE
    OBVIOUS
  <2>2. beyond(j) \subseteq beyond(i) /\ i \in beyond(i) /\ i \notin beyond(j)
    <3>1. i \in Int /\ j \in Int /\ i \in S /\ i < j
      BY <1>3, <2>1
    <3>2. ASSUME NEW k \in S, j <= k PROVE i <= k
      BY <3>1, <3>2
    <3>3. beyond(j) \subseteq beyond(i)
      BY <3>2
    <3>4. i <= i /\ ~(j <= i)
      BY <3>1
    <3>. QED  BY <3>1, <3>3, <3>4
  <2>4. beyond(i) \in SUBSET (1 .. n) /\ beyond(j) \in SUBSET (1 .. n)
    OBVIOUS
  <2>3. <<beyond(j), beyond(i)>> \in StrictSubsetOrdering(1 .. n)
    <3> HIDE DEF beyond
    <3>. QED  BY <2>2, <2>4 DEF StrictSubsetOrdering
  <2>. QED  BY <1>2, <1>3, <2>3
<1>5. i \in S /\ \A j \in S : i >= j
  BY <1>4
<1>6. Max(S) \in S /\ \A j \in S : Max(S) >= j
  BY <1>5 DEF Max
<1>. QED
  BY <1>6

\* What filter leaves: each position of the result stands for one of the
\* positions that stay, and each of those is stood for.
Sifted(t, s, set) ==
  /\ \A n \in DOMAIN t : t[n] \in set
  /\ \E pos \in [DOMAIN t -> DOMAIN s] :
       /\ \A n \in DOMAIN t : t[n] = s[pos[n]]
       /\ \A m, n \in DOMAIN t : pos[m] = pos[n] => m = n
       /\ \A i \in DOMAIN s : s[i] \in set => \E n \in DOMAIN t : pos[n] = i

LEMMA FilterFacts ==
  ASSUME NEW E, NEW s \in Seq(E), NEW set
  PROVE  Filter(s, set) \in Seq(E) /\ Sifted(Filter(s, set), s, set)
<1> DEFINE stays == {i \in DOMAIN s : s[i] \in set}
           upto(i) == {j \in stays : j <= i}
           rank(i) == Cardinality(upto(i))
           k == Cardinality(stays)
           at == [i \in stays |-> rank(i)]
           pos == [n \in 1 .. k |-> CHOOSE i \in stays : rank(i) = n]
           t == Filter(s, set)
<1>1. /\ Len(s) \in Nat /\ DOMAIN s = 1 .. Len(s) /\ \A i \in DOMAIN s : s[i] \in E
  BY LenProperties, ElementOfSeq
<1>2. IsFiniteSet(stays) /\ k \in Nat
  <2>1. IsFiniteSet(1 .. Len(s)) /\ stays \in SUBSET (1 .. Len(s))
    BY <1>1, FS_Interval
  <2> HIDE DEF stays
  <2>. QED  BY <2>1, FS_Subset, FS_CardinalityType
<1>3. stays \subseteq Int /\ stays \subseteq DOMAIN s
  BY <1>1
<1>4. \A i \in stays : /\ upto(i) \in SUBSET stays /\ IsFiniteSet(upto(i)) /\ i \in upto(i)
                       /\ rank(i) \in 1 .. k
  <2>1. SUFFICES ASSUME NEW i \in stays
                 PROVE  /\ upto(i) \in SUBSET stays /\ IsFiniteSet(upto(i)) /\ i \in upto(i)
                        /\ rank(i) \in 1 .. k
    OBVIOUS
  <2>2. upto(i) \in SUBSET stays /\ i \in upto(i)
    BY <1>3
  <2> HIDE DEF stays
  <2>3. IsFiniteSet(upto(i)) /\ rank(i) \in Nat /\ rank(i) <= k
    BY <1>2, <2>2, FS_Subset, FS_CardinalityType
  <2>4. rank(i) # 0
    <3> HIDE DEF upto
    <3>. QED  BY <2>2, <2>3, FS_EmptySet
  <2>. QED  BY <1>2, <2>2, <2>3, <2>4
<1>5. \A i, j \in stays : rank(i) = rank(j) => i = j
  <2>1. ASSUME NEW i \in stays, NEW j \in stays, i < j PROVE rank(i) # rank(j)
    <3>1. upto(i) \in SUBSET upto(j) /\ j \in upto(j) /\ j \notin upto(i)
      BY <1>3, <2>1
    <3>2. IsFiniteSet(upto(j))
      BY <1>4
    <3> HIDE DEF upto
    <3>. QED  BY <3>1, <3>2, FS_Subset
  <2>2. SUFFICES ASSUME NEW i \in stays, NEW j \in stays, rank(i) = rank(j), i # j PROVE FALSE
    OBVIOUS
  <2> HIDE DEF rank
  <2>3. i < j \/ j < i
    BY <1>3, <2>2
  <2>. QED  BY <2>1, <2>2, <2>3
<1> HIDE DEF rank
<1>6. \A n \in 1 .. k : \E i \in stays : rank(i) = n
  <2>1. at \in Injection(stays, 1 .. k)
    <3>1. at \in [stays -> 1 .. k]
      BY <1>4
    <3>. QED  BY <1>5, <3>1 DEF Injection, IsInjective
  <2>2. IsFiniteSet(1 .. k) /\ Cardinality(1 .. k) = k
    <3> HIDE DEF k
    <3>. QED  BY <1>2, FS_Interval
  <2>3. at \in Surjection(stays, 1 .. k)
    BY <2>1, <2>2, FS_Injection
  <2>. QED  BY <2>3 DEF Surjection
<1>7. \A n \in 1 .. k : pos[n] \in stays /\ rank(pos[n]) = n
  <2>1. SUFFICES ASSUME NEW n \in 1 .. k PROVE pos[n] \in stays /\ rank(pos[n]) = n
    OBVIOUS
  <2>2. pos[n] = CHOOSE i \in stays : rank(i) = n
    OBVIOUS
  <2>. QED  BY <1>6, <2>2
<1>8. t = [n \in 1 .. k |-> s[pos[n]]]
  BY DEF Filter, rank
<1>9. pos \in [1 .. k -> DOMAIN s]
  <2>1. pos = [n \in 1 .. k |-> pos[n]]
    OBVIOUS
  <2>. QED  BY <1>3, <1>7, <2>1
<1> HIDE DEF pos, k, t
<1>10. DOMAIN t = 1 .. k /\ \A n \in DOMAIN t : t[n] = s[pos[n]]
  BY <1>8
<1>11. t \in Seq(E)
  <2>1. \A n \in 1 .. k : s[pos[n]] \in E
    BY <1>1, <1>3, <1>7
  <2>. QED  BY <1>2, <1>8, <2>1
<1>12. \A n \in DOMAIN t : t[n] \in set
  BY <1>7, <1>10
<1>13. \A m, n \in DOMAIN t : pos[m] = pos[n] => m = n
  BY <1>7, <1>10
<1>14. \A i \in DOMAIN s : s[i] \in set => \E n \in DOMAIN t : pos[n] = i
  <2>1. SUFFICES ASSUME NEW i \in DOMAIN s, s[i] \in set PROVE \E n \in DOMAIN t : pos[n] = i
    OBVIOUS
  <2>2. i \in stays
    BY <2>1
  <2>3. rank(i) \in 1 .. k
    BY <1>4, <2>2
  <2>4. pos[rank(i)] = i
    BY <1>5, <1>7, <2>2, <2>3
  <2>. QED  BY <1>10, <2>3, <2>4
<1>. QED
  BY <1>9, <1>10, <1>11, <1>12, <1>13, <1>14 DEF t, Sifted
-----------------------------------------------------------------------------
(* What is configured *)

Record == {s \in Settings : Configured(s)}
Id == Added \cup {Gateway}

LEMMA RecordShape ==
  ASSUME NEW s \in Record
  PROVE  /\ s \in Settings /\ s # None
         /\ s.providers \in Seq(Provider) /\ s.activeProviderId \in Id \cup {None}
         /\ \A i \in DOMAIN s.providers :
              /\ s.providers[i] \in Provider /\ s.providers[i].id \in Id /\ s.providers[i].id # None
<1>1. s \in Settings /\ s # None /\ s.providers \in Seq(Provider)
      /\ s.activeProviderId \in Id \cup {None}
  BY NoneAssumption DEF Record, Settings, Id
<1>2. \A i \in DOMAIN s.providers : s.providers[i] \in Provider
  BY <1>1, ElementOfSeq, LenProperties
<1>3. \A p \in Provider : p.id \in Id /\ p.id # None
  BY NamesAssumption DEF Provider, Id
<1>. QED
  BY <1>1, <1>2, <1>3

LEMMA DefaultIsConfigured == DefaultSettings \in Record
<1> DEFINE p == [id |-> Gateway, model |-> AutoModel]
<1>1. p \in Provider
  BY NamesAssumption DEF Provider
<1>2. /\ DefaultSettings.providers = <<p>> /\ DefaultSettings.activeProviderId = Gateway
      /\ DefaultSettings \in Settings
  BY <1>1 DEF DefaultSettings, Settings, Theme
<1>3. /\ DOMAIN DefaultSettings.providers = {1} /\ DefaultSettings.providers[1].id = Gateway
      /\ DefaultSettings.providers # <<>>
  BY <1>2
<1>4. Gateway \in Ids(DefaultSettings)
  BY <1>3 DEF Ids
<1>. QED
  BY <1>2, <1>3, <1>4 DEF Record, Configured

\* The theme and the switch have nothing to do with it.
LEMMA OtherSettings ==
  ASSUME NEW s \in Record, NEW theme \in Theme, NEW streaming \in BOOLEAN
  PROVE  /\ [s EXCEPT !.theme = theme] \in Record /\ [s EXCEPT !.theme = theme].theme = theme
         /\ [s EXCEPT !.streaming = streaming] \in Record
         /\ [s EXCEPT !.streaming = streaming].theme = s.theme
<1>1. s \in Settings /\ Configured(s)
  BY DEF Record
<1>2. ASSUME NEW n \in Settings, n.providers = s.providers, n.activeProviderId = s.activeProviderId
      PROVE  n \in Record
  BY <1>1, <1>2 DEF Record, Configured, Ids
<1>3. /\ [s EXCEPT !.theme = theme] \in Settings /\ [s EXCEPT !.streaming = streaming] \in Settings
      /\ [s EXCEPT !.theme = theme].theme = theme
      /\ [s EXCEPT !.streaming = streaming].theme = s.theme
      /\ [s EXCEPT !.theme = theme].providers = s.providers
      /\ [s EXCEPT !.theme = theme].activeProviderId = s.activeProviderId
      /\ [s EXCEPT !.streaming = streaming].providers = s.providers
      /\ [s EXCEPT !.streaming = streaming].activeProviderId = s.activeProviderId
  BY <1>1 DEF Settings
<1>. QED
  BY <1>2, <1>3

\* With other providers and another active one.
Reconfigured(s, providers, id) == [s EXCEPT !.providers = providers, !.activeProviderId = id]

LEMMA ReconfiguredFacts ==
  ASSUME NEW s \in Record, NEW providers \in Seq(Provider), NEW id \in Id \cup {None},
         \A i, j \in DOMAIN providers : providers[i].id = providers[j].id => i = j,
         IF providers = <<>> THEN id = None ELSE \E i \in DOMAIN providers : providers[i].id = id
  PROVE  Reconfigured(s, providers, id) \in Record /\ Reconfigured(s, providers, id).theme = s.theme
<1> DEFINE n == Reconfigured(s, providers, id)
<1>1. n \in Settings /\ n.providers = providers /\ n.activeProviderId = id /\ n.theme = s.theme
  BY DEF Reconfigured, Record, Settings, Id
<1> HIDE DEF n
<1>2. Ids(n) = {providers[i].id : i \in DOMAIN providers}
  BY <1>1 DEF Ids
<1>3. n \in Record
  BY <1>1, <1>2 DEF Record, Configured
<1>. QED
  BY <1>1, <1>3 DEF n

LEMMA WithAdded ==
  ASSUME NEW s \in Record, NEW p \in Provider, p.id \notin Ids(s),
         NEW n, n = [s EXCEPT !.providers = Append(@, p),
                              !.activeProviderId = IF @ = None THEN p.id ELSE @]
  PROVE  n \in Record /\ n.theme = s.theme
<1> DEFINE more == Append(s.providers, p)
           id == IF s.activeProviderId = None THEN p.id ELSE s.activeProviderId
           k == Len(s.providers)
<1>1. k \in Nat /\ DOMAIN s.providers = 1 .. k /\ s.providers \in Seq(Provider)
  BY RecordShape, LenProperties
<1>2. /\ more \in Seq(Provider) /\ DOMAIN more = 1 .. k + 1 /\ more[k + 1] = p
      /\ \A i \in 1 .. k : more[i] = s.providers[i]
  BY <1>1
<1>3. n = Reconfigured(s, more, id)
  BY RecordShape DEF Reconfigured, Settings
<1>4. p.id \in Id /\ id \in Id \cup {None}
  BY RecordShape DEF Provider, Id
<1>5. \A i \in 1 .. k : s.providers[i].id # p.id
  BY <1>1 DEF Ids
<1>6. Configured(s)
  BY DEF Record
<1>7. \A i \in 1 .. k + 1 : i \in 1 .. k \/ i = k + 1
  BY <1>1
<1> HIDE DEF more, k
<1>8. \A i, j \in DOMAIN more : more[i].id = more[j].id => i = j
  <2>1. \A i, j \in 1 .. k : s.providers[i].id = s.providers[j].id => i = j
    BY <1>1, <1>6 DEF Configured
  <2>. QED  BY <1>2, <1>5, <1>7, <2>1
<1>9. more # <<>> /\ \E i \in DOMAIN more : more[i].id = id
  <2>1. k + 1 \in DOMAIN more /\ 1 .. k \subseteq DOMAIN more
    BY <1>1, <1>2
  <2>2. CASE s.activeProviderId = None
    BY <1>2, <2>1, <2>2
  <2>3. CASE s.activeProviderId # None
    <3>1. PICK i \in 1 .. k : s.providers[i].id = s.activeProviderId
      BY <1>1, <1>6, <2>3 DEF Configured, Ids
    <3>. QED  BY <1>2, <2>1, <2>3, <3>1
  <2>. QED  BY <2>2, <2>3
<1> HIDE DEF id
<1>10. IF more = <<>> THEN id = None ELSE \E i \in DOMAIN more : more[i].id = id
  BY <1>9
<1>11. Reconfigured(s, more, id) \in Record /\ Reconfigured(s, more, id).theme = s.theme
  BY <1>2, <1>4, <1>8, <1>10, ReconfiguredFacts
<1>. QED
  BY <1>3, <1>11

WithModelOf(s, id, model) ==
  [s EXCEPT !.providers =
     [i \in DOMAIN @ |-> IF @[i].id = id THEN [@[i] EXCEPT !.model = model] ELSE @[i]]]

LEMMA WithModel ==
  ASSUME NEW s \in Record, NEW id, NEW model \in ModelNames, NEW n, n = WithModelOf(s, id, model)
  PROVE  n \in Record /\ n.theme = s.theme
<1> DEFINE set(i) == IF s.providers[i].id = id THEN [s.providers[i] EXCEPT !.model = model]
                     ELSE s.providers[i]
           other == [i \in DOMAIN s.providers |-> set(i)]
           k == Len(s.providers)
<1>1. k \in Nat /\ DOMAIN s.providers = 1 .. k /\ s.providers \in Seq(Provider)
  BY RecordShape, LenProperties
<1>2. \A i \in 1 .. k : set(i) \in Provider /\ set(i).id = s.providers[i].id
  <2>1. SUFFICES ASSUME NEW i \in 1 .. k PROVE set(i) \in Provider /\ set(i).id = s.providers[i].id
    OBVIOUS
  <2>2. s.providers[i] \in Provider
    BY <1>1, RecordShape
  <2>. QED  BY <2>2 DEF Provider
<1>3. n = Reconfigured(s, other, s.activeProviderId)
  BY RecordShape DEF Reconfigured, Settings, WithModelOf
<1> HIDE DEF set
<1>4. /\ other \in Seq(Provider) /\ DOMAIN other = 1 .. k
      /\ \A i \in 1 .. k : other[i].id = s.providers[i].id
  <2>1. \A i \in 1 .. k : other[i] = set(i)
    BY <1>1
  <2>2. other = [i \in 1 .. k |-> set(i)]
    BY <1>1
  <2>. QED  BY <1>1, <1>2, <2>1, <2>2, IsASeq
<1>5. Configured(s)
  BY DEF Record
<1>6. \A i, j \in DOMAIN other : other[i].id = other[j].id => i = j
  BY <1>1, <1>4, <1>5 DEF Configured
<1>7. IF other = <<>> THEN s.activeProviderId = None
      ELSE \E i \in DOMAIN other : other[i].id = s.activeProviderId
  <2>1. other = <<>> <=> s.providers = <<>>
    <3> HIDE DEF other, k
    <3>. QED  BY <1>1, <1>4
  <2>2. CASE other = <<>>
    BY <1>5, <2>1, <2>2 DEF Configured
  <2>3. CASE other # <<>>
    <3>1. PICK i \in 1 .. k : s.providers[i].id = s.activeProviderId
      BY <1>1, <1>5, <2>1, <2>3 DEF Configured, Ids
    <3>. QED  BY <1>4, <2>3, <3>1
  <2>. QED  BY <2>2, <2>3
<1> HIDE DEF other, k
<1>8. s.activeProviderId \in Id \cup {None}
  BY RecordShape
<1>9. /\ Reconfigured(s, other, s.activeProviderId) \in Record
      /\ Reconfigured(s, other, s.activeProviderId).theme = s.theme
  BY <1>4, <1>6, <1>7, <1>8, ReconfiguredFacts
<1>. QED
  BY <1>3, <1>9

LEMMA WithActive ==
  ASSUME NEW s \in Record, NEW id \in Ids(s), NEW n, n = [s EXCEPT !.activeProviderId = id]
  PROVE  n \in Record /\ n.theme = s.theme
<1>1. PICK i \in DOMAIN s.providers : s.providers[i].id = id
  BY DEF Ids
<1>2. Configured(s)
  BY DEF Record
<1>3. n = Reconfigured(s, s.providers, id)
  BY RecordShape DEF Reconfigured, Settings
<1>4. s.providers # <<>>
  BY <1>1
<1>5. id \in Id \cup {None} /\ s.providers \in Seq(Provider)
  BY <1>1, RecordShape
<1>. QED
  BY <1>1, <1>2, <1>3, <1>4, <1>5, ReconfiguredFacts DEF Configured

RestOf(s, id) == Filter(s.providers, {p \in Provider : p.id # id})

WithoutOf(s, id, rest, next) ==
  [s EXCEPT !.providers = rest, !.activeProviderId = IF @ = id THEN next ELSE @]

LEMMA WithRemoved ==
  ASSUME NEW s \in Record, NEW id \in Ids(s), NEW rest, NEW next, NEW n,
         rest = RestOf(s, id),
         next = (IF rest = <<>> THEN None ELSE Head(rest).id),
         n = WithoutOf(s, id, rest, next)
  PROVE  n \in Record /\ n.theme = s.theme
<1> DEFINE active == IF s.activeProviderId = id THEN next ELSE s.activeProviderId
           others == {p \in Provider : p.id # id}
<1>1. s.providers \in Seq(Provider) /\ Configured(s)
  BY RecordShape DEF Record
<1>2. rest \in Seq(Provider) /\ Sifted(rest, s.providers, others)
  BY <1>1, FilterFacts DEF RestOf
<1>3. PICK pos \in [DOMAIN rest -> DOMAIN s.providers] :
           /\ \A i \in DOMAIN rest : rest[i] = s.providers[pos[i]]
           /\ \A i, j \in DOMAIN rest : pos[i] = pos[j] => i = j
           /\ \A i \in DOMAIN s.providers :
                s.providers[i] \in others => \E j \in DOMAIN rest : pos[j] = i
  BY <1>2 DEF Sifted
<1>4. \A i \in DOMAIN rest : pos[i] \in DOMAIN s.providers
  BY <1>3
<1>5. \A i, j \in DOMAIN rest : rest[i].id = rest[j].id => i = j
  BY <1>1, <1>3, <1>4 DEF Configured
<1>6. \A i \in DOMAIN s.providers : s.providers[i].id # id => s.providers[i] \in others
  BY RecordShape
<1>7. rest # <<>> => 1 \in DOMAIN rest /\ Head(rest) = rest[1] /\ rest[1] \in Provider
  BY <1>2, HeadTailProperties, LenProperties, EmptySeq
<1>8. IF rest = <<>> THEN active = None ELSE \E i \in DOMAIN rest : rest[i].id = active
  <2>1. CASE s.activeProviderId = id
    BY <1>7, <2>1
  <2>2. CASE s.activeProviderId # id
    <3>1. s.providers # <<>>
      BY DEF Ids
    <3>2. PICK i \in DOMAIN s.providers : s.providers[i].id = s.activeProviderId
      BY <1>1, <3>1 DEF Configured, Ids
    <3>3. PICK j \in DOMAIN rest : pos[j] = i
      BY <1>3, <1>6, <2>2, <3>2
    <3>4. rest[j].id = active
      BY <1>3, <2>2, <3>2, <3>3
    <3>5. rest # <<>>
      BY <3>3
    <3>. QED  BY <3>3, <3>4, <3>5
  <2>. QED  BY <2>1, <2>2
<1>9. active \in Id \cup {None}
  <2>1. \A p \in Provider : p.id \in Id
    BY DEF Provider, Id
  <2>. QED  BY <1>7, <2>1, RecordShape
<1>10. n = Reconfigured(s, rest, active)
  BY RecordShape DEF Reconfigured, Settings, WithoutOf
<1> HIDE DEF active
<1>. QED
  BY <1>2, <1>5, <1>8, <1>9, <1>10, ReconfiguredFacts
-----------------------------------------------------------------------------
(* The settings, the dialogue and the picker *)

Then == {"nothing", "form", "picker"}
Put == [op : {"save"}, settings : Record, then : Then]
Operation == {Load, Wiping} \cup Put

PickerShape(p) ==
  p = [open |-> p.open, list |-> p.list, error |-> p.error, fetch |-> p.fetch] /\ p.open \in BOOLEAN

SettingsType ==
  /\ settings \in Record /\ kept \in Record \cup {None}
  /\ writes \in Seq(Operation)
  /\ PickerShape(picker)

\* A put behind a load or a wipe comes from a raced change.
PutsAreFirst ==
  \A i, j \in DOMAIN writes : i < j /\ writes[i].op # "save" /\ writes[j].op = "save" => raced

SettingsInv == SettingsType /\ PutsAreFirst /\ ScreenIsKept /\ StyledAsSet /\ PickerIsServed

\* What a reload shows, as a function of the operations under way.
Shown(ops, record) ==
  LET saves == {i \in DOMAIN ops : ops[i].op = "save"} IN
  IF saves # {} THEN ops[Max(saves)].settings ELSE IF record = None THEN DefaultSettings ELSE record

LEMMA OperationFacts ==
  /\ Load \in Operation /\ Wiping \in Operation
  /\ Load.op = "load" /\ Wiping.op = "wipe"
  /\ \A s \in Record, then \in Then :
       /\ Save(s, then) \in Operation /\ Save(s, then).op = "save" /\ Save(s, then).settings = s
  /\ \A w \in Operation : w = Load \/ w = Wiping \/ w.op = "save"
  /\ \A w \in Operation : w.op \in {"load", "wipe", "save"}
  /\ \A w \in Operation : w.op = "save" => w.settings \in Record /\ w.then \in Then
BY DEF Operation, Put, Load, Wiping, Save

LEMMA NothingSaved ==
  ASSUME NEW ops, NEW record, \A i \in DOMAIN ops : ops[i].op # "save"
  PROVE  Shown(ops, record) = IF record = None THEN DefaultSettings ELSE record
BY DEF Shown

\* The last put decides.
LEMMA LastSaved ==
  ASSUME NEW ops \in Seq(Operation), NEW record, NEW i \in DOMAIN ops, ops[i].op = "save",
         \A j \in DOMAIN ops : j > i => ops[j].op # "save"
  PROVE  Shown(ops, record) = ops[i].settings
<1> DEFINE saves == {j \in DOMAIN ops : ops[j].op = "save"}
<1>1. Len(ops) \in Nat /\ DOMAIN ops = 1 .. Len(ops)
  BY LenProperties
<1>2. saves \in SUBSET (1 .. Len(ops)) /\ i \in saves
  BY <1>1
<1>3. \A j \in saves : j \in Int
  BY <1>1
<1> HIDE DEF saves
<1>4. Max(saves) \in saves /\ \A j \in saves : j <= Max(saves)
  BY <1>1, <1>2, LastOne
<1>5. ~(Max(saves) > i)
  BY <1>4 DEF saves
<1>6. i <= Max(saves)
  BY <1>2, <1>4
<1>7. Max(saves) = i
  BY <1>2, <1>3, <1>4, <1>5, <1>6
<1>. QED
  BY <1>2, <1>7 DEF Shown, saves

\* There is a last put if there is any.
LEMMA SomeSavedLast ==
  ASSUME NEW ops \in Seq(Operation), NEW k \in DOMAIN ops, ops[k].op = "save"
  PROVE  \E i \in DOMAIN ops :
           /\ ops[i].op = "save" /\ k <= i
           /\ \A j \in DOMAIN ops : j > i => ops[j].op # "save"
<1> DEFINE saves == {j \in DOMAIN ops : ops[j].op = "save"}
<1>1. Len(ops) \in Nat /\ DOMAIN ops = 1 .. Len(ops)
  BY LenProperties
<1>2. saves \in SUBSET (1 .. Len(ops)) /\ k \in saves
  BY <1>1
<1>3. \A j \in DOMAIN ops : j \in Int
  BY <1>1
<1> HIDE DEF saves
<1>4. Max(saves) \in saves /\ \A j \in saves : j <= Max(saves)
  BY <1>1, <1>2, LastOne
<1>5. ASSUME NEW j \in DOMAIN ops, j > Max(saves) PROVE ops[j].op # "save"
  <2>1. ~(j <= Max(saves)) /\ j \in Int
    BY <1>3, <1>4, <1>5 DEF saves
  <2>. QED  BY <1>4, <2>1 DEF saves
<1>6. Max(saves) \in DOMAIN ops /\ ops[Max(saves)].op = "save" /\ k <= Max(saves)
  BY <1>2, <1>4 DEF saves
<1>. QED
  BY <1>5, <1>6

\* A put issued is the last one.
LEMMA SavedNow ==
  ASSUME NEW ops \in Seq(Operation), NEW record, NEW s \in Record, NEW then \in Then
  PROVE  /\ Append(ops, Save(s, then)) \in Seq(Operation)
         /\ Shown(Append(ops, Save(s, then)), record) = s
<1> DEFINE w == Save(s, then)
           more == Append(ops, w)
           n == Len(ops)
<1>1. w \in Operation /\ w.op = "save" /\ w.settings = s
  BY OperationFacts
<1> HIDE DEF w
<1>2. more \in Seq(Operation) /\ n \in Nat /\ DOMAIN more = 1 .. n + 1 /\ more[n + 1] = w
  BY <1>1, AppendProperties, LenProperties
<1>3. n + 1 \in DOMAIN more /\ \A j \in DOMAIN more : ~(j > n + 1)
  BY <1>2
<1> HIDE DEF more, n
<1>4. Shown(more, record) = more[n + 1].settings
  BY <1>1, <1>2, <1>3, LastSaved
<1>. QED
  BY <1>1, <1>2, <1>4 DEF w, more

\* A put that completes leaves what a reload shows.
LEMMA SavedFirst ==
  ASSUME NEW ops \in Seq(Operation), NEW record, ops # <<>>, Head(ops).op = "save"
  PROVE  Shown(Tail(ops), Head(ops).settings) = Shown(ops, record)
<1> DEFINE rest == Tail(ops)
           n == Len(ops)
<1>1. /\ n \in Nat \ {0} /\ DOMAIN ops = 1 .. n /\ Head(ops) = ops[1]
      /\ rest \in Seq(Operation) /\ DOMAIN rest = 1 .. n - 1
      /\ \A i \in 1 .. n - 1 : rest[i] = ops[i + 1]
  BY HeadTailProperties, LenProperties, EmptySeq
<1>2. Head(ops) \in Operation /\ Head(ops).settings \in Record /\ Head(ops).settings # None
  BY <1>1, OperationFacts, ElementOfSeq, RecordShape
<1> HIDE DEF rest, n
<1>3. 1 \in DOMAIN ops /\ \A i \in DOMAIN rest : i + 1 \in DOMAIN ops
  BY <1>1
<1>4. \A j \in DOMAIN ops : j > 1 => j - 1 \in DOMAIN rest /\ rest[j - 1] = ops[j]
  <2>1. SUFFICES ASSUME NEW j \in DOMAIN ops, j > 1
                 PROVE  j - 1 \in DOMAIN rest /\ rest[j - 1] = ops[j]
    OBVIOUS
  <2>2. j - 1 \in 1 .. n - 1 /\ (j - 1) + 1 = j
    BY <1>1, <2>1
  <2>. QED  BY <1>1, <2>2
<1>5. CASE \A i \in DOMAIN rest : rest[i].op # "save"
  <2>1. Shown(rest, Head(ops).settings) = Head(ops).settings
    BY <1>2, <1>5, NothingSaved
  <2>2. \A j \in DOMAIN ops : j > 1 => ops[j].op # "save"
    BY <1>4, <1>5
  <2>3. Shown(ops, record) = ops[1].settings
    BY <1>1, <1>3, <2>2, LastSaved
  <2>. QED  BY <1>1, <2>1, <2>3 DEF rest
<1>6. CASE \E i \in DOMAIN rest : rest[i].op = "save"
  <2>1. PICK k \in DOMAIN rest : rest[k].op = "save"
    BY <1>6
  <2>2. PICK i \in DOMAIN rest :
          /\ rest[i].op = "save"
          /\ \A j \in DOMAIN rest : j > i => rest[j].op # "save"
    BY <1>1, <2>1, SomeSavedLast
  <2>3. Shown(rest, Head(ops).settings) = rest[i].settings
    BY <1>1, <2>2, LastSaved
  <2>4. i + 1 \in DOMAIN ops /\ ops[i + 1] = rest[i] /\ i \in Int /\ i >= 1
    BY <1>1, <1>3, <2>2
  <2>5. ASSUME NEW j \in DOMAIN ops, j > i + 1 PROVE ops[j].op # "save"
    <3>1. j > 1 /\ j - 1 > i
      BY <1>1, <2>4, <2>5
    <3>. QED  BY <1>4, <2>2, <3>1
  <2>6. Shown(ops, record) = ops[i + 1].settings
    BY <2>2, <2>4, <2>5, LastSaved
  <2>. QED  BY <2>3, <2>4, <2>6 DEF rest
<1>. QED
  BY <1>5, <1>6
-----------------------------------------------------------------------------
(* Steps of the settings *)

\* PickerIsServed as a function of the picker and the settings.
ServedBy(p, s) ==
  LET active == Active(s) IN
  /\ p.open /\ active # None /\ p.list # active.id => p.error \/ p.fetch = active.id
  /\ p.fetch # None => p.open /\ active # None /\ p.fetch = active.id

LEMMA OpenSet ==
  ASSUME NEW p, PickerShape(p), NEW open \in BOOLEAN
  PROVE  [p EXCEPT !.open = open] = [open |-> open, list |-> p.list, error |-> p.error, fetch |-> p.fetch]
<1>1. PICK list, error, fetch, was : p = [open |-> was, list |-> list, error |-> error, fetch |-> fetch]
  BY DEF PickerShape
<1>. QED
  BY <1>1

LEMMA ListSet ==
  ASSUME NEW p, PickerShape(p), NEW list
  PROVE  PickerShape([p EXCEPT !.list = list])
<1>1. PICK was, error, fetch, open :
        open \in BOOLEAN /\ p = [open |-> open, list |-> was, error |-> error, fetch |-> fetch]
  BY DEF PickerShape
<1>. QED
  BY <1>1 DEF PickerShape

LEMMA FetchFailed ==
  ASSUME NEW p, PickerShape(p), NEW q, q = [p EXCEPT !.fetch = None, !.error = TRUE]
  PROVE  PickerShape(q) /\ q.fetch = None /\ q.error
<1>1. PICK list, error, fetch, open :
        open \in BOOLEAN /\ p = [open |-> open, list |-> list, error |-> error, fetch |-> fetch]
  BY DEF PickerShape
<1>2. q = [open |-> open, list |-> list, error |-> TRUE, fetch |-> None]
  BY <1>1
<1>. QED
  BY <1>1, <1>2 DEF PickerShape

LEMMA FilledServes ==
  ASSUME NEW p, PickerShape(p), NEW s, NEW rerun \in BOOLEAN, ~rerun => ServedBy(p, s)
  PROVE  PickerShape(Filled(p, s, rerun)) /\ ServedBy(Filled(p, s, rerun), s)
<1> DEFINE f == Filled(p, s, rerun)
           active == Active(s)
<1>1. CASE ~rerun
  BY <1>1 DEF Filled
<1>2. CASE rerun /\ (~p.open \/ active = None \/ p.list = active.id)
  <2>1. f = [p EXCEPT !.fetch = None]
    BY <1>2 DEF Filled
  <2>2. PickerShape(f) /\ f.open = p.open /\ f.list = p.list /\ f.fetch = None
    BY <2>1 DEF PickerShape
  <2> HIDE DEF f, active
  <2>3. ServedBy(f, s)
    BY <1>2, <2>2 DEF ServedBy, active
  <2>. QED  BY <2>2, <2>3 DEF f
<1>3. CASE rerun /\ ~(~p.open \/ active = None \/ p.list = active.id)
  <2>1. f = [p EXCEPT !.error = FALSE, !.fetch = active.id]
    BY <1>3 DEF Filled
  <2>2. PickerShape(f) /\ f.open = p.open /\ f.list = p.list /\ f.fetch = active.id
    BY <2>1 DEF PickerShape
  <2> HIDE DEF f, active
  <2>3. ServedBy(f, s)
    BY <1>3, <2>2 DEF ServedBy, active
  <2>. QED  BY <2>2, <2>3 DEF f
<1>. QED
  BY <1>1, <1>2, <1>3

LEMMA ShowsServes ==
  ASSUME SettingsInv, NEW s, NEW renewed \in BOOLEAN, Shows(s, renewed)
  PROVE  settings' = s /\ PickerShape(picker') /\ PickerIsServed'
<1> DEFINE rerun == renewed \/ Active(s) # Active(settings)
<1>1. settings' = s /\ picker' = Filled(picker, s, rerun) /\ rerun \in BOOLEAN /\ PickerShape(picker)
  BY DEF Shows, SettingsInv, SettingsType
<1>2. ~rerun => ServedBy(picker, s)
  BY DEF SettingsInv, PickerIsServed, ServedBy
<1> HIDE DEF rerun
<1>3. PickerShape(picker') /\ ServedBy(picker', s)
  BY <1>1, <1>2, FilledServes
<1>. QED
  BY <1>1, <1>3 DEF PickerIsServed, ServedBy

LEMMA StillSettings ==
  ASSUME SettingsInv, UNCHANGED <<settings, loaded, kept, writes, dark, osDark, raced>>,
         PickerShape(picker'), ServedBy(picker', settings)
  PROVE  SettingsInv'
<1>1. SettingsType' /\ PutsAreFirst'
  BY DEF SettingsInv, SettingsType, PutsAreFirst
<1>2. ScreenIsKept' /\ StyledAsSet' /\ PickerIsServed'
  BY DEF SettingsInv, ScreenIsKept, Reloaded, InFlight, StyledAsSet, PickerIsServed, ServedBy
<1>. QED
  BY <1>1, <1>2 DEF SettingsInv

\* What a change of the settings does to the page's styling.
Restyles(s) == dark' = Dark(s.theme, osDark) \/ (s.theme = settings.theme /\ dark' = dark)

LEMMA ChangesStep ==
  ASSUME SettingsInv, NEW s \in Record, NEW renewed \in BOOLEAN, NEW then \in Then,
         Changes(s, renewed, then), Restyles(s)
  PROVE  SettingsInv'
<1>1. /\ settings' = s /\ PickerShape(picker') /\ PickerIsServed'
      /\ writes' = Append(writes, Save(s, then))
      /\ raced' = (InFlight("load") \/ InFlight("wipe"))
      /\ loaded' = loaded /\ kept' = kept /\ osDark' = osDark
  BY ShowsServes DEF Changes
<1>2. writes \in Seq(Operation) /\ kept \in Record \cup {None}
  BY DEF SettingsInv, SettingsType
<1>3. writes' \in Seq(Operation) /\ Shown(writes', kept') = s
  BY <1>1, <1>2, SavedNow
<1>4. SettingsType'
  BY <1>1, <1>2, <1>3 DEF SettingsType
<1>5. ScreenIsKept'
  <2>1. Reloaded' = Shown(writes', kept')
    BY DEF Reloaded, Shown
  <2>. QED  BY <1>1, <1>3, <2>1 DEF ScreenIsKept
<1>6. StyledAsSet'
  BY <1>1 DEF SettingsInv, StyledAsSet, Restyles
<1>7. PutsAreFirst'
  <2> SUFFICES ASSUME NEW i \in DOMAIN writes', NEW j \in DOMAIN writes', i < j,
                      writes'[i].op # "save", writes'[j].op = "save"
               PROVE  raced'
    BY DEF PutsAreFirst
  <2>1. /\ Len(writes) \in Nat /\ DOMAIN writes = 1 .. Len(writes)
        /\ DOMAIN writes' = 1 .. Len(writes) + 1
        /\ \A k \in 1 .. Len(writes) : writes'[k] = writes[k] /\ writes[k] \in Operation
    <3>1. Save(s, then) \in Operation
      BY OperationFacts
    <3>. QED  BY <1>1, <1>2, <3>1, AppendProperties, LenProperties, ElementOfSeq
  <2>2. i \in DOMAIN writes /\ writes[i].op # "save"
    BY <2>1
  <2>3. writes[i].op = "load" \/ writes[i].op = "wipe"
    BY <2>1, <2>2, OperationFacts
  <2>. QED  BY <1>1, <2>2, <2>3 DEF InFlight
<1>. QED
  BY <1>1, <1>4, <1>5, <1>6, <1>7 DEF SettingsInv

\* The first operation completes.
LEMMA FirstCompletes ==
  ASSUME SettingsInv, writes # <<>>, writes' = Tail(writes), raced' = raced
  PROVE  /\ writes' \in Seq(Operation) /\ PutsAreFirst'
         /\ Head(writes) = writes[1] /\ Head(writes) \in Operation
         /\ 1 \in DOMAIN writes /\ DOMAIN writes \subseteq Nat
         /\ \A i \in DOMAIN writes' : i + 1 \in DOMAIN writes /\ writes'[i] = writes[i + 1] /\ 1 < i + 1
         /\ \A j \in DOMAIN writes : j # 1 => j - 1 \in DOMAIN writes' /\ writes'[j - 1] = writes[j]
<1> DEFINE n == Len(writes)
<1>1. /\ writes \in Seq(Operation) /\ n \in Nat \ {0} /\ DOMAIN writes = 1 .. n
      /\ Head(writes) = writes[1] /\ writes' \in Seq(Operation) /\ DOMAIN writes' = 1 .. n - 1
      /\ \A i \in 1 .. n - 1 : writes'[i] = writes[i + 1]
  <2>1. writes \in Seq(Operation)
    BY DEF SettingsInv, SettingsType
  <2>. QED  BY <2>1, HeadTailProperties, LenProperties, EmptySeq
<1> HIDE DEF n
<1>2. /\ Head(writes) \in Operation /\ 1 \in DOMAIN writes /\ DOMAIN writes \subseteq Nat
      /\ \A i \in DOMAIN writes' : i + 1 \in DOMAIN writes /\ writes'[i] = writes[i + 1] /\ 1 < i + 1
  <2>1. 1 \in 1 .. n
    BY <1>1
  <2>2. \A i \in 1 .. n - 1 : i + 1 \in 1 .. n /\ 1 < i + 1
    BY <1>1
  <2>3. Head(writes) \in Operation
    BY <1>1, <2>1, ElementOfSeq DEF n
  <2>. QED  BY <1>1, <2>1, <2>2, <2>3
<1>3. \A j \in DOMAIN writes : j # 1 => j - 1 \in DOMAIN writes' /\ writes'[j - 1] = writes[j]
  <2>1. SUFFICES ASSUME NEW j \in DOMAIN writes, j # 1
                 PROVE  j - 1 \in DOMAIN writes' /\ writes'[j - 1] = writes[j]
    OBVIOUS
  <2>2. j - 1 \in 1 .. n - 1 /\ (j - 1) + 1 = j
    BY <1>1, <2>1
  <2>. QED  BY <1>1, <2>2
<1>4. PutsAreFirst'
  <2> SUFFICES ASSUME NEW i \in DOMAIN writes', NEW j \in DOMAIN writes', i < j,
                      writes'[i].op # "save", writes'[j].op = "save"
               PROVE  raced'
    BY DEF PutsAreFirst
  <2>1. i + 1 < j + 1
    BY <1>1
  <2>. QED  BY <1>2, <2>1 DEF SettingsInv, PutsAreFirst
<1>. QED
  BY <1>1, <1>2, <1>3, <1>4

\* A load or a wipe completes: what it shows is what is kept, unless a change
\* was issued behind it.
LEMMA ReplacedStep ==
  ASSUME SettingsInv, writes # <<>>, Head(writes).op # "save", writes' = Tail(writes), raced' = raced,
         NEW s \in Record, NEW renewed \in BOOLEAN, Shows(s, renewed),
         kept' \in Record \cup {None}, s = (IF kept' = None THEN DefaultSettings ELSE kept'),
         osDark' = osDark, dark' = Dark(s.theme, osDark)
  PROVE  SettingsInv'
<1>1. settings' = s /\ PickerShape(picker') /\ PickerIsServed'
  BY ShowsServes
<1>2. /\ writes' \in Seq(Operation) /\ PutsAreFirst' /\ Head(writes) = writes[1]
      /\ 1 \in DOMAIN writes
      /\ \A i \in DOMAIN writes' : i + 1 \in DOMAIN writes /\ writes'[i] = writes[i + 1] /\ 1 < i + 1
  BY FirstCompletes
<1>3. ScreenIsKept'
  <2> SUFFICES ASSUME ~raced' PROVE settings' = Reloaded'
    BY DEF ScreenIsKept
  <2>1. \A i \in DOMAIN writes' : writes'[i].op # "save"
    BY <1>2 DEF SettingsInv, PutsAreFirst
  <2>2. Shown(writes', kept') = s
    BY <2>1, NothingSaved
  <2>3. Reloaded' = Shown(writes', kept')
    BY DEF Reloaded, Shown
  <2>. QED  BY <1>1, <2>2, <2>3
<1>4. SettingsType' /\ StyledAsSet'
  BY <1>1, <1>2 DEF SettingsType, StyledAsSet
<1>. QED
  BY <1>1, <1>2, <1>3, <1>4 DEF SettingsInv

LEMMA SavedStep ==
  ASSUME SettingsInv, SettingsSaved
  PROVE  SettingsInv'
<1> DEFINE write == Head(writes)
<1>1. /\ writes # <<>> /\ write.op = "save" /\ kept' = write.settings /\ writes' = Tail(writes)
      /\ picker' = (IF write.then = "picker"
                    THEN Filled([picker EXCEPT !.open = FALSE], settings, picker.open) ELSE picker)
      /\ UNCHANGED <<settings, loaded, dark, osDark, raced>>
  BY DEF SettingsSaved
<1>2. /\ writes' \in Seq(Operation) /\ PutsAreFirst' /\ write = writes[1] /\ write \in Operation
      /\ \A j \in DOMAIN writes : j # 1 => j - 1 \in DOMAIN writes' /\ writes'[j - 1] = writes[j]
  BY <1>1, FirstCompletes
<1>3. kept' \in Record
  BY <1>1, <1>2, OperationFacts
<1>4. PickerShape(picker') /\ ServedBy(picker', settings)
  <2>1. PickerShape(picker) /\ ServedBy(picker, settings)
    BY DEF SettingsInv, SettingsType, PickerIsServed, ServedBy
  <2>2. CASE write.then # "picker"
    BY <1>1, <2>1, <2>2
  <2>3. CASE write.then = "picker"
    <3> DEFINE closed == [picker EXCEPT !.open = FALSE]
    <3>4. closed = [open |-> FALSE, list |-> picker.list, error |-> picker.error, fetch |-> picker.fetch]
      BY <2>1, OpenSet
    <3>1. /\ PickerShape(closed) /\ picker.open \in BOOLEAN /\ ~closed.open
          /\ closed.list = picker.list /\ closed.fetch = picker.fetch
      BY <2>1, <3>4 DEF PickerShape
    <3>2. ~picker.open => ServedBy(closed, settings)
      BY <2>1, <3>1 DEF ServedBy
    <3>3. picker' = Filled(closed, settings, picker.open)
      BY <1>1, <2>3
    <3> HIDE DEF closed
    <3>. QED  BY <3>1, <3>2, <3>3, FilledServes
  <2>. QED  BY <2>2, <2>3
<1> HIDE DEF write
<1>5. ScreenIsKept'
  <2> SUFFICES ASSUME loaded', ~raced', ~InFlight("load")', ~InFlight("wipe")'
               PROVE  settings' = Reloaded'
    BY DEF ScreenIsKept
  <2>1. ASSUME NEW op \in {"load", "wipe"} PROVE ~InFlight(op)
    <3> SUFFICES ASSUME NEW j \in DOMAIN writes, writes[j].op = op PROVE FALSE
      BY DEF InFlight
    <3>1. j # 1
      BY <1>1, <1>2, <2>1
    <3>2. j - 1 \in DOMAIN writes' /\ writes'[j - 1].op = op
      BY <1>2, <3>1
    <3>. QED  BY <3>2, <2>1 DEF InFlight
  <2>2. settings = Reloaded
    BY <1>1, <2>1 DEF SettingsInv, ScreenIsKept
  <2>3. Reloaded = Shown(writes, kept) /\ Reloaded' = Shown(writes', kept')
    BY DEF Reloaded, Shown
  <2>4. writes \in Seq(Operation)
    BY DEF SettingsInv, SettingsType
  <2>5. Shown(Tail(writes), Head(writes).settings) = Shown(writes, kept)
    BY <1>1, <2>4, SavedFirst DEF write
  <2>. QED  BY <1>1, <2>2, <2>3, <2>5 DEF write
<1>6. SettingsType' /\ StyledAsSet' /\ PickerIsServed'
  BY <1>1, <1>2, <1>3, <1>4 DEF SettingsInv, SettingsType, StyledAsSet, PickerIsServed, ServedBy
<1>. QED
  BY <1>2, <1>5, <1>6 DEF SettingsInv

LEMMA WipeIssued ==
  ASSUME SettingsInv, writes' = Append(writes, Wiping),
         UNCHANGED <<settings, loaded, kept, dark, osDark, picker, raced>>
  PROVE  SettingsInv'
<1>1. /\ Len(writes) \in Nat /\ writes' \in Seq(Operation) /\ DOMAIN writes = 1 .. Len(writes)
      /\ DOMAIN writes' = 1 .. Len(writes) + 1 /\ writes'[Len(writes) + 1] = Wiping
      /\ \A k \in 1 .. Len(writes) : writes'[k] = writes[k]
  <2>1. writes \in Seq(Operation) /\ Wiping \in Operation
    BY OperationFacts DEF SettingsInv, SettingsType
  <2>. QED  BY <2>1, AppendProperties, LenProperties
<1>2. ScreenIsKept'
  <2>1. Len(writes) + 1 \in DOMAIN writes' /\ writes'[Len(writes) + 1].op = "wipe"
    BY <1>1, OperationFacts
  <2>. QED  BY <2>1 DEF ScreenIsKept, InFlight
<1>3. PutsAreFirst'
  <2> SUFFICES ASSUME NEW i \in DOMAIN writes', NEW j \in DOMAIN writes', i < j,
                      writes'[i].op # "save", writes'[j].op = "save"
               PROVE  raced'
    BY DEF PutsAreFirst
  <2>1. j # Len(writes) + 1
    BY <1>1, OperationFacts
  <2>2. i \in DOMAIN writes /\ j \in DOMAIN writes
    BY <1>1, <2>1
  <2>. QED  BY <1>1, <2>2 DEF SettingsInv, PutsAreFirst
<1>4. SettingsType' /\ StyledAsSet' /\ PickerIsServed'
  BY <1>1 DEF SettingsInv, SettingsType, StyledAsSet, PickerIsServed
<1>. QED
  BY <1>2, <1>3, <1>4 DEF SettingsInv

\* Every act that changes the settings makes them another record.
LEMMA ActStep ==
  ASSUME SettingsInv, Act
  PROVE  SettingsInv'
<1>1. settings \in Record /\ PickerShape(picker) /\ ServedBy(picker, settings)
  BY DEF SettingsInv, SettingsType, PickerIsServed, ServedBy
<1>2. ASSUME NEW p, PickerShape(p), picker' = Filled(p, settings, TRUE),
             UNCHANGED <<settings, loaded, kept, writes, dark, osDark, dialog, raced>>
      PROVE  SettingsInv'
  BY <1>2, FilledServes, StillSettings
<1>3. ASSUME NEW from, NEW to, ChangesDialog(from, to) PROVE SettingsInv'
  BY <1>1, <1>3, StillSettings DEF ChangesDialog
<1>4. CASE OpenSettings \/ CloseSettings \/ OpenForm \/ CancelForm
  BY <1>3, <1>4 DEF OpenSettings, CloseSettings, OpenForm, CancelForm
<1>5. CASE SaveDraft
  <2>1. PICK p \in Provider : Unused(p.id) /\ AddProvider(p)
    BY <1>5 DEF SaveDraft
  <2> DEFINE n == [settings EXCEPT !.providers = Append(@, p),
                     !.activeProviderId = IF @ = None THEN p.id ELSE @]
  <2>2. p.id \notin Ids(settings) /\ Changes(n, FALSE, "form") /\ dark' = dark
    BY <2>1 DEF Unused, AddProvider
  <2>3. n \in Record /\ n.theme = settings.theme
    <3>1. settings \in Record /\ p \in Provider /\ p.id \notin Ids(settings)
      BY <1>1, <2>2
    <3>2. n = [settings EXCEPT !.providers = Append(@, p),
                   !.activeProviderId = IF @ = None THEN p.id ELSE @]
      OBVIOUS
    <3> HIDE DEF n
    <3>. QED  BY <3>1, <3>2, WithAdded, ZenonT(60)
  <2> HIDE DEF n
  <2>. QED  BY <2>2, <2>3, ChangesStep DEF Restyles, Then
<1>6. CASE ProviderRow
  <2>1. ASSUME NEW id \in Ids(settings), RemoveProvider(id) PROVE SettingsInv'
    <3> DEFINE rest == Filter(settings.providers, {p \in Provider : p.id # id})
               next == IF rest = <<>> THEN None ELSE Head(rest).id
               n == [settings EXCEPT !.providers = rest, !.activeProviderId = IF @ = id THEN next ELSE @]
    <3>1. Changes(n, FALSE, "nothing") /\ dark' = dark
      BY <2>1 DEF RemoveProvider
    <3>2. n \in Record /\ n.theme = settings.theme
      <4>1. /\ rest = RestOf(settings, id)
            /\ next = (IF rest = <<>> THEN None ELSE Head(rest).id)
            /\ n = WithoutOf(settings, id, rest, next)
        BY DEF WithoutOf, RestOf
      <4> HIDE DEF n, next, rest
      <4>. QED  BY <1>1, <4>1, WithRemoved
    <3> HIDE DEF n
    <3>. QED  BY <3>1, <3>2, ChangesStep DEF Restyles, Then
  <2>2. ASSUME NEW id \in Ids(settings), SetActiveProvider(id) PROVE SettingsInv'
    <3> DEFINE n == [settings EXCEPT !.activeProviderId = id]
    <3>1. Changes(n, FALSE, "nothing") /\ dark' = dark
      BY <2>2 DEF SetActiveProvider
    <3>2. n \in Record /\ n.theme = settings.theme
      BY <1>1, WithActive
    <3> HIDE DEF n
    <3>. QED  BY <3>1, <3>2, ChangesStep DEF Restyles, Then
  <2>. QED  BY <1>6, <2>1, <2>2 DEF ProviderRow
<1>7. ASSUME NEW model \in ModelNames, NEW then \in Then,
             UpdateProvider(settings.activeProviderId, model, then)
      PROVE  SettingsInv'
  <2> DEFINE id == settings.activeProviderId
             n == [settings EXCEPT !.providers =
                    [i \in DOMAIN @ |-> IF @[i].id = id THEN [@[i] EXCEPT !.model = model] ELSE @[i]]]
  <2>1. Changes(n, TRUE, then) /\ dark' = dark
    BY <1>7 DEF UpdateProvider
  <2>2. n \in Record /\ n.theme = settings.theme
    <3> HIDE DEF id
    <3>1. n = WithModelOf(settings, id, model)
      BY DEF WithModelOf
    <3> HIDE DEF n
    <3>. QED  BY <1>1, <3>1, WithModel
  <2> HIDE DEF n
  <2>. QED  BY <2>1, <2>2, ChangesStep DEF Restyles
<1>8. CASE EditModel \/ ChooseModel
  BY <1>7, <1>8 DEF EditModel, ChooseModel, Then
<1>9. CASE ChooseTheme
  <2>1. PICK theme \in Theme : UpdateTheme(theme)
    BY <1>9 DEF ChooseTheme
  <2> DEFINE n == [settings EXCEPT !.theme = theme]
  <2>2. Changes(n, FALSE, "nothing") /\ dark' = Dark(theme, osDark)
    BY <2>1 DEF UpdateTheme
  <2>3. n \in Record /\ n.theme = theme
    BY <1>1, OtherSettings
  <2> HIDE DEF n
  <2>. QED  BY <2>2, <2>3, ChangesStep DEF Restyles, Then
<1>10. CASE ChooseStreaming
  <2> DEFINE n == [settings EXCEPT !.streaming = ~@]
  <2>1. Changes(n, FALSE, "nothing") /\ dark' = dark
    BY <1>10 DEF ChooseStreaming, ToggleStreaming
  <2>2. n = [settings EXCEPT !.streaming = TRUE] \/ n = [settings EXCEPT !.streaming = FALSE]
    BY <1>1 DEF Record, Settings
  <2>3. n \in Record /\ n.theme = settings.theme
    <3>1. settings.theme \in Theme
      BY <1>1 DEF Record, Settings
    <3> HIDE DEF n
    <3>. QED  BY <1>1, <2>2, <3>1, OtherSettings
  <2> HIDE DEF n
  <2>. QED  BY <2>1, <2>3, ChangesStep DEF Restyles, Then
<1>11. CASE TogglePicker
  <2>1. picker' = Filled([picker EXCEPT !.open = ~@], settings, TRUE)
    BY <1>11 DEF TogglePicker, ChangesPicker
  <2>2. PickerShape([picker EXCEPT !.open = ~@])
    BY <1>1, OpenSet DEF PickerShape
  <2>. QED  BY <1>2, <1>11, <2>1, <2>2 DEF TogglePicker, ChangesPicker
<1>12. CASE ClosePicker
  <2>1. picker' = Filled([picker EXCEPT !.open = FALSE], settings, TRUE)
    BY <1>12 DEF ClosePicker, ChangesPicker
  <2>2. PickerShape([picker EXCEPT !.open = FALSE])
    BY <1>1, OpenSet DEF PickerShape
  <2>. QED  BY <1>2, <1>12, <2>1, <2>2 DEF ClosePicker, ChangesPicker
<1>13. CASE SystemThemeChanges
  <2>1. StyledAsSet'
    BY <1>13 DEF SettingsInv, StyledAsSet, SystemThemeChanges, Dark
  <2>2. UNCHANGED <<settings, loaded, kept, writes, picker, raced>>
    BY <1>13 DEF SystemThemeChanges
  <2>. QED
    BY <2>1, <2>2 DEF SettingsInv, SettingsType, PutsAreFirst, ScreenIsKept, Reloaded, InFlight, PickerIsServed
<1>. QED
  BY <1>4, <1>5, <1>6, <1>8, <1>9, <1>10, <1>11, <1>12, <1>13 DEF Act

LEMMA ArrivalStep ==
  ASSUME SettingsInv, Arrival
  PROVE  SettingsInv'
<1>1. CASE SettingsLoaded
  <2> DEFINE s == IF kept = None THEN DefaultSettings ELSE kept
             renewed == kept # None
  <2>1. /\ writes # <<>> /\ Head(writes) = Load /\ Shows(s, renewed) /\ writes' = Tail(writes)
        /\ dark' = Dark(s.theme, osDark) /\ UNCHANGED <<kept, osDark, raced>>
    BY <1>1 DEF SettingsLoaded
  <2>2. s \in Record /\ renewed \in BOOLEAN /\ kept' \in Record \cup {None}
        /\ s = (IF kept' = None THEN DefaultSettings ELSE kept')
    BY <2>1, DefaultIsConfigured DEF SettingsInv, SettingsType
  <2>3. Head(writes).op # "save"
    BY <2>1, OperationFacts
  <2> HIDE DEF s, renewed
  <2>. QED  BY <2>1, <2>2, <2>3, ReplacedStep
<1>2. CASE SettingsSaved
  BY <1>2, SavedStep
<1>3. CASE ModelsArrive
  <2> DEFINE p == [picker EXCEPT !.list = picker.fetch]
  <2>1. picker' = Filled(p, settings, TRUE)
    BY <1>3 DEF ModelsArrive, ChangesPicker
  <2>2. PickerShape(picker)
    BY DEF SettingsInv, SettingsType
  <2>3. PickerShape(p)
    BY <2>2, ListSet
  <2> HIDE DEF p
  <2>4. PickerShape(picker') /\ ServedBy(picker', settings)
    BY <2>1, <2>3, FilledServes
  <2>. QED  BY <1>3, <2>4, StillSettings DEF ModelsArrive, ChangesPicker
<1>4. CASE ModelsFail
  <2> DEFINE p == [picker EXCEPT !.fetch = None, !.error = TRUE]
  <2>1. picker' = p
    BY <1>4 DEF ModelsFail, ChangesPicker, Filled
  <2>2. PickerShape(picker)
    BY DEF SettingsInv, SettingsType
  <2>3. PickerShape(p) /\ p.fetch = None /\ p.error
    BY <2>2, FetchFailed
  <2>4. ServedBy(p, settings)
    BY <2>3 DEF ServedBy
  <2>. QED  BY <1>4, <2>1, <2>3, <2>4, StillSettings DEF ModelsFail, ChangesPicker
<1>. QED
  BY <1>1, <1>2, <1>3, <1>4 DEF Arrival

LEMMA SettingsWipedStep ==
  ASSUME SettingsInv, SettingsWiped
  PROVE  SettingsInv'
<1>1. PICK renewed \in BOOLEAN : Shows(DefaultSettings, renewed)
  BY DEF SettingsWiped
<1>2. /\ writes # <<>> /\ Head(writes) = Wiping /\ kept' = None /\ writes' = Tail(writes)
      /\ dark' = Dark(DefaultSettings.theme, osDark) /\ osDark' = osDark /\ raced' = raced
  BY DEF SettingsWiped
<1>3. Head(writes).op # "save"
  BY <1>2, OperationFacts
<1>. QED
  BY <1>1, <1>2, <1>3, DefaultIsConfigured, ReplacedStep

\* What the page does as far as the settings are concerned.
LEMMA SettingsSteps ==
  ASSUME [PageNext]_pageVars
  PROVE  \/ UNCHANGED <<settings, loaded, kept, writes, dark, osDark, picker, raced>>
         \/ writes' = Append(writes, Wiping) /\ UNCHANGED <<settings, loaded, kept, dark, osDark, picker, raced>>
         \/ SettingsWiped \/ Act \/ Arrival
<1>1. CASE \E t \in Task : ChatCall(t)
  BY <1>1 DEF ChatCall, uiVars
<1>2. CASE \E t \in Task : WipeStep(t)
  BY <1>2 DEF WipeStep
<1>3. CASE UNCHANGED uiVars
  BY <1>3 DEF uiVars
<1>. QED
  BY <1>1, <1>2, <1>3 DEF PageNext, pageVars

LEMMA SettingsStep ==
  ASSUME SettingsInv, [PageNext]_pageVars
  PROVE  SettingsInv'
<1>1. CASE UNCHANGED <<settings, loaded, kept, writes, dark, osDark, picker, raced>>
  <2>1. PickerShape(picker') /\ ServedBy(picker', settings)
    BY <1>1 DEF SettingsInv, SettingsType, PickerIsServed, ServedBy
  <2>. QED  BY <1>1, <2>1, StillSettings
<1>. QED
  BY <1>1, SettingsSteps, WipeIssued, SettingsWipedStep, ActStep, ArrivalStep

LEMMA SettingsInit == PageInit => SettingsInv
<1> SUFFICES ASSUME PageInit PROVE SettingsInv
  OBVIOUS
<1>1. kept \in Record \cup {None}
  <2>1. PICK scene \in Scenes : kept \in scene.earlier
    BY DEF PageInit
  <2>2. kept # None => Configured(kept)
    BY <2>1, ScenesAssumption
  <2>. QED  BY <2>2 DEF Record, Configured
<1>2. settings = (IF kept = None THEN DefaultSettings ELSE kept) \/ settings = DefaultSettings
  BY DEF PageInit
<1>3. settings \in Record
  BY <1>1, <1>2, DefaultIsConfigured
<1>4. PickerShape(picker) /\ ServedBy(picker, settings)
  BY DEF PageInit, ClosedPicker, PickerShape, ServedBy
<1>5. CASE writes = <<Load>> /\ ~loaded
  <2>1. writes \in Seq(Operation) /\ DOMAIN writes = {1}
    BY <1>5, OperationFacts
  <2>2. PutsAreFirst
    BY <2>1 DEF PutsAreFirst
  <2>. QED
    BY <1>1, <1>3, <1>4, <1>5, <2>1, <2>2
       DEF SettingsInv, SettingsType, ScreenIsKept, StyledAsSet, PickerIsServed, ServedBy
<1>6. CASE /\ writes = <<>> /\ settings = (IF kept = None THEN DefaultSettings ELSE kept)
           /\ dark = Dark(settings.theme, osDark)
  <2>1. writes \in Seq(Operation) /\ DOMAIN writes = {}
    BY <1>6
  <2>2. PutsAreFirst
    BY <2>1 DEF PutsAreFirst
  <2>3. Reloaded = Shown(writes, kept)
    BY DEF Reloaded, Shown
  <2>4. Shown(writes, kept) = settings
    BY <1>6, <2>1, NothingSaved
  <2>. QED
    BY <1>1, <1>3, <1>4, <1>6, <2>1, <2>2, <2>3, <2>4
       DEF SettingsInv, SettingsType, ScreenIsKept, StyledAsSet, PickerIsServed, ServedBy
<1>. QED
  BY <1>5, <1>6 DEF PageInit

LEMMA SettingsInvariant == PageSpec => []SettingsInv
BY SettingsInit, SettingsStep, PTL DEF PageSpec

\* Whatever is added, removed and chosen while the settings are loaded, stored and
\* wiped, in the record shown, the one stored and those on their way to be there
\* is an active provider exactly if there is any, and no identifier comes twice.
THEOREM ActiveProviderExists == PageSpec => []ActiveIsConfigured
<1>1. SettingsInv => ActiveIsConfigured
  <2> SUFFICES ASSUME SettingsInv, NEW s \in Records PROVE Configured(s)
    BY DEF ActiveIsConfigured
  <2>1. ASSUME NEW i \in DOMAIN writes, writes[i].op = "save" PROVE writes[i].settings \in Record
    <3>1. writes[i] \in Operation
      BY ElementOfSeq, LenProperties DEF SettingsInv, SettingsType
    <3>. QED  BY <2>1, <3>1, OperationFacts
  <2>2. s \in Record
    BY <2>1 DEF Records, SettingsInv, SettingsType
  <2>. QED  BY <2>2 DEF Record
<1>. QED
  BY <1>1, SettingsInvariant, PTL

\* Once the operations under way are done, a reload of the page shows the settings
\* on the screen, unless the last change was made during a load or a wipe.
THEOREM ReloadShowsTheScreen == PageSpec => []ScreenIsKept
<1>1. SettingsInv => ScreenIsKept
  BY DEF SettingsInv
<1>. QED
  BY <1>1, SettingsInvariant, PTL

\* After loads, wipes and changes of the system's theme in any order, the page is
\* styled as the settings and the system say.
THEOREM StyleFollows == PageSpec => []StyledAsSet
<1>1. SettingsInv => StyledAsSet
  BY DEF SettingsInv
<1>. QED
  BY <1>1, SettingsInvariant, PTL

\* However the picker is opened and closed, providers change and requests for
\* lists are aborted, an open picker shows the models of the active provider, or an
\* error, or they are being fetched, and nothing else is.
THEOREM PickerFollows == PageSpec => []PickerIsServed
<1>1. SettingsInv => PickerIsServed
  BY DEF SettingsInv
<1>. QED
  BY <1>1, SettingsInvariant, PTL
-----------------------------------------------------------------------------
(* The chats: types *)

\* Calls with a database operation under way, and the others.
Idle == {"none", "streaming", "fetching", "returned"}
Answering == {"streaming", "fetching", "saving", "saving failure", "touching"}
OfAChat == Answering \cup {"opening chat", "asking", "dropping", "selecting", "removing", "renaming"}
WithRow == {"opening chat", "touching", "renaming"}
Pc == Idle \cup OfAChat \cup {"listing", "wiping", "importing"} \cup Reloads

Call == [pc : Pc, asks : BOOLEAN, chat : Chats \cup {None}, row : Row \cup {None},
         kept : Seq(Message), at : 0 .. MaxNow, content : 0 .. MaxTokens]

\* A row that is held is that of the chat, and only an answer has tokens.
CallType(c) ==
  /\ c \in Call
  /\ c.pc \in OfAChat => c.chat \in Chats
  /\ c.pc \in WithRow => c.row \in Row /\ c.row.id = c.chat
  /\ c.content > 0 => c.pc \in Answering \cup {"returned"}

OneRowEach(rows) == \A row1, row2 \in rows : row1.id = row2.id => row1 = row2

PageType(p) ==
  /\ p \in [chats : SUBSET Row, messages : Seq(Message), activeChatId : Chats \cup {None},
            streamingId : Task \cup {None}, controller : Task \cup {None}]
  /\ OneRowEach(p.chats)

StoredType(db) ==
  /\ db \in [chats : SUBSET Row, messages : SUBSET Message]
  /\ OneRowEach(db.chats)
  /\ IsFiniteSet(db.messages)

TasksType == task \in [Task -> Call] /\ \A t \in Task : CallType(task[t])

QueueType == queue \in Seq(Task) /\ \A t \in Task : Contains(queue, t) <=> task[t].pc \notin Idle

ChatTypes ==
  /\ now \in 2 .. MaxNow /\ deleted \subseteq 0 .. MaxTasks
  /\ PageType(page) /\ StoredType(stored) /\ TasksType /\ QueueType

\* Of a chat that is about to be opened there is no trace but the call.
NewTo(id, t) ==
  /\ id \in Chats \ {Earlier} /\ page.activeChatId # id
  /\ \A u \in Task \ {t} : task[u].chat # id
  /\ \A row \in page.chats \cup stored.chats : row.id # id

OpeningIsNew == \A t \in Task : task[t].pc = "opening chat" => NewTo(task[t].chat, t)

\* The answer of a run that has stored it, whether or not it has returned.
HasAnswer(messages, t, content) == \E m \in messages : IsAnswer(m, t) /\ m.content = content

AnswersAreKept ==
  \A t \in Task :
    task[t].pc \in {"touching", "returned"} /\ task[t].content > 0 /\ t \notin deleted =>
      HasAnswer(stored.messages, t, task[t].content)

ChatInv ==
  ChatTypes /\ OpeningIsNew /\ StopReachesTheRun /\ AnswersAreKept /\ SidebarShowsWhatIsStored

LEMMA BoundFacts ==
  /\ 1 \in Task /\ Task \subseteq 0 .. MaxTasks /\ 0 \notin Task
  /\ 0 \in 0 .. MaxNow /\ 1 \in 0 .. MaxNow /\ 2 \in 2 .. MaxNow /\ 2 .. MaxNow \subseteq 0 .. MaxNow
  /\ 0 \in 0 .. MaxTokens /\ 1 \in 0 .. MaxTokens
  /\ Earlier \in Chats /\ None \notin Chats
BY BoundsAssumption, ChatsAssumption DEF Task

LEMMA FreshType == CallType(Fresh) /\ Fresh.pc = "none" /\ Fresh.content = 0
<1>1. <<>> \in Seq(Message)
  OBVIOUS
<1>. QED
  BY <1>1, BoundFacts DEF CallType, Call, Fresh, Pc, Idle, OfAChat, Answering, WithRow

LEMMA EarlierType ==
  /\ EarlierMessages \in Seq(Message)
  /\ Backup \in [chats : SUBSET Row, messages : SUBSET Message]
  /\ Backup.chats = {[id |-> Earlier, title |-> "derived"]}
  /\ \A m \in Backup.messages : m.of = 0
  /\ IsFiniteSet(Backup.messages)
<1> DEFINE one == Said("user", 1, 0)
           two == Said("assistant", 1, 1)
<1>1. one \in Message /\ two \in Message /\ one.of = 0 /\ two.of = 0
  BY BoundFacts, BoundsAssumption DEF Said, Message
<1>2. EarlierMessages = <<one, two>>
  BY DEF EarlierMessages
<1> HIDE DEF one, two
<1>3. EarlierMessages \in Seq(Message) /\ ToSet(EarlierMessages) = {one, two}
  BY <1>1, <1>2 DEF ToSet
<1>4. IsFiniteSet({one, two})
  <2>1. IsFiniteSet({one} \cup {two})
    BY FS_Singleton, FS_AddElement
  <2>2. {one} \cup {two} = {one, two}
    OBVIOUS
  <2>. QED  BY <2>1, <2>2
<1>5. /\ Backup.chats = {[id |-> Earlier, title |-> "derived"]} /\ Backup.messages = {one, two}
      /\ Backup = [chats |-> {[id |-> Earlier, title |-> "derived"]}, messages |-> {one, two}]
  BY <1>3 DEF Backup
<1>6. [id |-> Earlier, title |-> "derived"] \in Row
  BY BoundFacts DEF Row
<1>. QED
  BY <1>1, <1>3, <1>4, <1>5, <1>6

LEMMA TaskFacts ==
  ASSUME ChatTypes, NEW t \in Task
  PROVE  CallType(task[t]) /\ task[t] \in Call
BY DEF ChatTypes, TasksType
-----------------------------------------------------------------------------
(* What a step does to one call, and what that leaves of the invariant *)

Moves(t, c) == t \in Task /\ CallType(c) /\ task' = [task EXCEPT ![t] = c]

MovesInQueue(t, c) ==
  \/ queue' = queue /\ (task[t].pc \in Idle <=> c.pc \in Idle)
  \/ queue' = Append(queue, t) /\ c.pc \notin Idle
  \/ queue' = Append(Filter(queue, Task \ {t}), t) /\ c.pc \notin Idle
  \/ queue' = Filter(queue, Task \ {t}) /\ c.pc \in Idle

LEMMA TaskAfter ==
  ASSUME ChatTypes, NEW t, NEW c, Moves(t, c)
  PROVE  task'[t] = c /\ \A u \in Task \ {t} : task'[u] = task[u]
BY DEF ChatTypes, TasksType, Moves

LEMMA TasksKept ==
  ASSUME ChatTypes, NEW t, NEW c, Moves(t, c)
  PROVE  TasksType'
<1>1. c \in Call
  BY DEF Moves, CallType
<1>2. task' \in [Task -> Call]
  BY <1>1 DEF ChatTypes, TasksType, Moves
<1>3. \A u \in Task : CallType(task'[u])
  BY TaskAfter DEF ChatTypes, TasksType, Moves
<1>. QED
  BY <1>2, <1>3 DEF TasksType

LEMMA AppendContains ==
  ASSUME NEW s \in Seq(Task), NEW t \in Task
  PROVE  /\ Append(s, t) \in Seq(Task)
         /\ \A u \in Task : Contains(Append(s, t), u) <=> u = t \/ Contains(s, u)
<1> DEFINE n == Len(s)
           more == Append(s, t)
<1>1. /\ n \in Nat /\ more \in Seq(Task) /\ Len(more) = n + 1 /\ more[n + 1] = t
      /\ \A i \in 1 .. n : more[i] = s[i]
  BY AppendProperties, LenProperties
<1>2. n + 1 \in 1 .. n + 1 /\ \A i \in 1 .. n + 1 : i \in 1 .. n \/ i = n + 1
  BY <1>1
<1>3. \A i \in 1 .. n : i \in 1 .. n + 1
  BY <1>1
<1> HIDE DEF n, more
<1>4. \A u \in Task : Contains(more, u) <=> u = t \/ Contains(s, u)
  <2> SUFFICES ASSUME NEW u \in Task PROVE Contains(more, u) <=> u = t \/ Contains(s, u)
    OBVIOUS
  <2>1. Contains(more, u) <=> \E i \in 1 .. n + 1 : more[i] = u
    BY <1>1 DEF Contains
  <2>2. Contains(s, u) <=> \E i \in 1 .. n : s[i] = u
    BY DEF Contains, n
  <2>. QED  BY <1>1, <1>2, <1>3, <2>1, <2>2
<1>. QED
  BY <1>1, <1>4 DEF more

LEMMA FilterContains ==
  ASSUME NEW s \in Seq(Task), NEW t \in Task
  PROVE  /\ Filter(s, Task \ {t}) \in Seq(Task)
         /\ \A u \in Task : Contains(Filter(s, Task \ {t}), u) <=> u # t /\ Contains(s, u)
<1> DEFINE others == Task \ {t}
           f == Filter(s, others)
<1>1. f \in Seq(Task) /\ Sifted(f, s, others)
  BY FilterFacts
<1>2. /\ \A u \in Task : Contains(f, u) <=> \E i \in DOMAIN f : f[i] = u
      /\ \A u \in Task : Contains(s, u) <=> \E i \in DOMAIN s : s[i] = u
  BY <1>1, LenProperties DEF Contains
<1> HIDE DEF f, others
<1>3. PICK pos \in [DOMAIN f -> DOMAIN s] :
        /\ \A n \in DOMAIN f : f[n] = s[pos[n]]
        /\ \A m, n \in DOMAIN f : pos[m] = pos[n] => m = n
        /\ \A i \in DOMAIN s : s[i] \in others => \E n \in DOMAIN f : pos[n] = i
  BY <1>1 DEF Sifted
<1>4. \A u \in Task : Contains(f, u) => u # t /\ Contains(s, u)
  <2> SUFFICES ASSUME NEW u \in Task, Contains(f, u) PROVE u # t /\ Contains(s, u)
    OBVIOUS
  <2>1. PICK i \in DOMAIN f : f[i] = u
    BY <1>2
  <2>2. f[i] \in others
    BY <1>1, <2>1 DEF Sifted
  <2>3. pos[i] \in DOMAIN s /\ s[pos[i]] = u
    BY <1>3, <2>1
  <2>. QED  BY <1>2, <2>1, <2>2, <2>3 DEF others
<1>5. \A u \in Task : u # t /\ Contains(s, u) => Contains(f, u)
  <2> SUFFICES ASSUME NEW u \in Task, u # t, Contains(s, u) PROVE Contains(f, u)
    OBVIOUS
  <2>1. PICK i \in DOMAIN s : s[i] = u
    BY <1>2
  <2>2. PICK n \in DOMAIN f : pos[n] = i
    BY <1>3, <2>1 DEF others
  <2>3. f[n] = u
    BY <1>3, <2>1, <2>2
  <2>. QED  BY <1>2, <2>3
<1>. QED
  BY <1>1, <1>4, <1>5 DEF f, others

LEMMA QueueKept ==
  ASSUME ChatTypes, NEW t, NEW c, Moves(t, c), MovesInQueue(t, c)
  PROVE  QueueType'
<1> DEFINE others == Filter(queue, Task \ {t})
<1>1. t \in Task /\ queue \in Seq(Task)
  BY DEF Moves, ChatTypes, QueueType
<1>2. /\ others \in Seq(Task) /\ \A u \in Task : Contains(others, u) <=> u # t /\ Contains(queue, u)
  BY <1>1, FilterContains
<1> HIDE DEF others
<1>3. queue' \in {queue, Append(queue, t), Append(others, t), others}
  BY DEF MovesInQueue, others
<1>4. queue' \in Seq(Task)
  <2>1. Append(queue, t) \in Seq(Task)
    BY <1>1, AppendContains
  <2>2. Append(others, t) \in Seq(Task)
    BY <1>1, <1>2, AppendContains
  <2>. QED  BY <1>1, <1>2, <1>3, <2>1, <2>2
<1>5. \A u \in Task : Contains(queue, u) <=> task[u].pc \notin Idle
  BY DEF ChatTypes, QueueType
<1>6. task'[t] = c /\ \A u \in Task \ {t} : task'[u] = task[u]
  BY TaskAfter
<1>7. ASSUME NEW u \in Task PROVE Contains(queue', u) <=> task'[u].pc \notin Idle
  <2>1. CASE queue' = queue /\ (task[t].pc \in Idle <=> c.pc \in Idle)
    BY <1>5, <1>6, <2>1
  <2>2. CASE queue' = Append(queue, t) /\ c.pc \notin Idle
    BY <1>1, <1>5, <1>6, <2>2, AppendContains
  <2>3. CASE queue' = Append(others, t) /\ c.pc \notin Idle
    BY <1>1, <1>2, <1>5, <1>6, <2>3, AppendContains
  <2>4. CASE queue' = others /\ c.pc \in Idle
    BY <1>2, <1>5, <1>6, <2>4
  <2>. QED  BY <2>1, <2>2, <2>3, <2>4 DEF MovesInQueue, others
<1>. QED
  BY <1>4, <1>7 DEF QueueType

\* A call is about a chat that has been there, and what is shown and stored are
\* rows of such chats: an identifier just taken stays that of its call.
NamesOld(t, c) ==
  /\ c.pc # "opening chat"
  /\ c.chat \in {None, task[t].chat, page.activeChatId} \/ \E row \in page.chats : row.id = c.chat
  /\ page'.activeChatId \in {None, page.activeChatId, task[t].chat}
  /\ \A row \in page'.chats \cup stored'.chats :
       \/ row.id \in {Earlier, task[t].chat}
       \/ \E other \in page.chats \cup stored.chats : other.id = row.id

LEMMA OpeningKept ==
  ASSUME ChatInv, NEW t, NEW c, Moves(t, c), NamesOld(t, c)
  PROVE  OpeningIsNew'
<1> SUFFICES ASSUME NEW u \in Task, task'[u].pc = "opening chat"
             PROVE  /\ task'[u].chat \in Chats \ {Earlier} /\ page'.activeChatId # task'[u].chat
                    /\ \A v \in Task \ {u} : task'[v].chat # task'[u].chat
                    /\ \A row \in page'.chats \cup stored'.chats : row.id # task'[u].chat
  BY DEF OpeningIsNew, NewTo
<1>1. ChatTypes
  BY DEF ChatInv
<1>2. task'[t] = c /\ (\A v \in Task \ {t} : task'[v] = task[v]) /\ t \in Task
  BY <1>1, TaskAfter DEF Moves
<1>3. u # t /\ task'[u] = task[u]
  BY <1>2 DEF NamesOld
<1>4. NewTo(task[u].chat, u)
  BY <1>3 DEF ChatInv, OpeningIsNew
<1>5. task[u].chat # task[t].chat /\ task[u].chat # None /\ c.chat # task[u].chat
  BY <1>2, <1>3, <1>4, BoundFacts DEF NewTo, NamesOld
<1>6. \A v \in Task \ {u} : task'[v].chat # task'[u].chat
  BY <1>2, <1>3, <1>4, <1>5 DEF NewTo
<1>7. \A row \in page'.chats \cup stored'.chats : row.id # task[u].chat
  BY <1>4, <1>5 DEF NewTo, NamesOld
<1>. QED
  BY <1>3, <1>4, <1>5, <1>6, <1>7 DEF NewTo, NamesOld

\* The stop button goes, or stays with a run that goes on, or is that of a new run.
ButtonMoves(t, c) ==
  \/ page'.streamingId = None
  \/ /\ page'.streamingId = page.streamingId /\ page'.controller = page.controller
     /\ task[t].pc \in Answering => c.pc \in Answering
  \/ page'.streamingId = t /\ page'.controller = t /\ c.pc \in Answering

LEMMA StopKept ==
  ASSUME ChatInv, NEW t, NEW c, Moves(t, c), ButtonMoves(t, c)
  PROVE  StopReachesTheRun'
<1> SUFFICES ASSUME page'.streamingId # None
             PROVE  page'.controller = page'.streamingId /\ task'[page'.streamingId].pc \in Answering
  BY DEF StopReachesTheRun, Streaming, Answering
<1>1. task'[t] = c /\ (\A v \in Task \ {t} : task'[v] = task[v])
  BY TaskAfter DEF ChatInv
<1>2. CASE /\ page'.streamingId = page.streamingId /\ page'.controller = page.controller
           /\ task[t].pc \in Answering => c.pc \in Answering
  <2>1. /\ page.controller = page.streamingId /\ task[page.streamingId].pc \in Answering
        /\ page.streamingId \in Task
    BY <1>2 DEF ChatInv, StopReachesTheRun, Streaming, Answering, ChatTypes, PageType
  <2>. QED  BY <1>1, <1>2, <2>1
<1>3. CASE page'.streamingId = t /\ page'.controller = t /\ c.pc \in Answering
  BY <1>1, <1>3
<1>. QED
  BY <1>2, <1>3 DEF ButtonMoves

\* Answers of others go only if they are deleted, and its own one is there when
\* a call has stored it.
AnswersMove(t, c) ==
  /\ deleted \subseteq deleted' /\ deleted' \subseteq 0 .. MaxTasks
  /\ \A m \in stored.messages : \A u \in Task \ {t} :
       IsAnswer(m, u) => m \in stored'.messages \/ u \in deleted'
  /\ c.pc \in {"touching", "returned"} /\ c.content > 0 /\ t \notin deleted' =>
       HasAnswer(stored'.messages, t, c.content)

LEMMA AnswersKept ==
  ASSUME ChatInv, NEW t, NEW c, Moves(t, c), AnswersMove(t, c)
  PROVE  AnswersAreKept'
<1> SUFFICES ASSUME NEW u \in Task, task'[u].pc \in {"touching", "returned"}, task'[u].content > 0,
                    u \notin deleted'
             PROVE  HasAnswer(stored'.messages, u, task'[u].content)
  BY DEF AnswersAreKept, HasAnswer
<1>1. task'[t] = c /\ (\A v \in Task \ {t} : task'[v] = task[v])
  BY TaskAfter DEF ChatInv
<1>2. CASE u = t
  BY <1>1, <1>2 DEF AnswersMove
<1>3. CASE u # t
  <2>1. HasAnswer(stored.messages, u, task[u].content)
    BY <1>1, <1>3 DEF ChatInv, AnswersAreKept, AnswersMove
  <2>2. PICK m \in stored.messages : IsAnswer(m, u) /\ m.content = task[u].content
    BY <2>1 DEF HasAnswer
  <2>3. m \in stored'.messages
    BY <1>3, <2>2 DEF AnswersMove
  <2>. QED  BY <1>1, <1>3, <2>2, <2>3 DEF HasAnswer
<1>. QED
  BY <1>2, <1>3

\* The sidebar is going to be read anew, or has just been, or moves with what is
\* stored.
SidebarMoves(t, c) ==
  \/ c.pc \in Reloads
  \/ page'.chats \subseteq stored'.chats
  \/ /\ task[t].pc \notin Reloads
     /\ page.chats \subseteq stored.chats => page'.chats \subseteq stored'.chats

LEMMA SidebarKept ==
  ASSUME ChatInv, NEW t, NEW c, Moves(t, c), SidebarMoves(t, c)
  PROVE  SidebarShowsWhatIsStored'
<1> SUFFICES ASSUME \A u \in Task : task'[u].pc \notin Reloads PROVE page'.chats \subseteq stored'.chats
  BY DEF SidebarShowsWhatIsStored
<1>1. task'[t] = c /\ (\A v \in Task \ {t} : task'[v] = task[v]) /\ t \in Task
  BY TaskAfter DEF ChatInv, Moves
<1>2. CASE page'.chats \subseteq stored'.chats
  BY <1>2
<1>3. CASE /\ task[t].pc \notin Reloads
           /\ page.chats \subseteq stored.chats => page'.chats \subseteq stored'.chats
  <2>1. \A u \in Task : task[u].pc \notin Reloads
    BY <1>1, <1>3
  <2>. QED  BY <1>3, <2>1 DEF ChatInv, SidebarShowsWhatIsStored
<1>. QED
  BY <1>1, <1>2, <1>3 DEF SidebarMoves

LEMMA StepKept ==
  ASSUME ChatInv, NEW t, NEW c, Moves(t, c), MovesInQueue(t, c),
         now' \in 2 .. MaxNow, PageType(page'), StoredType(stored'),
         NamesOld(t, c), ButtonMoves(t, c), AnswersMove(t, c), SidebarMoves(t, c)
  PROVE  ChatInv'
<1>1. ChatTypes
  BY DEF ChatInv
<1>2. deleted' \subseteq 0 .. MaxTasks
  BY DEF AnswersMove
<1>3. ChatTypes'
  BY <1>1, <1>2, TasksKept, QueueKept DEF ChatTypes
<1>. QED
  BY <1>3, OpeningKept, StopKept, AnswersKept, SidebarKept DEF ChatInv

\* Steps that leave the chats alone.
LEMMA SameChats ==
  ASSUME NEW t, NEW c, c.pc # "opening chat", task[t].pc \notin Reloads,
         c.chat \in {None, task[t].chat, page.activeChatId} \/ \E row \in page.chats : row.id = c.chat,
         page'.activeChatId = page.activeChatId, page'.chats = page.chats, stored'.chats = stored.chats
  PROVE  NamesOld(t, c) /\ SidebarMoves(t, c)
BY DEF NamesOld, SidebarMoves

\* Steps that leave the stored messages alone, of calls that have no answer.
LEMMA SameAnswers ==
  ASSUME ChatInv, NEW t, NEW c, stored'.messages = stored.messages, deleted' = deleted,
         c.pc \in {"touching", "returned"} => ~(c.content > 0)
  PROVE  AnswersMove(t, c)
BY DEF AnswersMove, ChatInv, ChatTypes
-----------------------------------------------------------------------------
(* How a call moves on *)

LEMMA BeginsMoves ==
  ASSUME NEW t \in Task, NEW c, Begins(t, c), CallType(c), c.pc \notin Idle
  PROVE  Moves(t, c) /\ MovesInQueue(t, c) /\ task[t].pc = "none"
BY DEF Begins, Moves, MovesInQueue

LEMMA IssuesMoves ==
  ASSUME NEW t \in Task, NEW c, Issues(t, c), CallType(c), c.pc \notin Idle
  PROVE  Moves(t, c) /\ MovesInQueue(t, c)
BY DEF Issues, Moves, MovesInQueue

Over(t) == [Fresh EXCEPT !.pc = "returned", !.asks = task[t].asks, !.content = task[t].content]

LEMMA ReturnsMoves ==
  ASSUME ChatTypes, NEW t \in Task, Returns(t)
  PROVE  /\ Moves(t, Over(t)) /\ MovesInQueue(t, Over(t))
         /\ Over(t).pc = "returned" /\ Over(t).content = task[t].content /\ Over(t).chat = None
<1>1. /\ task[t].asks \in BOOLEAN /\ task[t].content \in 0 .. MaxTokens
  BY TaskFacts DEF Call
<1>2. Fresh \in Call /\ Fresh.chat = None /\ "returned" \in Pc
  BY FreshType DEF CallType, Fresh, Pc, Idle
<1>3. /\ Over(t) \in Call /\ Over(t).pc = "returned" /\ Over(t).content = task[t].content
      /\ Over(t).chat = None
  BY <1>1, <1>2 DEF Over, Call
<1>4. CallType(Over(t))
  BY <1>3 DEF CallType, OfAChat, Answering, WithRow
<1>5. Over(t).pc \in Idle
  BY <1>3 DEF Idle
<1>. QED
  BY <1>3, <1>4, <1>5 DEF Returns, Moves, MovesInQueue, Over

\* A call of an answer with another number of tokens, and where it goes on.
GoesOn(t, pc, content) == [task[t] EXCEPT !.pc = pc, !.content = content]

LEMMA AnswerGoesOn ==
  ASSUME ChatTypes, NEW t \in Task, task[t].pc \in OfAChat, NEW content \in 0 .. MaxTokens,
         NEW pc, pc \in {"streaming", "fetching", "saving", "saving failure"}
  PROVE  /\ CallType(GoesOn(t, pc, content)) /\ GoesOn(t, pc, content).pc = pc
         /\ GoesOn(t, pc, content).chat = task[t].chat /\ GoesOn(t, pc, content).content = content
<1> DEFINE c == GoesOn(t, pc, content)
<1>1. task[t] \in Call /\ task[t].chat \in Chats
  BY TaskFacts DEF CallType
<1>2. c \in Call /\ c.pc = pc /\ c.chat = task[t].chat /\ c.content = content
  BY <1>1 DEF Call, Pc, OfAChat, Answering, GoesOn
<1> HIDE DEF c
<1>3. CallType(c)
  BY <1>1, <1>2 DEF CallType, Answering, WithRow
<1>. QED
  BY <1>2, <1>3 DEF c
-----------------------------------------------------------------------------
(* Messages and rows *)

LEMMA PageIs ==
  ASSUME ChatTypes
  PROVE  /\ page.chats \subseteq Row /\ page.messages \in Seq(Message)
         /\ page.activeChatId \in Chats \cup {None}
         /\ page.streamingId \in Task \cup {None} /\ page.controller \in Task \cup {None}
         /\ OneRowEach(page.chats)
         /\ page = [chats |-> page.chats, messages |-> page.messages, activeChatId |-> page.activeChatId,
                    streamingId |-> page.streamingId, controller |-> page.controller]
BY DEF ChatTypes, PageType

LEMMA StoredIs ==
  ASSUME ChatTypes
  PROVE  /\ stored.chats \subseteq Row /\ stored.messages \subseteq Message
         /\ OneRowEach(stored.chats) /\ IsFiniteSet(stored.messages)
         /\ stored = [chats |-> stored.chats, messages |-> stored.messages]
BY DEF ChatTypes, StoredType

LEMMA MessagesSet ==
  ASSUME ChatTypes, NEW messages \in Seq(Message), NEW p, p = [page EXCEPT !.messages = messages]
  PROVE  /\ PageType(p) /\ p.chats = page.chats /\ p.activeChatId = page.activeChatId
         /\ p.streamingId = page.streamingId /\ p.controller = page.controller
         /\ p.messages = messages
BY DEF ChatTypes, PageType

LEMMA EndedFacts ==
  ASSUME NEW p, PageType(p), NEW t
  PROVE  /\ PageType(Ended(p, t)) /\ Ended(p, t).chats = p.chats
         /\ Ended(p, t).activeChatId = p.activeChatId /\ Ended(p, t).streamingId = None
         /\ PageType(Stopped(p)) /\ Stopped(p).chats = p.chats
         /\ Stopped(p).activeChatId = p.activeChatId /\ Stopped(p).streamingId = None
BY DEF PageType, Ended, Stopped

LEMMA AnswerFacts ==
  ASSUME ChatTypes, NEW t \in Task, task[t].pc \in OfAChat, NEW content \in 0 .. MaxTokens,
         NEW error \in BOOLEAN
  PROVE  /\ Answer(t, content, error) \in Message /\ Answer(t, content, error).of = t
         /\ Answer(t, content, error).role = "assistant"
         /\ Answer(t, content, error).content = content
<1>1. task[t].chat \in Chats /\ task[t].at \in 0 .. MaxNow /\ t \in 0 .. MaxTasks
  BY TaskFacts, BoundFacts DEF CallType, Call
<1>. QED
  BY <1>1 DEF Answer, Message

LEMMA FlushFacts ==
  ASSUME NEW messages \in Seq(Message), NEW t, NEW content \in 0 .. MaxTokens, NEW error \in BOOLEAN
  PROVE  Flush(messages, t, content, error) \in Seq(Message)
<1> DEFINE f(i) == IF IsAnswer(messages[i], t)
                   THEN [messages[i] EXCEPT !.content = content, !.error = error] ELSE messages[i]
           n == Len(messages)
<1>1. n \in Nat /\ DOMAIN messages = 1 .. n
  BY LenProperties
<1>2. \A i \in 1 .. n : f(i) \in Message
  <2> SUFFICES ASSUME NEW i \in 1 .. n PROVE f(i) \in Message
    OBVIOUS
  <2>1. messages[i] \in Message
    BY <1>1, ElementOfSeq
  <2>2. [messages[i] EXCEPT !.content = content, !.error = error] \in Message
    BY <2>1 DEF Message
  <2>. QED  BY <2>1, <2>2
<1>3. Flush(messages, t, content, error) = [i \in 1 .. n |-> f(i)]
  BY <1>1 DEF Flush
<1> HIDE DEF f, n
<1>. QED
  BY <1>1, <1>2, <1>3, IsASeq

LEMMA PutChatFacts ==
  ASSUME NEW db, StoredType(db), NEW row \in Row
  PROVE  /\ StoredType(PutChat(db, row)) /\ PutChat(db, row).messages = db.messages
         /\ PutChat(db, row).chats = Others(db.chats, row.id) \cup {row}
         /\ \A r \in Others(db.chats, row.id) : r \in db.chats /\ r.id # row.id
<1>1. /\ PutChat(db, row).messages = db.messages
      /\ PutChat(db, row).chats = Others(db.chats, row.id) \cup {row}
      /\ PutChat(db, row) = [chats |-> Others(db.chats, row.id) \cup {row}, messages |-> db.messages]
  BY DEF PutChat, StoredType
<1>2. \A r \in Others(db.chats, row.id) : r \in db.chats /\ r.id # row.id
  BY DEF Others, Rows
<1>3. OneRowEach(Others(db.chats, row.id) \cup {row})
  BY <1>2 DEF StoredType, OneRowEach
<1>. QED
  BY <1>1, <1>2, <1>3 DEF StoredType

LEMMA PutMessageFacts ==
  ASSUME NEW db, StoredType(db), NEW m \in Message
  PROVE  /\ StoredType(PutMessage(db, m)) /\ PutMessage(db, m).chats = db.chats
         /\ m \in PutMessage(db, m).messages
         /\ \A n \in db.messages : n.role # m.role \/ n.of # m.of => n \in PutMessage(db, m).messages
<1> DEFINE rest == {n \in db.messages : <<n.role, n.of>> # <<m.role, m.of>>}
<1>1. PutMessage(db, m) = [chats |-> db.chats, messages |-> rest \cup {m}]
  BY DEF PutMessage, StoredType
<1>2. rest \in SUBSET db.messages /\ IsFiniteSet(db.messages)
  BY DEF StoredType
<1>3. \A n \in db.messages : n.role # m.role \/ n.of # m.of => n \in rest
  OBVIOUS
<1> HIDE DEF rest
<1>4. IsFiniteSet(rest \cup {m})
  BY <1>2, FS_Subset, FS_AddElement
<1>. QED
  BY <1>1, <1>2, <1>3, <1>4 DEF StoredType

\* An answer that is stored is there, and nobody else's goes.
LEMMA AnswerStored ==
  ASSUME ChatInv, NEW t \in Task, NEW m \in Message, m.of = t,
         stored' = PutMessage(stored, m), deleted' = deleted, NEW c,
         c.pc \in {"touching", "returned"} /\ c.content > 0 =>
           m.role = "assistant" /\ m.content = c.content
  PROVE  AnswersMove(t, c) /\ StoredType(stored') /\ stored'.chats = stored.chats
<1>1. /\ StoredType(stored') /\ stored'.chats = stored.chats /\ m \in stored'.messages
      /\ \A n \in stored.messages : n.role # m.role \/ n.of # m.of => n \in stored'.messages
  BY PutMessageFacts DEF ChatInv, ChatTypes
<1>2. \A n \in stored.messages : \A u \in Task \ {t} : IsAnswer(n, u) => n \in stored'.messages
  BY <1>1 DEF IsAnswer
<1>3. c.pc \in {"touching", "returned"} /\ c.content > 0 => HasAnswer(stored'.messages, t, c.content)
  BY <1>1 DEF HasAnswer, IsAnswer
<1>. QED
  BY <1>1, <1>2, <1>3 DEF AnswersMove, ChatInv, ChatTypes

\* Messages that are deleted are in the history as far as they are answers.
LEMMA AnswersDropped ==
  ASSUME ChatInv, NEW db, db.messages = stored.messages, NEW gone \in SUBSET stored.messages,
         Drops(db, gone), NEW t, NEW c, c.pc \in {"touching", "returned"} => ~(c.content > 0),
         StoredType(db)
  PROVE  AnswersMove(t, c) /\ StoredType(stored') /\ stored'.chats = db.chats
<1> DEFINE answers == {n \in gone : n.role = "assistant"}
<1>1. stored' = [chats |-> db.chats, messages |-> db.messages \ gone]
  BY DEF Drops, StoredType
<1>2. deleted' = deleted \cup {m.of : m \in answers}
  BY DEF Drops
<1>3. \A m \in stored.messages : m.of \in 0 .. MaxTasks
  BY StoredIs DEF Message, ChatInv
<1>4. deleted \subseteq deleted' /\ deleted' \subseteq 0 .. MaxTasks
  BY <1>2, <1>3 DEF ChatInv, ChatTypes
<1>5. \A m \in stored.messages : \A u \in Task \ {t} :
        IsAnswer(m, u) => m \in stored'.messages \/ u \in deleted'
  BY <1>1, <1>2 DEF IsAnswer
<1>6. IsFiniteSet(db.messages \ gone)
  BY FS_Subset DEF StoredType
<1>. QED
  BY <1>1, <1>4, <1>5, <1>6 DEF AnswersMove, StoredType
-----------------------------------------------------------------------------
(* The running answer *)

\* Steps of a run that leave the chats and the database alone.
LEMMA RunStep ==
  ASSUME ChatInv, NEW t \in Task, NEW c, Moves(t, c), MovesInQueue(t, c), UNCHANGED <<now, stored, deleted>>,
         task[t].pc \in Answering, c.pc # "opening chat", c.pc = "touching" => ~(c.content > 0),
         c.pc = "returned" => ~(c.content > 0), c.chat \in {None, task[t].chat},
         PageType(page'), page'.activeChatId = page.activeChatId, page'.chats = page.chats,
         ButtonMoves(t, c)
  PROVE  ChatInv'
<1>1. task[t].pc \notin Reloads
  BY DEF Answering, Reloads
<1>2. NamesOld(t, c) /\ SidebarMoves(t, c)
  BY <1>1, SameChats
<1>3. AnswersMove(t, c)
  BY SameAnswers
<1>4. now' \in 2 .. MaxNow /\ StoredType(stored')
  BY DEF ChatInv, ChatTypes
<1>. QED
  BY <1>2, <1>3, <1>4, StepKept

LEMMA TokenStep ==
  ASSUME ChatInv, NEW t \in Task, Token(t)
  PROVE  ChatInv'
<1> DEFINE content == task[t].content + 1
           c == GoesOn(t, "streaming", content)
           messages == Flush(page.messages, t, content, FALSE)
<1>1. ChatTypes /\ task[t] \in Call /\ task[t].pc = "streaming" /\ task[t].content < MaxTokens
  BY TaskFacts DEF ChatInv, Token
<1>2. content \in 0 .. MaxTokens
  BY <1>1, BoundsAssumption DEF Call
<1>3. task' = [task EXCEPT ![t] = c]
  <2>1. c = [task[t] EXCEPT !.content = content]
    BY <1>1 DEF Call, GoesOn
  <2>. QED  BY <2>1 DEF Token
<1>4. page' = [page EXCEPT !.messages = messages] /\ UNCHANGED <<now, stored, queue, deleted>>
  BY DEF Token
<1> HIDE DEF content
<1>5. messages \in Seq(Message)
  BY <1>1, <1>2, PageIs, FlushFacts
<1>6. CallType(c) /\ c.pc = "streaming" /\ c.chat = task[t].chat
  <2>1. ChatTypes /\ task[t].pc \in OfAChat
    BY <1>1 DEF OfAChat, Answering
  <2>. QED  BY <1>2, <2>1, AnswerGoesOn
<1> HIDE DEF c, messages
<1>7. /\ PageType(page') /\ page'.activeChatId = page.activeChatId /\ page'.chats = page.chats
      /\ page'.streamingId = page.streamingId /\ page'.controller = page.controller
  BY <1>1, <1>4, <1>5, MessagesSet
<1>8. Moves(t, c) /\ MovesInQueue(t, c) /\ ButtonMoves(t, c)
  BY <1>1, <1>3, <1>4, <1>6, <1>7 DEF Moves, MovesInQueue, ButtonMoves, Idle, Answering
<1>. QED
  BY <1>1, <1>4, <1>6, <1>7, <1>8, RunStep DEF Answering

LEMMA CompletesStep ==
  ASSUME ChatInv, NEW t \in Task, Completes(t)
  PROVE  ChatInv'
<1>1. PICK content \in IF task[t].pc = "streaming" THEN {task[t].content} ELSE 1 .. MaxTokens :
        /\ Issues(t, [task[t] EXCEPT !.pc = "saving", !.content = content])
        /\ page' = [page EXCEPT !.messages = Flush(@, t, content, FALSE)]
  BY DEF Completes
<1> DEFINE c == GoesOn(t, "saving", content)
           messages == Flush(page.messages, t, content, FALSE)
<1>2. ChatTypes /\ task[t] \in Call /\ task[t].pc \in Answering /\ UNCHANGED <<now, stored, deleted>>
  BY TaskFacts DEF ChatInv, Completes, Running, Answering
<1>3. content \in 0 .. MaxTokens
  BY <1>1, <1>2, BoundsAssumption DEF Call
<1>4. messages \in Seq(Message) /\ page' = [page EXCEPT !.messages = messages]
  BY <1>1, <1>2, <1>3, PageIs, FlushFacts
<1>5. CallType(c) /\ c.pc = "saving" /\ c.chat = task[t].chat
  <2>1. ChatTypes /\ task[t].pc \in OfAChat
    BY <1>2 DEF OfAChat
  <2>. QED  BY <1>3, <2>1, AnswerGoesOn
<1>6. Issues(t, c)
  BY <1>1 DEF GoesOn
<1> HIDE DEF c, messages
<1>7. /\ PageType(page') /\ page'.activeChatId = page.activeChatId /\ page'.chats = page.chats
      /\ page'.streamingId = page.streamingId /\ page'.controller = page.controller
  BY <1>2, <1>4, MessagesSet
<1>8. Moves(t, c) /\ MovesInQueue(t, c) /\ ButtonMoves(t, c)
  BY <1>5, <1>6, <1>7, IssuesMoves DEF ButtonMoves, Idle, Answering
<1>. QED
  BY <1>2, <1>5, <1>7, <1>8, RunStep

LEMMA FailsStep ==
  ASSUME ChatInv, NEW t \in Task, Fails(t)
  PROVE  ChatInv'
<1> DEFINE c == GoesOn(t, "saving failure", task[t].content)
<1>1. ChatTypes /\ task[t] \in Call /\ task[t].pc \in Answering /\ UNCHANGED <<now, page, stored, deleted>>
  BY TaskFacts DEF ChatInv, Fails, Running, Answering
<1>2. task[t].content \in 0 .. MaxTokens /\ c = [task[t] EXCEPT !.pc = "saving failure"]
  BY <1>1 DEF Call, GoesOn
<1>3. CallType(c) /\ c.pc = "saving failure" /\ c.chat = task[t].chat
  <2>1. task[t].pc \in OfAChat
    BY <1>1 DEF OfAChat
  <2>2. ChatTypes /\ task[t].content \in 0 .. MaxTokens
    BY <1>1, <1>2
  <2>. QED  BY <2>1, <2>2, AnswerGoesOn
<1>4. Issues(t, c)
  BY <1>2 DEF Fails
<1> HIDE DEF c
<1>5. Moves(t, c) /\ MovesInQueue(t, c) /\ ButtonMoves(t, c)
  BY <1>1, <1>3, <1>4, IssuesMoves DEF ButtonMoves, Idle, Answering
<1>6. PageType(page')
  BY <1>1 DEF ChatTypes
<1>. QED
  BY <1>1, <1>3, <1>5, <1>6, RunStep

\* A run that is interrupted goes on to save what streamed in, or returns.
LEMMA CaughtStep ==
  ASSUME ChatInv, NEW t \in Task, Running(t), Caught(t), UNCHANGED <<now, stored, deleted>>
  PROVE  ChatInv'
<1>1. ChatTypes /\ task[t] \in Call /\ task[t].pc \in Answering
  BY TaskFacts DEF ChatInv, Running, Answering
<1>2. CASE task[t].content > 0
  <2> DEFINE c == GoesOn(t, "saving", task[t].content)
  <2>1. task[t].content \in 0 .. MaxTokens /\ c = [task[t] EXCEPT !.pc = "saving"]
    BY <1>1 DEF Call, GoesOn
  <2>2. CallType(c) /\ c.pc = "saving" /\ c.chat = task[t].chat
    <3>1. task[t].pc \in OfAChat
      BY <1>1 DEF OfAChat
    <3>2. ChatTypes /\ task[t].content \in 0 .. MaxTokens
      BY <1>1, <2>1
    <3>. QED  BY <3>1, <3>2, AnswerGoesOn
  <2>3. Issues(t, c) /\ page' = Stopped(page)
    BY <1>2, <2>1 DEF Caught
  <2> HIDE DEF c
  <2>4. PageType(page') /\ page'.activeChatId = page.activeChatId /\ page'.chats = page.chats
        /\ page'.streamingId = None
    BY <1>1, <2>3, EndedFacts DEF ChatTypes
  <2>5. Moves(t, c) /\ MovesInQueue(t, c) /\ ButtonMoves(t, c)
    BY <2>2, <2>3, <2>4, IssuesMoves DEF ButtonMoves, Idle
  <2>. QED  BY <1>1, <2>2, <2>4, <2>5, RunStep
<1>3. CASE ~(task[t].content > 0)
  <2> DEFINE c == Over(t)
             messages == Filter(page.messages, {m \in ToSet(page.messages) : ~IsAnswer(m, t)})
             p == [page EXCEPT !.messages = messages]
  <2>1. Returns(t) /\ page' = Ended(p, t)
    BY <1>3 DEF Caught
  <2>2. /\ Moves(t, c) /\ MovesInQueue(t, c) /\ c.pc = "returned" /\ c.content = task[t].content
        /\ c.chat = None
    BY <1>1, <2>1, ReturnsMoves
  <2>3. messages \in Seq(Message)
    BY <1>1, PageIs, FilterFacts
  <2> HIDE DEF messages, c
  <2>4. PageType(p) /\ p.chats = page.chats /\ p.activeChatId = page.activeChatId
    BY <1>1, <2>3, MessagesSet
  <2> HIDE DEF p
  <2>5. PageType(page') /\ page'.activeChatId = page.activeChatId /\ page'.chats = page.chats
        /\ page'.streamingId = None
    BY <2>1, <2>4, EndedFacts
  <2>6. ButtonMoves(t, c)
    BY <2>5 DEF ButtonMoves
  <2>. QED  BY <1>1, <1>3, <2>2, <2>5, <2>6, RunStep
<1>. QED
  BY <1>2, <1>3

\* Steps that only change the page, with all rows left in the sidebar.
LEMMA PageStep ==
  ASSUME ChatInv, UNCHANGED <<now, stored, deleted, task, queue>>,
         PageType(page'), page'.chats = page.chats, page'.activeChatId \in {None, page.activeChatId},
         \/ page'.streamingId = None
         \/ page'.streamingId = page.streamingId /\ page'.controller = page.controller
  PROVE  ChatInv'
<1>1. ChatTypes'
  BY DEF ChatInv, ChatTypes, TasksType, QueueType
<1>2. OpeningIsNew'
  <2> SUFFICES ASSUME NEW u \in Task, task[u].pc = "opening chat"
               PROVE  /\ task[u].chat \in Chats \ {Earlier} /\ page'.activeChatId # task[u].chat
                      /\ \A v \in Task \ {u} : task[v].chat # task[u].chat
                      /\ \A row \in page'.chats \cup stored'.chats : row.id # task[u].chat
    BY DEF OpeningIsNew, NewTo
  <2>1. NewTo(task[u].chat, u)
    BY DEF ChatInv, OpeningIsNew
  <2>2. task[u].chat # None
    BY <2>1, BoundFacts DEF NewTo
  <2>. QED  BY <2>1, <2>2 DEF NewTo
<1>3. StopReachesTheRun'
  BY DEF ChatInv, StopReachesTheRun, Streaming
<1>4. AnswersAreKept' /\ SidebarShowsWhatIsStored'
  BY DEF ChatInv, AnswersAreKept, HasAnswer, SidebarShowsWhatIsStored
<1>. QED
  BY <1>1, <1>2, <1>3, <1>4 DEF ChatInv

LEMMA StopStep ==
  ASSUME ChatInv, Stop
  PROVE  ChatInv'
<1>1. ChatTypes
  BY DEF ChatInv
<1>2. CASE page.controller # None /\ Running(page.controller)
  <2>1. page.controller \in Task
    BY <1>1, <1>2, PageIs
  <2>2. Caught(page.controller) /\ UNCHANGED <<now, stored, deleted>>
    BY <1>2 DEF Stop
  <2>. QED  BY <1>2, <2>1, <2>2, CaughtStep
<1>3. CASE ~(page.controller # None /\ Running(page.controller))
  <2>1. page' = Stopped(page) /\ UNCHANGED <<now, stored, deleted, task, queue>>
    BY <1>3 DEF Stop
  <2>2. PageType(page') /\ page'.activeChatId = page.activeChatId /\ page'.chats = page.chats
        /\ page'.streamingId = None
    BY <1>1, <2>1, EndedFacts DEF ChatTypes
  <2>. QED  BY <2>1, <2>2, PageStep
<1>. QED
  BY <1>2, <1>3

LEMMA NewChatStep ==
  ASSUME ChatInv, NewChat
  PROVE  ChatInv'
<1>1. ChatTypes /\ page' = [page EXCEPT !.activeChatId = None, !.messages = <<>>]
      /\ UNCHANGED <<now, stored, deleted, task, queue>>
  BY DEF ChatInv, NewChat
<1>2. <<>> \in Seq(Message)
  OBVIOUS
<1>3. PageType(page') /\ page'.activeChatId = None /\ page'.chats = page.chats
      /\ page'.streamingId = page.streamingId /\ page'.controller = page.controller
  BY <1>1, <1>2 DEF ChatTypes, PageType
<1>. QED
  BY <1>1, <1>3, PageStep

\* Steps of a call that has stored a message and leaves the chats alone.
LEMMA MessageStep ==
  ASSUME ChatInv, NEW t \in Task, NEW c, Moves(t, c), MovesInQueue(t, c), now' \in 2 .. MaxNow,
         task[t].pc \notin Reloads, c.pc # "opening chat", c.chat \in {None, task[t].chat},
         PageType(page'), page'.activeChatId = page.activeChatId, page'.chats = page.chats,
         ButtonMoves(t, c), AnswersMove(t, c), StoredType(stored'), stored'.chats = stored.chats
  PROVE  ChatInv'
<1>1. NamesOld(t, c) /\ SidebarMoves(t, c)
  BY SameChats
<1>. QED
  BY <1>1, StepKept

LEMMA SavedAnswerStep ==
  ASSUME ChatInv, NEW t \in Task, Saved(t)
  PROVE  ChatInv'
<1> DEFINE m == Answer(t, task[t].content, FALSE)
           rows == Rows(page.chats, task[t].chat)
<1>1. /\ ChatTypes /\ task[t] \in Call /\ task[t].pc = "saving" /\ CallType(task[t])
      /\ stored' = PutMessage(stored, m) /\ UNCHANGED <<now, deleted>>
  BY TaskFacts DEF ChatInv, Saved
<1>2. m \in Message /\ m.of = t /\ m.role = "assistant" /\ m.content = task[t].content
  <2>1. ChatTypes /\ task[t].content \in 0 .. MaxTokens /\ task[t].pc \in OfAChat
    BY <1>1 DEF Call, OfAChat, Answering
  <2>. QED  BY <2>1, AnswerFacts
<1> HIDE DEF m
<1>3. task[t].pc \notin Reloads /\ now' \in 2 .. MaxNow
  BY <1>1 DEF Reloads, ChatTypes
<1>4. CASE rows = {}
  <2> DEFINE c == Over(t)
  <2>1. Returns(t) /\ page' = Ended(page, t)
    BY <1>4 DEF Saved
  <2>2. /\ Moves(t, c) /\ MovesInQueue(t, c) /\ c.pc = "returned" /\ c.content = task[t].content
        /\ c.chat = None
    BY <1>1, <2>1, ReturnsMoves
  <2> HIDE DEF c
  <2>3. AnswersMove(t, c) /\ StoredType(stored') /\ stored'.chats = stored.chats
    BY <1>1, <1>2, <2>2, AnswerStored
  <2>4. /\ PageType(page') /\ page'.activeChatId = page.activeChatId /\ page'.chats = page.chats
        /\ page'.streamingId = None
    BY <1>1, <2>1, EndedFacts DEF ChatTypes
  <2>5. ButtonMoves(t, c)
    BY <2>4 DEF ButtonMoves
  <2>. QED  BY <1>3, <2>2, <2>3, <2>4, <2>5, MessageStep
<1>5. CASE rows # {}
  <2>1. PICK row \in rows : Issues(t, [task[t] EXCEPT !.pc = "touching", !.row = row]) /\ page' = page
    BY <1>5 DEF Saved
  <2> DEFINE c == [task[t] EXCEPT !.pc = "touching", !.row = row]
  <2>2. row \in Row /\ row.id = task[t].chat
    BY <1>1, <2>1, PageIs DEF Rows
  <2>3. CallType(c) /\ c.pc = "touching" /\ c.content = task[t].content /\ c.chat = task[t].chat
    <3>1. /\ c \in Call /\ c.pc = "touching" /\ c.content = task[t].content /\ c.chat = task[t].chat
          /\ c.row = row
      BY <1>1, <2>2 DEF Call, Pc, OfAChat, Answering
    <3>2. task[t].chat \in Chats
      BY <1>1 DEF CallType, OfAChat, Answering
    <3> HIDE DEF c
    <3>. QED  BY <2>2, <3>1, <3>2 DEF CallType, Answering, WithRow
  <2>4. Issues(t, c)
    BY <2>1
  <2> HIDE DEF c
  <2>5. Moves(t, c) /\ MovesInQueue(t, c)
    BY <2>3, <2>4, IssuesMoves DEF Idle
  <2>6. AnswersMove(t, c) /\ StoredType(stored') /\ stored'.chats = stored.chats
    BY <1>1, <1>2, <2>3, AnswerStored
  <2>7. ButtonMoves(t, c) /\ PageType(page')
    BY <1>1, <2>1, <2>3 DEF ButtonMoves, ChatTypes, Answering
  <2>. QED  BY <1>3, <2>1, <2>3, <2>5, <2>6, <2>7, MessageStep
<1>. QED
  BY <1>4, <1>5

LEMMA SavedFailureStep ==
  ASSUME ChatInv, NEW t \in Task, SavedFailure(t)
  PROVE  ChatInv'
<1> DEFINE m == Answer(t, task[t].content, TRUE)
           c == Over(t)
           messages == Flush(page.messages, t, task[t].content, TRUE)
           p == [page EXCEPT !.messages = messages]
<1>1. /\ ChatTypes /\ task[t] \in Call /\ task[t].pc = "saving failure"
      /\ stored' = PutMessage(stored, m) /\ UNCHANGED <<now, deleted>>
      /\ Returns(t) /\ page' = Ended(p, t)
  BY TaskFacts DEF ChatInv, SavedFailure
<1>2. task[t].content \in 0 .. MaxTokens /\ task[t].pc \in OfAChat
  BY <1>1 DEF Call, OfAChat, Answering
<1>3. m \in Message /\ m.of = t /\ m.role = "assistant" /\ m.content = task[t].content
  <2>1. ChatTypes
    BY <1>1
  <2>. QED  BY <1>2, <2>1, AnswerFacts
<1>4. messages \in Seq(Message)
  BY <1>1, <1>2, PageIs, FlushFacts
<1>5. /\ Moves(t, c) /\ MovesInQueue(t, c) /\ c.pc = "returned" /\ c.content = task[t].content
      /\ c.chat = None
  BY <1>1, ReturnsMoves
<1> HIDE DEF m, c, messages
<1>6. PageType(p) /\ p.chats = page.chats /\ p.activeChatId = page.activeChatId
  BY <1>1, <1>4, MessagesSet
<1> HIDE DEF p
<1>7. /\ PageType(page') /\ page'.activeChatId = page.activeChatId /\ page'.chats = page.chats
      /\ page'.streamingId = None
  BY <1>1, <1>6, EndedFacts
<1>8. AnswersMove(t, c) /\ StoredType(stored') /\ stored'.chats = stored.chats
  BY <1>1, <1>3, <1>5, AnswerStored
<1>9. task[t].pc \notin Reloads /\ now' \in 2 .. MaxNow /\ ButtonMoves(t, c)
  BY <1>1, <1>7 DEF Reloads, ChatTypes, ButtonMoves
<1>. QED
  BY <1>5, <1>7, <1>8, <1>9, MessageStep

\* The row of a call is stored and the sidebar shows it too, or not the chat at all.
LEMMA RowStep ==
  ASSUME ChatInv, NEW t \in Task, NEW c, Moves(t, c), MovesInQueue(t, c), UNCHANGED <<now, deleted>>,
         task[t].pc \in WithRow, stored' = PutChat(stored, task[t].row),
         c.pc \in {"returned", "asking"}, c.chat \in {None, task[t].chat},
         c.content = 0 \/ (task[t].pc = "touching" /\ c.content = task[t].content),
         PageType(page'), page'.activeChatId \in {page.activeChatId, task[t].chat},
         \A row \in page'.chats :
           row = task[t].row \/ (row \in page.chats /\ row.id # task[t].chat),
         ButtonMoves(t, c)
  PROVE  ChatInv'
<1> DEFINE new == task[t].row
<1>1. ChatTypes /\ new \in Row /\ new.id = task[t].chat
  BY TaskFacts DEF ChatInv, CallType
<1>2. /\ StoredType(stored') /\ stored'.messages = stored.messages
      /\ stored'.chats = Others(stored.chats, new.id) \cup {new}
      /\ \A r \in Others(stored.chats, new.id) : r \in stored.chats /\ r.id # new.id
  BY <1>1, PutChatFacts DEF ChatTypes
<1> HIDE DEF new
<1>3. NamesOld(t, c)
  <2>1. \A row \in page'.chats \cup stored'.chats :
          row.id = task[t].chat \/ \E other \in page.chats \cup stored.chats : other.id = row.id
    BY <1>1, <1>2 DEF new
  <2>. QED  BY <2>1 DEF NamesOld
<1>4. SidebarMoves(t, c)
  <2>1. page.chats \subseteq stored.chats => page'.chats \subseteq stored'.chats
    <3> SUFFICES ASSUME page.chats \subseteq stored.chats, NEW row \in page'.chats
                 PROVE  row \in stored'.chats
      OBVIOUS
    <3>1. CASE row = new
      BY <1>2, <3>1
    <3>2. CASE row \in page.chats /\ row.id # new.id
      BY <1>2, <3>2 DEF Others, Rows
    <3>. QED  BY <1>1, <3>1, <3>2 DEF new
  <2>2. task[t].pc \notin Reloads
    BY DEF WithRow, Reloads
  <2>. QED  BY <2>1, <2>2 DEF SidebarMoves
<1>5. AnswersMove(t, c)
  <2>1. c.pc \in {"touching", "returned"} /\ c.content > 0 /\ t \notin deleted' =>
          HasAnswer(stored'.messages, t, c.content)
    BY <1>2 DEF ChatInv, AnswersAreKept, HasAnswer
  <2>. QED  BY <1>1, <1>2, <2>1 DEF AnswersMove, ChatTypes
<1>6. now' \in 2 .. MaxNow
  BY <1>1 DEF ChatTypes
<1>. QED
  BY <1>2, <1>3, <1>4, <1>5, <1>6, StepKept

LEMMA TouchedStep ==
  ASSUME ChatInv, NEW t \in Task, Touched(t)
  PROVE  ChatInv'
<1> DEFINE row == task[t].row
           c == Over(t)
           chats == Others(page.chats, task[t].chat) \cup {row}
           p == [page EXCEPT !.chats = chats]
<1>1. /\ ChatTypes /\ task[t].pc = "touching" /\ row \in Row /\ row.id = task[t].chat
      /\ stored' = PutChat(stored, row) /\ page' = Ended(p, t) /\ Returns(t) /\ UNCHANGED <<now, deleted>>
  BY TaskFacts DEF ChatInv, Touched, CallType, WithRow
<1>2. /\ Moves(t, c) /\ MovesInQueue(t, c) /\ c.pc = "returned" /\ c.content = task[t].content
      /\ c.chat = None
  BY <1>1, ReturnsMoves
<1>3. \A r \in chats : r = row \/ (r \in page.chats /\ r.id # task[t].chat)
  BY DEF Others, Rows
<1>4. chats \subseteq Row /\ OneRowEach(chats)
  BY <1>1, <1>3, PageIs DEF OneRowEach
<1> HIDE DEF c, chats
<1>5. PageType(p) /\ p.chats = chats /\ p.activeChatId = page.activeChatId
  BY <1>1, <1>4 DEF ChatTypes, PageType
<1> HIDE DEF p
<1>6. /\ PageType(page') /\ page'.activeChatId = page.activeChatId /\ page'.chats = chats
      /\ page'.streamingId = None
  BY <1>1, <1>5, EndedFacts
<1>7. ButtonMoves(t, c) /\ task[t].pc \in WithRow
  BY <1>1, <1>6 DEF ButtonMoves, WithRow
<1>. QED
  BY <1>1, <1>2, <1>3, <1>6, <1>7, RowStep

LEMMA NoTokens == \A c : c.content = 0 => ~(c.content > 0)
OBVIOUS

LEMMA NoAnswerYet ==
  ASSUME ChatTypes, NEW t \in Task, task[t].pc \notin Answering \cup {"returned"}
  PROVE  task[t].content = 0 /\ 0 \in 0 .. MaxTokens /\ ~(0 > 0)
<1>1. task[t].content \in 0 .. MaxTokens /\ ~(task[t].content > 0)
  BY TaskFacts DEF CallType, Call
<1>. QED
  BY <1>1, BoundsAssumption

\* A row is made on the first question; nobody knows the chat before.
LEMMA OpenedStep ==
  ASSUME ChatInv, NEW t \in Task, Opened(t)
  PROVE  ChatInv'
<1> DEFINE row == task[t].row
           c == [task[t] EXCEPT !.pc = "asking", !.row = None]
<1>1. /\ ChatTypes /\ task[t] \in Call /\ task[t].pc = "opening chat" /\ row \in Row
      /\ row.id = task[t].chat /\ task[t].chat \in Chats /\ stored' = PutChat(stored, row)
      /\ page' = [page EXCEPT !.chats = @ \cup {row}, !.activeChatId = task[t].chat]
      /\ Issues(t, c) /\ UNCHANGED <<now, deleted>>
  BY TaskFacts DEF ChatInv, Opened, CallType, WithRow, OfAChat
<1>2. task[t].content = 0
  BY <1>1, NoAnswerYet DEF Answering
<1>3. c \in Call /\ c.pc = "asking" /\ c.chat = task[t].chat /\ c.content = 0
  BY <1>1, <1>2 DEF Call, Pc, OfAChat
<1> HIDE DEF c
<1>4. CallType(c)
  <2>1. ~(c.content > 0)
    BY <1>3
  <2>. QED  BY <1>1, <1>3, <2>1 DEF CallType, WithRow
<1>5. Moves(t, c) /\ MovesInQueue(t, c)
  BY <1>1, <1>3, <1>4, IssuesMoves DEF Idle
<1>6. \A r \in page.chats : r.id # task[t].chat
  BY <1>1 DEF ChatInv, OpeningIsNew, NewTo
<1> HIDE DEF row
<1>7. page.chats \cup {row} \subseteq Row /\ OneRowEach(page.chats \cup {row})
  BY <1>1, <1>6, PageIs DEF OneRowEach
<1>8. /\ PageType(page') /\ page'.chats = page.chats \cup {row} /\ page'.activeChatId = task[t].chat
      /\ page'.streamingId = page.streamingId /\ page'.controller = page.controller
  BY <1>1, <1>7 DEF ChatTypes, PageType
<1>9. ButtonMoves(t, c) /\ task[t].pc \in WithRow
  BY <1>1, <1>8 DEF ButtonMoves, WithRow, Answering
<1>10. \A r \in page'.chats : r = row \/ (r \in page.chats /\ r.id # task[t].chat)
  BY <1>6, <1>8
<1>. QED
  BY <1>1, <1>3, <1>5, <1>8, <1>9, <1>10, RowStep DEF row

LEMMA RenamedStep ==
  ASSUME ChatInv, NEW t \in Task, Renamed(t)
  PROVE  ChatInv'
<1> DEFINE row == task[t].row
           c == Over(t)
           shown(r) == IF r.id = task[t].chat THEN row ELSE r
           chats == {shown(r) : r \in page.chats}
<1>1. /\ ChatTypes /\ task[t].pc = "renaming" /\ row \in Row /\ row.id = task[t].chat
      /\ stored' = PutChat(stored, row) /\ page' = [page EXCEPT !.chats = chats] /\ Returns(t)
      /\ UNCHANGED <<now, deleted>>
  BY TaskFacts DEF ChatInv, Renamed, CallType, WithRow
<1>2. task[t].content = 0
  BY <1>1, NoAnswerYet DEF Answering
<1>3. /\ Moves(t, c) /\ MovesInQueue(t, c) /\ c.pc = "returned" /\ c.content = 0 /\ c.chat = None
  BY <1>1, <1>2, ReturnsMoves
<1> HIDE DEF c, row
<1>4. \A r \in chats : r = row \/ (r \in page.chats /\ r.id # task[t].chat)
  OBVIOUS
<1> HIDE DEF chats
<1>5. chats \subseteq Row /\ OneRowEach(chats)
  BY <1>1, <1>4, PageIs DEF OneRowEach
<1>6. /\ PageType(page') /\ page'.chats = chats /\ page'.activeChatId = page.activeChatId
      /\ page'.streamingId = page.streamingId /\ page'.controller = page.controller
  BY <1>1, <1>5 DEF ChatTypes, PageType
<1>7. ButtonMoves(t, c) /\ task[t].pc \in WithRow
  BY <1>1, <1>6 DEF ButtonMoves, WithRow, Answering
<1>8. \A r \in page'.chats : r = row \/ (r \in page.chats /\ r.id # task[t].chat)
  BY <1>4, <1>6
<1>. QED
  BY <1>1, <1>3, <1>6, <1>7, <1>8, RowStep DEF row
-----------------------------------------------------------------------------
(* send and regenerate *)

LEMMA InstantFacts ==
  ASSUME ChatTypes, now' \in Instant
  PROVE  now' \in 2 .. MaxNow /\ now' \in 0 .. MaxNow
<1>1. now \in Int /\ 2 <= now /\ MaxNow \in Nat /\ now' \in {now, now + 1} /\ now' <= MaxNow
  BY BoundsAssumption DEF ChatTypes, Instant
<1>2. now' \in Int /\ 2 <= now'
  BY <1>1
<1>. QED
  BY <1>1, <1>2

\* How a call goes on that has stored its question or deleted the last answer: it
\* returns, or has the button from here on.
Answers(t, c) ==
  /\ Moves(t, c) /\ MovesInQueue(t, c) /\ ButtonMoves(t, c)
  /\ c.pc \in {"returned", "streaming", "fetching"} /\ c.content = 0 /\ c.chat \in {None, task[t].chat}

LEMMA RunsMoves ==
  ASSUME ChatTypes, NEW t \in Task, task[t].pc \in {"asking", "dropping"},
         NEW messages \in Seq(Message), Runs(t, [page EXCEPT !.messages = messages])
  PROVE  /\ \E c : Answers(t, c)
         /\ PageType(page') /\ page'.activeChatId = page.activeChatId /\ page'.chats = page.chats
         /\ now' \in 2 .. MaxNow
<1> DEFINE shown == [page EXCEPT !.messages = messages]
<1>1. /\ task[t] \in Call /\ task[t].chat \in Chats /\ task[t].pc \notin Answering
      /\ task[t].pc \in OfAChat /\ task[t].content = 0
  <2>1. task[t].pc \notin Answering \cup {"returned"} /\ task[t].pc \in OfAChat
    BY DEF Answering, OfAChat
  <2>. QED  BY <2>1, NoAnswerYet, TaskFacts DEF CallType
<1>2. /\ PageType(shown) /\ shown.chats = page.chats /\ shown.activeChatId = page.activeChatId
      /\ shown.streamingId = page.streamingId /\ shown.controller = page.controller
      /\ shown.messages = messages
  BY MessagesSet
<1>3. CASE Returns(t) /\ page' = shown /\ UNCHANGED now
  <2>1. /\ Moves(t, Over(t)) /\ MovesInQueue(t, Over(t)) /\ Over(t).pc = "returned"
        /\ Over(t).content = 0 /\ Over(t).chat = None
    BY <1>1, <1>3, ReturnsMoves
  <2>2. ButtonMoves(t, Over(t))
    BY <1>1, <1>2, <1>3 DEF ButtonMoves
  <2>3. Answers(t, Over(t))
    BY <2>1, <2>2 DEF Answers
  <2>. QED  BY <1>2, <1>3, <2>3 DEF ChatTypes
<1>4. CASE /\ now' \in Instant
           /\ page' = [shown EXCEPT
                !.messages = Append(@, [Answer(t, 0, FALSE) EXCEPT !.createdAt = now']),
                !.streamingId = t, !.controller = t]
           /\ \E pc \in {"streaming", "fetching"} :
                task' = [task EXCEPT ![t] = [@ EXCEPT !.pc = pc, !.at = now', !.row = None, !.kept = <<>>]]
           /\ queue' = Filter(queue, Task \ {t})
  <2>1. now' \in 2 .. MaxNow /\ now' \in 0 .. MaxNow
    BY <1>4, InstantFacts
  <2>2. PICK pc \in {"streaming", "fetching"} :
          task' = [task EXCEPT ![t] = [@ EXCEPT !.pc = pc, !.at = now', !.row = None, !.kept = <<>>]]
    BY <1>4
  <2> DEFINE c == [task[t] EXCEPT !.pc = pc, !.at = now', !.row = None, !.kept = <<>>]
             answer == [Answer(t, 0, FALSE) EXCEPT !.createdAt = now']
  <2>3. <<>> \in Seq(Message)
    OBVIOUS
  <2>4. c \in Call /\ c.pc = pc /\ c.chat = task[t].chat /\ c.content = 0
    BY <1>1, <2>1, <2>3 DEF Call, Pc, Idle
  <2>5. answer \in Message
    <3>1. Answer(t, 0, FALSE) \in Message
      BY <1>1, AnswerFacts, BoundFacts
    <3>. QED  BY <2>1, <3>1 DEF Message
  <2>6. task' = [task EXCEPT ![t] = c]
    BY <2>2
  <2>7. page' = [shown EXCEPT !.messages = Append(messages, answer), !.streamingId = t, !.controller = t]
    BY <1>2, <1>4
  <2>8. Append(messages, answer) \in Seq(Message)
    BY <2>5, AppendProperties
  <2> HIDE DEF c, answer, shown
  <2>9. CallType(c) /\ c.pc \in Idle /\ c.pc \in Answering
    BY <1>1, <2>4 DEF CallType, WithRow, Idle, Answering
  <2>10. /\ PageType(page') /\ page'.activeChatId = page.activeChatId /\ page'.chats = page.chats
         /\ page'.streamingId = t /\ page'.controller = t
    BY <1>2, <2>7, <2>8 DEF PageType
  <2>11. Moves(t, c) /\ MovesInQueue(t, c) /\ ButtonMoves(t, c)
    BY <1>4, <2>6, <2>9, <2>10 DEF Moves, MovesInQueue, ButtonMoves
  <2>12. Answers(t, c)
    BY <2>2, <2>4, <2>11 DEF Answers
  <2>. QED  BY <2>1, <2>10, <2>12
<1>. QED
  BY <1>3, <1>4 DEF Runs

LEMMA AskedStep ==
  ASSUME ChatInv, NEW t \in Task, Asked(t)
  PROVE  ChatInv'
<1> DEFINE question == [Answer(t, 1, FALSE) EXCEPT !.role = "user"]
           messages == Append(page.messages, question)
<1>1. /\ ChatTypes /\ task[t].pc = "asking" /\ stored' = PutMessage(stored, question)
      /\ Runs(t, [page EXCEPT !.messages = messages]) /\ deleted' = deleted
  BY DEF ChatInv, Asked
<1>2. question \in Message /\ question.of = t
  <2>1. Answer(t, 1, FALSE) \in Message /\ Answer(t, 1, FALSE).of = t
    BY <1>1, AnswerFacts, BoundFacts DEF OfAChat
  <2>. QED  BY <2>1 DEF Message
<1> HIDE DEF question
<1>3. messages \in Seq(Message)
  BY <1>1, <1>2, PageIs, AppendProperties
<1> HIDE DEF messages
<1>4. /\ \E c : Answers(t, c)
      /\ PageType(page') /\ page'.activeChatId = page.activeChatId /\ page'.chats = page.chats
      /\ now' \in 2 .. MaxNow
  BY <1>1, <1>3, RunsMoves
<1>5. PICK c : Answers(t, c)
  BY <1>4
<1>6. /\ c.pc \notin {"touching", "opening chat"} /\ ~(c.content > 0) /\ c.chat \in {None, task[t].chat}
      /\ Moves(t, c) /\ MovesInQueue(t, c) /\ ButtonMoves(t, c) /\ task[t].pc \notin Reloads
  <2>1. c.content = 0 => ~(c.content > 0)
    OBVIOUS
  <2>. QED  BY <1>1, <1>5, <2>1 DEF Answers, Reloads
<1>7. AnswersMove(t, c) /\ StoredType(stored') /\ stored'.chats = stored.chats
  BY <1>1, <1>2, <1>6, AnswerStored
<1>. QED
  BY <1>4, <1>6, <1>7, MessageStep

LEMMA DroppedStep ==
  ASSUME ChatInv, NEW t \in Task, Dropped(t)
  PROVE  ChatInv'
<1> DEFINE gone == {m \in stored.messages : m.chat = task[t].chat /\ m.createdAt >= task[t].at}
<1>1. /\ ChatTypes /\ task[t].pc = "dropping" /\ Drops(stored, gone)
      /\ Runs(t, [page EXCEPT !.messages = task[t].kept]) /\ gone \in SUBSET stored.messages
  BY DEF ChatInv, Dropped
<1> HIDE DEF gone
<1>2. task[t].kept \in Seq(Message) /\ StoredType(stored)
  BY <1>1, TaskFacts DEF Call, ChatTypes
<1>4. /\ \E c : Answers(t, c)
      /\ PageType(page') /\ page'.activeChatId = page.activeChatId /\ page'.chats = page.chats
      /\ now' \in 2 .. MaxNow
  BY <1>1, <1>2, RunsMoves
<1>5. PICK c : Answers(t, c)
  BY <1>4
<1>6. /\ c.pc \notin {"touching", "opening chat"} /\ ~(c.content > 0) /\ c.chat \in {None, task[t].chat}
      /\ Moves(t, c) /\ MovesInQueue(t, c) /\ ButtonMoves(t, c) /\ task[t].pc \notin Reloads
  <2>1. c.content = 0 => ~(c.content > 0)
    OBVIOUS
  <2>. QED  BY <1>1, <1>5, <2>1 DEF Answers, Reloads
<1>7. AnswersMove(t, c) /\ StoredType(stored') /\ stored'.chats = stored.chats
  BY <1>1, <1>2, <1>6, AnswersDropped
<1>. QED
  BY <1>4, <1>6, <1>7, MessageStep

\* A call that begins knows a chat of the sidebar, the chat shown, or none.
LEMMA BeginsStep ==
  ASSUME ChatInv, NEW t \in Task, NEW c, Begins(t, c), CallType(c), c.pc \notin Idle, c.content = 0,
         c.pc # "opening chat",
         c.chat \in {None, page.activeChatId} \/ \E row \in page.chats : row.id = c.chat,
         UNCHANGED <<page, stored, deleted>>, now' \in 2 .. MaxNow
  PROVE  ChatInv'
<1>1. Moves(t, c) /\ MovesInQueue(t, c) /\ task[t].pc = "none"
  BY BeginsMoves
<1>2. task[t].pc \notin Reloads /\ task[t].pc \notin Answering
  BY <1>1 DEF Reloads, Answering
<1>3. NamesOld(t, c) /\ SidebarMoves(t, c)
  BY <1>2, SameChats
<1>4. AnswersMove(t, c)
  <2>1. ~(c.content > 0)
    BY NoTokens
  <2>. QED  BY <2>1, SameAnswers
<1>5. ButtonMoves(t, c) /\ PageType(page') /\ StoredType(stored')
  BY <1>2 DEF ButtonMoves, ChatInv, ChatTypes
<1>. QED
  BY <1>1, <1>3, <1>4, <1>5, StepKept

\* The chat of a first question is new to everybody, and stays so for the others
\* that are being opened.
LEMMA NewChatAsked ==
  ASSUME ChatInv, NEW t \in Task, NEW c, NEW id \in Chats, New(id), Begins(t, c), CallType(c),
         c.pc = "opening chat", c.content = 0, c.chat = id,
         UNCHANGED <<page, stored, deleted>>, now' \in 2 .. MaxNow
  PROVE  ChatInv'
<1>1. ChatTypes /\ c.pc \notin Idle
  BY DEF ChatInv, Idle
<1>2. Moves(t, c) /\ MovesInQueue(t, c) /\ task[t].pc = "none"
  BY <1>1, BeginsMoves
<1>3. ChatTypes'
  BY <1>1, <1>2, TasksKept, QueueKept DEF ChatTypes
<1>4. task'[t] = c /\ \A u \in Task \ {t} : task'[u] = task[u]
  BY <1>1, <1>2, TaskAfter
<1>5. /\ id # Earlier /\ page.activeChatId # id /\ \A u \in Task : task[u].chat # id
      /\ \A row \in page.chats \cup stored.chats : row.id # id
  BY DEF New
<1>6. OpeningIsNew'
  <2> SUFFICES ASSUME NEW u \in Task, task'[u].pc = "opening chat"
               PROVE  /\ task'[u].chat \in Chats \ {Earlier} /\ page.activeChatId # task'[u].chat
                      /\ \A v \in Task \ {u} : task'[v].chat # task'[u].chat
                      /\ \A row \in page.chats \cup stored.chats : row.id # task'[u].chat
    BY DEF OpeningIsNew, NewTo
  <2>1. CASE u = t
    BY <1>4, <1>5, <2>1
  <2>2. CASE u # t
    <3>1. NewTo(task[u].chat, u) /\ task'[u] = task[u]
      BY <1>4, <2>2 DEF ChatInv, OpeningIsNew
    <3>. QED  BY <1>4, <1>5, <3>1 DEF NewTo
  <2>. QED  BY <2>1, <2>2
<1>7. ButtonMoves(t, c) /\ SidebarMoves(t, c)
  BY <1>2 DEF ButtonMoves, SidebarMoves, Answering, Reloads
<1>8. AnswersMove(t, c)
  <2>1. ~(c.content > 0)
    BY NoTokens
  <2>. QED  BY <2>1, SameAnswers
<1>. QED
  BY <1>2, <1>3, <1>6, <1>7, <1>8, StopKept, AnswersKept, SidebarKept DEF ChatInv

\* A call before its first operation has no tokens.
LEMMA FirstType ==
  ASSUME NEW c \in Call, c.content = 0, c.pc \in OfAChat => c.chat \in Chats,
         c.pc \in WithRow => c.row \in Row /\ c.row.id = c.chat
  PROVE  CallType(c)
BY NoTokens DEF CallType

LEMMA FreshIs == Fresh \in Call /\ Fresh.chat = None /\ Fresh.content = 0
BY FreshType DEF Fresh, CallType

LEMMA SendStep ==
  ASSUME ChatInv, NEW t \in Task, Send(t)
  PROVE  ChatInv'
<1> DEFINE call(pc, id) == [Fresh EXCEPT !.pc = pc, !.asks = TRUE, !.chat = id, !.at = now']
           row(id) == [id |-> id, title |-> "derived"]
<1>1. ChatTypes /\ now' \in Instant /\ UNCHANGED <<page, stored, deleted>>
  BY DEF ChatInv, Send
<1>2. now' \in 2 .. MaxNow /\ now' \in 0 .. MaxNow
  BY <1>1, InstantFacts
<1>3. CASE page.activeChatId # None /\ Begins(t, call("asking", page.activeChatId))
  <2> DEFINE c == call("asking", page.activeChatId)
  <2>1. page.activeChatId \in Chats
    BY <1>1, <1>3, PageIs
  <2>2. c \in Call /\ c.pc = "asking" /\ c.chat = page.activeChatId /\ c.content = 0
    BY <1>2, <2>1, FreshIs DEF Call, Pc, OfAChat
  <2>3. Begins(t, c)
    BY <1>3
  <2> HIDE DEF c
  <2>4. CallType(c)
    BY <2>1, <2>2, FirstType DEF WithRow
  <2>. QED  BY <1>1, <1>2, <2>2, <2>3, <2>4, BeginsStep DEF Idle
<1>4. ASSUME NEW id \in Chats, New(id), Begins(t, [call("opening chat", id) EXCEPT !.row = row(id)])
      PROVE  ChatInv'
  <2> DEFINE c == [call("opening chat", id) EXCEPT !.row = row(id)]
  <2>1. row(id) \in Row /\ row(id).id = id
    BY DEF Row
  <2>2. c \in Call /\ c.pc = "opening chat" /\ c.chat = id /\ c.content = 0 /\ c.row = row(id)
    BY <1>2, <2>1, FreshIs DEF Call, Pc, OfAChat
  <2>3. Begins(t, c)
    BY <1>4
  <2> HIDE DEF c, row
  <2>4. CallType(c)
    BY <2>1, <2>2, FirstType
  <2>. QED  BY <1>1, <1>2, <1>4, <2>2, <2>3, <2>4, NewChatAsked
<1>. QED
  BY <1>3, <1>4 DEF Send

LEMMA RegenerateStep ==
  ASSUME ChatInv, NEW t \in Task, Regenerate(t)
  PROVE  ChatInv'
<1> DEFINE messages == page.messages
           last == messages[Len(messages)]
           before == Filter(messages, {m \in ToSet(messages) : m.createdAt < last.createdAt})
           id == page.activeChatId
           c == [Fresh EXCEPT !.pc = "dropping", !.asks = TRUE, !.chat = id,
                   !.at = last.createdAt, !.kept = before]
<1>1. /\ ChatTypes /\ id # None /\ messages # <<>> /\ UNCHANGED <<now, page, stored, deleted>>
      /\ Begins(t, c)
  BY DEF ChatInv, Regenerate
<1>2. id \in Chats /\ messages \in Seq(Message)
  BY <1>1, PageIs
<1>3. last.createdAt \in 0 .. MaxNow
  <2>1. last \in Message
    BY <1>1, <1>2, EmptySeq, LenProperties, ElementOfSeq
  <2>. QED  BY <2>1 DEF Message
<1>4. before \in Seq(Message)
  BY <1>2, FilterFacts
<1> HIDE DEF before, last, messages
<1>5. c \in Call /\ c.pc = "dropping" /\ c.chat = id /\ c.content = 0
  BY <1>2, <1>3, <1>4, FreshIs DEF Call, Pc, OfAChat
<1> HIDE DEF c
<1>6. CallType(c)
  BY <1>2, <1>5, FirstType DEF WithRow
<1>7. now' \in 2 .. MaxNow
  BY <1>1 DEF ChatTypes
<1>. QED
  BY <1>1, <1>5, <1>6, <1>7, BeginsStep DEF Idle
-----------------------------------------------------------------------------
(* The sidebar and the settings *)

LEMMA ClickStep ==
  ASSUME ChatInv, NEW t \in Task, Click(t)
  PROVE  ChatInv'
<1>1. PICK row \in page.chats, pc \in {"selecting", "removing", "renaming"} : Clicks(t, pc, row)
  BY DEF Click
<1> DEFINE new == IF pc = "renaming" THEN [row EXCEPT !.title = "renamed"] ELSE None
           c == [Fresh EXCEPT !.pc = pc, !.chat = row.id, !.row = new]
<1>2. ChatTypes /\ UNCHANGED <<now, page, stored, deleted>> /\ Begins(t, c)
  BY <1>1 DEF ChatInv, Clicks
<1>3. row \in Row /\ row.id \in Chats
  BY <1>2, PageIs DEF Row
<1>4. new \in Row \cup {None} /\ (pc = "renaming" => new \in Row /\ new.id = row.id)
  BY <1>3 DEF Row
<1> HIDE DEF new
<1>5. pc \in Pc /\ (pc \in WithRow => pc = "renaming")
  BY DEF Pc, OfAChat, WithRow
<1>6. c \in Call /\ c.pc = pc /\ c.chat = row.id /\ c.row = new /\ c.content = 0
  BY <1>3, <1>4, <1>5, FreshIs DEF Call
<1> HIDE DEF c
<1>7. CallType(c)
  BY <1>3, <1>4, <1>5, <1>6, FirstType
<1>8. now' \in 2 .. MaxNow /\ c.pc \notin Idle /\ c.pc # "opening chat"
  BY <1>2, <1>6 DEF ChatTypes, Idle
<1>. QED
  BY <1>2, <1>6, <1>7, <1>8, BeginsStep

LEMMA WipeImportStep ==
  ASSUME ChatInv, NEW t \in Task, Wipe(t) \/ Import(t)
  PROVE  ChatInv'
<1>1. PICK pc \in {"wiping", "importing"} : Begins(t, [Fresh EXCEPT !.pc = pc])
  BY DEF Wipe, Import
<1> DEFINE c == [Fresh EXCEPT !.pc = pc]
<1>2. ChatTypes /\ UNCHANGED <<now, page, stored, deleted>> /\ Begins(t, c)
  BY <1>1 DEF ChatInv, Wipe, Import
<1>3. pc \in Pc /\ pc \notin OfAChat /\ pc \notin WithRow
  BY DEF Pc, OfAChat, Answering, WithRow
<1>4. c \in Call /\ c.pc = pc /\ c.chat = None /\ c.content = 0
  BY <1>3, FreshIs DEF Call
<1> HIDE DEF c
<1>5. CallType(c)
  BY <1>3, <1>4, FirstType
<1>6. now' \in 2 .. MaxNow /\ c.pc \notin Idle /\ c.pc # "opening chat"
  BY <1>2, <1>4 DEF ChatTypes, Idle
<1>. QED
  BY <1>2, <1>4, <1>5, <1>6, BeginsStep

\* A call that is over with what it has read, without an answer: the sidebar is as
\* it was, or what is stored.
LEMMA ShownStep ==
  ASSUME ChatInv, NEW t \in Task, Returns(t), UNCHANGED <<now, stored, deleted>>,
         task[t].pc \notin Answering \cup {"returned"}, PageType(page'),
         page'.activeChatId \in {None, page.activeChatId, task[t].chat},
         page'.streamingId = page.streamingId, page'.controller = page.controller,
         page'.chats = stored.chats \/ (page'.chats = page.chats /\ task[t].pc \notin Reloads)
  PROVE  ChatInv'
<1> DEFINE c == Over(t)
<1>1. ChatTypes
  BY DEF ChatInv
<1>2. /\ Moves(t, c) /\ MovesInQueue(t, c) /\ c.pc = "returned" /\ c.chat = None /\ ~(c.content > 0)
  BY <1>1, ReturnsMoves, NoAnswerYet
<1> HIDE DEF c
<1>3. NamesOld(t, c) /\ SidebarMoves(t, c)
  BY <1>2 DEF NamesOld, SidebarMoves
<1>4. AnswersMove(t, c) /\ ButtonMoves(t, c)
  BY <1>2, SameAnswers DEF ButtonMoves
<1>5. now' \in 2 .. MaxNow /\ StoredType(stored')
  BY <1>1 DEF ChatTypes
<1>. QED
  BY <1>2, <1>3, <1>4, <1>5, StepKept

LEMMA ListedStep ==
  ASSUME ChatInv, NEW t \in Task, Listed(t) \/ Relisted(t)
  PROVE  ChatInv'
<1>1. /\ ChatTypes /\ Returns(t) /\ UNCHANGED <<now, stored, deleted>>
      /\ task[t].pc \in {"listing", "listing imported", "listing wiped"}
  BY DEF ChatInv, Listed, Relisted
<1>2. stored.chats \subseteq Row /\ OneRowEach(stored.chats) /\ <<>> \in Seq(Message)
  <2>1. <<>> \in Seq(Message)
    OBVIOUS
  <2>. QED  BY <1>1, <2>1, StoredIs
<1>3. \/ page' = [page EXCEPT !.chats = stored.chats]
      \/ page' = [page EXCEPT !.chats = stored.chats, !.activeChatId = None, !.messages = <<>>]
  BY DEF Listed, Relisted
<1>4. /\ PageType(page') /\ page'.chats = stored.chats /\ page'.activeChatId \in {None, page.activeChatId}
      /\ page'.streamingId = page.streamingId /\ page'.controller = page.controller
  BY <1>1, <1>2, <1>3 DEF ChatTypes, PageType
<1>5. task[t].pc \notin Answering \cup {"returned"}
  BY <1>1 DEF Answering
<1>. QED
  BY <1>1, <1>4, <1>5, ShownStep

LEMMA ByTimeFacts ==
  ASSUME NEW messages \in SUBSET Message, IsFiniteSet(messages), NEW order \in ByTime(messages)
  PROVE  order \in Seq(Message)
<1> DEFINE n == Cardinality(messages)
<1>1. n \in Nat
  BY FS_CardinalityType
<1>2. order \in [1 .. n -> messages]
  BY DEF ByTime, SetToSeqs
<1> HIDE DEF n
<1>3. order \in [1 .. n -> Message]
  BY <1>2
<1>. QED
  BY <1>1, <1>3, SeqDef

LEMMA SelectedStep ==
  ASSUME ChatInv, NEW t \in Task, Selected(t)
  PROVE  ChatInv'
<1> DEFINE found == {m \in stored.messages : m.chat = task[t].chat}
<1>1. /\ ChatTypes /\ Returns(t) /\ UNCHANGED <<now, stored, deleted>> /\ task[t].pc = "selecting"
  BY DEF ChatInv, Selected
<1>2. PICK old \in ByTime({m \in found : m.of = 0}), new \in ByTime({m \in found : m.of # 0}) :
        page' = [page EXCEPT !.activeChatId = task[t].chat, !.messages = old \o new]
  BY DEF Selected
<1>3. found \in SUBSET Message /\ IsFiniteSet(found)
  BY <1>1, StoredIs, FS_Subset
<1> HIDE DEF found
<1>4. old \o new \in Seq(Message)
  <2>1. /\ {m \in found : m.of = 0} \in SUBSET Message /\ IsFiniteSet({m \in found : m.of = 0})
        /\ {m \in found : m.of # 0} \in SUBSET Message /\ IsFiniteSet({m \in found : m.of # 0})
    BY <1>3, FS_Subset
  <2>2. old \in Seq(Message) /\ new \in Seq(Message)
    BY <1>2, <2>1, ByTimeFacts
  <2>. QED
    BY <2>2
<1>5. task[t].chat \in Chats
  BY <1>1, TaskFacts DEF CallType, OfAChat
<1>6. /\ PageType(page') /\ page'.chats = page.chats /\ page'.activeChatId = task[t].chat
      /\ page'.streamingId = page.streamingId /\ page'.controller = page.controller
  BY <1>1, <1>2, <1>4, <1>5 DEF ChatTypes, PageType
<1>7. task[t].pc \notin Answering \cup {"returned"} /\ task[t].pc \notin Reloads
  BY <1>1 DEF Answering, Reloads
<1>. QED
  BY <1>1, <1>6, <1>7, ShownStep

LEMMA RemovedStep ==
  ASSUME ChatInv, NEW t \in Task, Removed(t)
  PROVE  ChatInv'
<1> DEFINE id == task[t].chat
           c == Over(t)
           gone == {m \in stored.messages : m.chat = id}
           db == [stored EXCEPT !.chats = Others(@, id)]
           chats == Others(page.chats, id)
           active == IF page.activeChatId = id THEN None ELSE page.activeChatId
           messages == IF page.activeChatId = id THEN <<>> ELSE page.messages
<1>1. /\ ChatTypes /\ task[t].pc = "removing" /\ Drops(db, gone) /\ Returns(t) /\ now' = now
      /\ page' = [page EXCEPT !.chats = chats, !.activeChatId = active, !.messages = messages]
      /\ gone \in SUBSET stored.messages
  BY DEF ChatInv, Removed
<1>2. /\ Moves(t, c) /\ MovesInQueue(t, c) /\ c.pc = "returned" /\ c.chat = None /\ ~(c.content > 0)
  BY <1>1, ReturnsMoves, NoAnswerYet DEF Answering
<1>3. /\ db.messages = stored.messages /\ db.chats = Others(stored.chats, id) /\ StoredType(db)
  BY <1>1 DEF ChatTypes, StoredType, Others, Rows, OneRowEach
<1> HIDE DEF gone, db, c
<1>4. AnswersMove(t, c) /\ StoredType(stored') /\ stored'.chats = Others(stored.chats, id)
  BY <1>1, <1>2, <1>3, AnswersDropped
<1>5. chats \subseteq page.chats /\ Others(stored.chats, id) \subseteq stored.chats
  BY DEF Others, Rows
<1>6. chats \subseteq Row /\ OneRowEach(chats) /\ messages \in Seq(Message)
      /\ active \in Chats \cup {None} /\ active \in {None, page.activeChatId}
  <2>1. <<>> \in Seq(Message)
    OBVIOUS
  <2>. QED  BY <1>1, <1>5, <2>1, PageIs DEF OneRowEach
<1>7. page.chats \subseteq stored.chats => chats \subseteq Others(stored.chats, id)
  BY DEF Others, Rows
<1> HIDE DEF chats, active, messages
<1>8. /\ PageType(page') /\ page'.chats = chats /\ page'.activeChatId = active
      /\ page'.streamingId = page.streamingId /\ page'.controller = page.controller
  BY <1>1, <1>6 DEF ChatTypes, PageType
<1>9. NamesOld(t, c)
  BY <1>2, <1>4, <1>5, <1>6, <1>8 DEF NamesOld
<1>10. SidebarMoves(t, c) /\ ButtonMoves(t, c) /\ now' \in 2 .. MaxNow
  BY <1>1, <1>4, <1>7, <1>8 DEF SidebarMoves, ButtonMoves, Reloads, Answering, ChatTypes
<1>. QED
  BY <1>2, <1>4, <1>8, <1>9, <1>10, StepKept

\* A wipe or an import goes on to read the list anew.
LEMMA GoesOnToList ==
  ASSUME ChatTypes, NEW t \in Task, NEW pc \in Reloads, task[t].pc \in {"wiping", "importing"},
         NEW c, c = [task[t] EXCEPT !.pc = pc], Issues(t, c)
  PROVE  /\ Moves(t, c) /\ MovesInQueue(t, c) /\ c.pc = pc /\ c.chat = task[t].chat
         /\ c.pc \notin {"opening chat", "touching", "returned"} /\ task[t].pc \notin Answering
<1>1. task[t].content = 0 /\ task[t] \in Call /\ task[t].pc \notin Answering
  <2>1. task[t].pc \notin Answering \cup {"returned"}
    BY DEF Answering
  <2>. QED  BY <2>1, NoAnswerYet, TaskFacts
<1>2. pc \in Pc /\ pc \notin OfAChat /\ pc \notin WithRow /\ pc \notin Idle
      /\ pc \notin {"opening chat", "touching", "returned"}
  BY DEF Reloads, Pc, OfAChat, Answering, WithRow, Idle
<1>3. c \in Call /\ c.pc = pc /\ c.chat = task[t].chat /\ c.content = 0
  BY <1>1, <1>2 DEF Call
<1>4. CallType(c)
  BY <1>2, <1>3, FirstType
<1>. QED
  BY <1>1, <1>2, <1>3, <1>4, IssuesMoves

LEMMA WipedStep ==
  ASSUME ChatInv, NEW t \in Task, Wiped(t)
  PROVE  ChatInv'
<1> DEFINE c == [task[t] EXCEPT !.pc = "listing wiped"]
           db == [stored EXCEPT !.chats = {}]
<1>1. /\ ChatTypes /\ task[t].pc \in {"wiping", "importing"} /\ Drops(db, stored.messages)
      /\ Issues(t, c) /\ UNCHANGED <<now, page>> /\ "listing wiped" \in Reloads
  BY DEF ChatInv, Wiped, Reloads
<1>2. db.messages = stored.messages /\ db.chats = {} /\ StoredType(db)
  BY <1>1 DEF ChatTypes, StoredType, OneRowEach
<1> HIDE DEF db
<1>3. /\ Moves(t, c) /\ MovesInQueue(t, c) /\ c.pc = "listing wiped" /\ c.chat = task[t].chat
      /\ c.pc \notin {"opening chat", "touching", "returned"} /\ task[t].pc \notin Answering
  BY <1>1, GoesOnToList
<1> HIDE DEF c
<1>4. AnswersMove(t, c) /\ StoredType(stored') /\ stored'.chats = {}
  <2>1. stored.messages \in SUBSET stored.messages
    OBVIOUS
  <2>. QED  BY <1>1, <1>2, <1>3, <2>1, AnswersDropped
<1>5. NamesOld(t, c)
  BY <1>1, <1>3, <1>4 DEF NamesOld
<1>6. SidebarMoves(t, c) /\ ButtonMoves(t, c) /\ now' \in 2 .. MaxNow /\ PageType(page')
  BY <1>1, <1>3 DEF SidebarMoves, ButtonMoves, ChatTypes
<1>. QED
  BY <1>3, <1>4, <1>5, <1>6, StepKept

LEMMA ImportedStep ==
  ASSUME ChatInv, NEW t \in Task, Imported(t)
  PROVE  ChatInv'
<1> DEFINE c == [task[t] EXCEPT !.pc = "listing imported"]
           chats == Others(stored.chats, Earlier) \cup Backup.chats
           messages == {m \in stored.messages : m.of # 0} \cup Backup.messages
<1>1. /\ ChatTypes /\ task[t].pc \in {"wiping", "importing"} /\ Issues(t, c)
      /\ stored' = [chats |-> chats, messages |-> messages]
      /\ UNCHANGED <<now, page, deleted>> /\ "listing imported" \in Reloads
  BY DEF ChatInv, Imported, Reloads
<1>2. /\ Moves(t, c) /\ MovesInQueue(t, c) /\ c.pc = "listing imported" /\ c.chat = task[t].chat
      /\ c.pc \notin {"opening chat", "touching", "returned"} /\ task[t].pc \notin Answering
  BY <1>1, GoesOnToList
<1> HIDE DEF c
<1>3. Backup.chats = {[id |-> Earlier, title |-> "derived"]} /\ Backup.chats \subseteq Row
      /\ Backup.messages \subseteq Message /\ IsFiniteSet(Backup.messages)
  BY EarlierType
<1>4. \A row \in Others(stored.chats, Earlier) : row \in stored.chats /\ row.id # Earlier
  BY DEF Others, Rows
<1>5. \A row \in Backup.chats : row.id = Earlier
  BY <1>3
<1>6. chats \subseteq Row /\ OneRowEach(chats)
  BY <1>1, <1>3, <1>4, <1>5, StoredIs DEF OneRowEach
<1>7. messages \subseteq Message /\ IsFiniteSet(messages)
  <2>1. IsFiniteSet({m \in stored.messages : m.of # 0})
    BY <1>1, StoredIs, FS_Subset
  <2>. QED  BY <1>1, <1>3, <2>1, StoredIs, FS_Union
<1>8. \A row \in chats : row.id = Earlier \/ row \in stored.chats
  BY <1>4, <1>5
<1>9. \A m \in stored.messages : m.of # 0 => m \in messages
  OBVIOUS
<1> HIDE DEF chats, messages
<1>10. StoredType(stored')
  BY <1>1, <1>6, <1>7 DEF StoredType
<1>11. NamesOld(t, c)
  BY <1>1, <1>2, <1>8 DEF NamesOld
<1>12. AnswersMove(t, c)
  BY <1>1, <1>2, <1>9, BoundFacts DEF AnswersMove, IsAnswer, ChatTypes
<1>13. SidebarMoves(t, c) /\ ButtonMoves(t, c) /\ now' \in 2 .. MaxNow /\ PageType(page')
  BY <1>1, <1>2 DEF SidebarMoves, ButtonMoves, ChatTypes
<1>. QED
  BY <1>2, <1>10, <1>11, <1>12, <1>13, StepKept
-----------------------------------------------------------------------------
(* The invariant of the chats *)

LEMMA ContainsFirst ==
  ASSUME NEW t
  PROVE  (Contains(<<1>>, t) <=> t = 1) /\ ~Contains(<<>>, t)
BY DEF Contains

LEMMA ChatInit ==
  ASSUME Init
  PROVE  ChatInv
<1>1. now \in 2 .. MaxNow /\ deleted \subseteq 0 .. MaxTasks
  BY BoundFacts DEF Init
<1>2. StoredType(stored)
  BY EarlierType DEF Init, StoredType, OneRowEach
<1>3. PageType(page) /\ page.streamingId = None
  <2>1. <<>> \in Seq(Message) /\ {} \subseteq Row
    OBVIOUS
  <2>2. CASE page = Page({}, <<>>, None)
    BY <2>1, <2>2, BoundFacts DEF PageType, Page, OneRowEach
  <2>3. CASE page = Page(Backup.chats, EarlierMessages, Earlier)
    BY <2>3, EarlierType, BoundFacts DEF PageType, Page, OneRowEach
  <2>. QED  BY <2>2, <2>3 DEF Init
<1>4. PICK S \in SUBSET {1} :
        /\ queue \in Seq(Task) /\ \A t \in Task : Contains(queue, t) <=> t \in S
        /\ page.activeChatId \in {None, Earlier} /\ page.chats \subseteq stored.chats
  <2>1. <<>> \in Seq(Task) /\ <<1>> \in Seq(Task) /\ {} \in SUBSET {1} /\ {1} \in SUBSET {1}
    BY BoundFacts
  <2>2. CASE page = Page({}, <<>>, None) /\ queue = <<1>>
    BY <2>1, <2>2, ContainsFirst DEF Page
  <2>3. CASE page = Page(Backup.chats, EarlierMessages, Earlier) /\ queue = <<>>
    BY <2>1, <2>3, ContainsFirst DEF Page, Init
  <2>. QED  BY <2>2, <2>3 DEF Init
<1> DEFINE listing == [Fresh EXCEPT !.pc = "listing"]
<1>5. /\ task = [t \in Task |-> IF Contains(queue, t) THEN listing ELSE Fresh]
      /\ \A t \in Task : task[t] \in {listing, Fresh} /\ (t \in S <=> task[t] = listing)
  <2>1. listing # Fresh
    BY DEF Fresh
  <2>. QED  BY <1>4, <2>1 DEF Init
<1>6. /\ CallType(Fresh) /\ Fresh.pc = "none"
      /\ CallType(listing) /\ listing.pc = "listing"
  <2>1. listing \in Call /\ listing.pc = "listing" /\ listing.content = 0
    BY FreshIs DEF Call, Pc
  <2> HIDE DEF listing
  <2>. QED  BY <2>1, FreshType, FirstType DEF OfAChat, Answering, WithRow
<1> HIDE DEF listing
<1>7. /\ \A t \in Task : CallType(task[t]) /\ task[t].pc \in {"none", "listing"}
      /\ \A t \in Task : t \in S <=> task[t].pc = "listing"
  BY <1>5, <1>6
<1>8. task \in [Task -> Call]
  BY <1>5, <1>6 DEF CallType
<1>9. TasksType /\ QueueType
  BY <1>4, <1>7, <1>8 DEF TasksType, QueueType, Idle
<1>10. ChatTypes
  BY <1>1, <1>2, <1>3, <1>9 DEF ChatTypes
<1>11. OpeningIsNew /\ AnswersAreKept
  BY <1>7 DEF OpeningIsNew, AnswersAreKept
<1>12. StopReachesTheRun /\ SidebarShowsWhatIsStored
  BY <1>3, <1>4 DEF StopReachesTheRun, Streaming, SidebarShowsWhatIsStored
<1>. QED
  BY <1>10, <1>11, <1>12 DEF ChatInv

LEMMA ChatsStep ==
  ASSUME ChatInv, [Next]_vars
  PROVE  ChatInv'
<1>1. CASE \E t \in Task : Send(t) \/ Regenerate(t) \/ Click(t) \/ Wipe(t) \/ Import(t)
  BY <1>1, SendStep, RegenerateStep, ClickStep, WipeImportStep
<1>2. CASE \E t \in Task : Token(t) \/ AnswerEnds(t)
  BY <1>2, TokenStep, CompletesStep, FailsStep DEF AnswerEnds
<1>3. CASE \E t \in Task : Completion(t)
  BY <1>3, ListedStep, OpenedStep, AskedStep, DroppedStep, SavedAnswerStep, TouchedStep, SavedFailureStep,
     SelectedStep, RemovedStep, RenamedStep, WipedStep, ImportedStep DEF Completion
<1>4. CASE Stop \/ NewChat
  BY <1>4, StopStep, NewChatStep
<1>5. CASE UNCHANGED vars
  BY <1>5 DEF vars, ChatInv, ChatTypes, PageType, StoredType, TasksType, QueueType, OpeningIsNew, NewTo,
     StopReachesTheRun, Streaming, AnswersAreKept, HasAnswer, SidebarShowsWhatIsStored
<1>. QED
  BY <1>1, <1>2, <1>3, <1>4, <1>5 DEF Next

LEMMA ChatInvariant == Spec => []ChatInv
<1>1. Init => ChatInv
  BY ChatInit
<1>2. ChatInv /\ [Next]_vars => ChatInv'
  BY ChatsStep
<1>. QED
  BY <1>1, <1>2, PTL DEF Spec
-----------------------------------------------------------------------------
(* What the page does with the chats is what their store allows *)

LEMMA PageStepIsAChatStep ==
  ASSUME [PageNext]_pageVars
  PROVE  [Next]_vars
<1>1. ASSUME NEW t \in Task, ChatCall(t) PROVE Next
  BY <1>1 DEF ChatCall, Asks, Next
<1>2. ASSUME NEW t \in Task, ChatStep(t) PROVE Next
  BY <1>2 DEF ChatStep, Next, Completion
<1>3. ASSUME NEW t \in Task, WipeStep(t) PROVE Next
  BY <1>3 DEF WipeStep, Next, Completion
<1>4. CASE Stop \/ NewChat
  BY <1>4 DEF Next
<1>5. CASE UNCHANGED pageVars
  BY <1>5 DEF pageVars
<1>. QED
  BY <1>1, <1>2, <1>3, <1>4, <1>5 DEF PageNext

\* The page, with the settings that its calls read and the wipe that spans both
\* stores, does nothing to the chats that the chat store alone could not do: what
\* is shown of useChats.ts below holds of the page whatever the settings are.
THEOREM PageImplementsTheChatStore == PageSpec => Spec
<1>1. PageInit => Init
  BY DEF PageInit
<1>2. [PageNext]_pageVars => [Next]_vars
  BY PageStepIsAChatStep
<1>. QED
  BY <1>1, <1>2, PTL DEF PageSpec, Spec

\* A chat has one row in the database and one in the sidebar, and a call is in the
\* queue of the database exactly while it waits for it, whatever saves, renames,
\* removals, imports and reloads of the list overlap.
THEOREM ChatTypesHold == Spec => []TypeOK
<1>1. ChatInv => TypeOK
  <2> SUFFICES ASSUME ChatInv PROVE TypeOK
    OBVIOUS
  <2>1. ChatTypes
    BY DEF ChatInv
  <2>2. \A t \in Task : /\ task[t].chat \in Chats \cup {None} /\ task[t].row \in Row \cup {None}
                        /\ task[t].content \in 0 .. MaxTokens
    BY <2>1, TaskFacts DEF Call
  <2>3. \A t \in Task : Contains(queue, t) <=> task[t].pc \notin {"none", "streaming", "fetching", "returned"}
    BY <2>1 DEF ChatTypes, QueueType, Idle
  <2>4. \A rows \in {page.chats, stored.chats} :
          \A row1, row2 \in rows : row1.id = row2.id => row1 = row2
    BY <2>1, PageIs, StoredIs DEF OneRowEach
  <2>. QED  BY <2>1, <2>2, <2>3, <2>4, PageIs, StoredIs DEF TypeOK, ChatTypes
<1>. QED
  BY <1>1, ChatInvariant, PTL

\* While the composer offers to stop an answer, the button reaches the run that
\* writes it, and that run has not returned: the finally block of a late run clears
\* the flag and the controller of whoever has them by then (useChats.ts:246), and
\* never one without the other.
THEOREM StopReachesWhoeverWrites == Spec => []StopReachesTheRun
<1>1. ChatInv => StopReachesTheRun
  BY DEF ChatInv
<1>. QED
  BY <1>1, ChatInvariant, PTL

\* What streamed in before a stop, a failure or the end of an answer is in the
\* database once the run has returned, unless it was deleted after it was saved
\* (useChats.ts:223): no overlapping call of the store takes it away.
THEOREM StreamedAnswersAreKept == Spec => []WhatStreamedInIsKept
<1>1. ChatInv => WhatStreamedInIsKept
  BY DEF ChatInv, AnswersAreKept, HasAnswer, WhatStreamedInIsKept
<1>. QED
  BY <1>1, ChatInvariant, PTL

\* What the sidebar shows of a chat is what a reload of the page will show, except
\* between a wipe or an import and the reading of the list that follows it.
THEOREM SidebarFollowsTheDatabase == Spec => []SidebarShowsWhatIsStored
<1>1. ChatInv => SidebarShowsWhatIsStored
  BY DEF ChatInv
<1>. QED
  BY <1>1, ChatInvariant, PTL
=============================================================================
