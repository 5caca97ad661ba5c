------------------------ MODULE IssuerFactoryProofs ------------------------
(***************************************************************************)
(* GetIssuer for any objects and any administrators: the types, the reads  *)
(* that are as good as one (ReadsAreAtomic), and the CA bundle of which    *)
(* nothing is lost (BundleIsTrusted).  The invariant behind the reads      *)
(* (AtomicInv) names the moment of the call that its reads agree on.       *)
(***************************************************************************)
EXTENDS IssuerFactory, FiniteSetTheorems, SequenceTheorems, TLAPS

(***************************************************************************)
(* Induction on the length of a list: the smallest number outside S would  *)
(* be the successor of a number in S.                                      *)
(***************************************************************************)
LEMMA SetInduction ==
    ASSUME NEW S, 0 \in S, \A n \in S : n \in Nat => n + 1 \in S
    PROVE  Nat \subseteq S
<1> DEFINE T == Nat \ S
           R == OpToRel(<, Nat)
<1>1. SUFFICES ASSUME T # {} PROVE FALSE
  OBVIOUS
<1>2. IsWellFoundedOn(R, Nat)
  BY NatLessThanWellFounded, Zenon
<1>3. PICK x \in T : \A y \in T : ~(<<y, x>> \in R)
  <2> HIDE DEF R
  <2>1. T \subseteq Nat
    OBVIOUS
  <2> HIDE DEF T
  <2>2. QED
    BY <1>1, <1>2, <2>1, WFMin
<1>4. x # 0 /\ x - 1 \in Nat /\ x - 1 < x /\ x \in Nat
  OBVIOUS
<1>5. <<x - 1, x>> \in R
  BY <1>4, Zenon DEF OpToRel
<1>6. x - 1 \in S
  BY <1>3, <1>4, <1>5
<1>7. QED
  BY <1>4, <1>6

(* What FlattenSeq has joined after each sequence. *)
Joins(f, seqs, n) == f = [i \in 1..n |-> IF i = 1 THEN seqs[i] ELSE f[i - 1] \o seqs[i]]

LEMMA JoinsExist ==
    ASSUME NEW seqs, NEW n \in Nat
    PROVE  \E f : Joins(f, seqs, n)
<1> DEFINE S == {m \in Nat : \E f : Joins(f, seqs, m)}
<1>1. 0 \in S
  <2>1. Joins([i \in 1..0 |-> 0], seqs, 0)
    BY DEF Joins
  <2>2. QED
    BY <2>1
<1>2. ASSUME NEW m \in S, m \in Nat PROVE m + 1 \in S
  <2>1. PICK f : Joins(f, seqs, m)
    BY <1>2
  <2> DEFINE next == IF m = 0 THEN seqs[1] ELSE f[m] \o seqs[m + 1]
             g == [i \in 1..m + 1 |-> IF i = m + 1 THEN next ELSE f[i]]
  <2>2. \A i \in 1..m + 1 : g[i] = IF i = 1 THEN seqs[i] ELSE g[i - 1] \o seqs[i]
    <3> SUFFICES ASSUME NEW i \in 1..m + 1
                 PROVE  g[i] = IF i = 1 THEN seqs[i] ELSE g[i - 1] \o seqs[i]
      OBVIOUS
    <3>1. CASE i = m + 1
      <4>1. g[i] = next
        BY <3>1
      <4>2. i # 1 => m # 0 /\ i - 1 = m /\ g[i - 1] = f[m]
        BY <3>1
      <4>3. QED
        BY <3>1, <4>1, <4>2
    <3>2. CASE i # m + 1
      <4>1. i \in 1..m /\ g[i] = f[i]
        BY <3>2
      <4>2. i # 1 => i - 1 \in 1..m /\ g[i - 1] = f[i - 1]
        BY <4>1
      <4>3. f[i] = IF i = 1 THEN seqs[i] ELSE f[i - 1] \o seqs[i]
        BY <2>1, <4>1 DEF Joins
      <4>4. QED
        BY <4>1, <4>2, <4>3
    <3>3. QED
      BY <3>1, <3>2
  <2>3. g = [i \in 1..m + 1 |-> g[i]]
    OBVIOUS
  <2> HIDE DEF g
  <2>4. Joins(g, seqs, m + 1)
    BY <2>2, <2>3 DEF Joins
  <2>5. QED
    BY <2>4
<1> HIDE DEF S
<1>3. n \in S
  BY <1>1, <1>2, SetInduction
<1>4. QED
  BY <1>3 DEF S

LEMMA Flattened ==
    ASSUME NEW seqs, Len(seqs) \in Nat, Len(seqs) # 0
    PROVE  \E f : Joins(f, seqs, Len(seqs)) /\ FlattenSeq(seqs) = f[Len(seqs)]
<1> DEFINE f == CHOOSE f : Joins(f, seqs, Len(seqs))
<1>1. Joins(f, seqs, Len(seqs))
  BY JoinsExist
<1>2. FlattenSeq(seqs) = f[Len(seqs)]
  BY DEF FlattenSeq, Joins
<1>3. QED
  BY <1>1, <1>2

(* What holds of the first sequence, and of any one put after what it holds of, holds of the whole. *)
LEMMA FlattenedIn ==
    ASSUME NEW T, NEW seqs, Len(seqs) \in Nat, Len(seqs) # 0, seqs[1] \in T,
           \A i \in 1..Len(seqs), t \in T : t \o seqs[i] \in T
    PROVE  FlattenSeq(seqs) \in T
<1>1. PICK f : Joins(f, seqs, Len(seqs)) /\ FlattenSeq(seqs) = f[Len(seqs)]
  BY Flattened
<1> DEFINE n == Len(seqs)
           S == {m \in Nat : m \in 1..n => f[m] \in T}
<1>2. 0 \in S
  OBVIOUS
<1>3. ASSUME NEW m \in S, m \in Nat PROVE m + 1 \in S
  <2> SUFFICES ASSUME m + 1 \in 1..n PROVE f[m + 1] \in T
    OBVIOUS
  <2>1. f[m + 1] = IF m + 1 = 1 THEN seqs[m + 1] ELSE f[(m + 1) - 1] \o seqs[m + 1]
    BY <1>1 DEF Joins
  <2>2. CASE m = 0
    BY <2>1, <2>2
  <2>3. CASE m # 0
    <3>1. m \in 1..n /\ (m + 1) - 1 = m /\ m + 1 # 1
      BY <2>3
    <3>2. f[m] \in T
      BY <3>1, <1>3
    <3>3. QED
      BY <2>1, <3>1, <3>2
  <2>4. QED
    BY <2>2, <2>3
<1>4. n \in S
  <2> HIDE DEF S
  <2>1. QED
    BY <1>2, <1>3, SetInduction
<1>5. QED
  BY <1>1, <1>4

(* Joined sequences of elements of S are one. *)
LEMMA FlattenedType ==
    ASSUME NEW S, NEW seqs \in Seq(Seq(S))
    PROVE  FlattenSeq(seqs) \in Seq(S)
<1>1. Len(seqs) \in Nat /\ \A i \in 1..Len(seqs) : seqs[i] \in Seq(S)
  OBVIOUS
<1>2. CASE Len(seqs) = 0
  <2>1. seqs = <<>>
    BY <1>2
  <2>2. FlattenSeq(seqs) = <<>>
    BY <1>2, <2>1 DEF FlattenSeq
  <2>3. QED
    BY <2>2
<1>3. CASE Len(seqs) # 0
  <2>1. \A i \in 1..Len(seqs), t \in Seq(S) : t \o seqs[i] \in Seq(S)
    BY <1>1, ConcatProperties
  <2>2. seqs[1] \in Seq(S)
    BY <1>1, <1>3
  <2>3. QED
    BY <1>1, <1>3, <2>1, <2>2, FlattenedIn
<1>4. QED
  BY <1>2, <1>3

(* A text that ends its last line: no certificate is lost at the seam of two of them. *)
EndsLine(text) == text \in PemText /\ text # <<>> /\ text[Len(text)] = Eol

LEMMA JoinedPools ==
    ASSUME NEW a, NEW b, EndsLine(a), EndsLine(b), NEW ab, ab = a \o b
    PROVE  EndsLine(ab) /\ Pool(a) \subseteq Pool(ab) /\ Pool(b) \subseteq Pool(ab)
<1> DEFINE m == Len(a)
           n == Len(b)
<1>1. a \in PemText /\ b \in PemText /\ m \in Nat \ {0} /\ n \in Nat \ {0}
      /\ a[m] = Eol /\ b[n] = Eol /\ Eol \notin Certificates
  BY PemAssumption DEF EndsLine, PemText
<1>2. /\ ab \in PemText /\ Len(ab) = m + n
      /\ \A i \in 1..m + n : ab[i] = IF i <= m THEN a[i] ELSE b[i - m]
  BY <1>1, ConcatProperties DEF PemText
<1>3. DOMAIN a = 1..m /\ DOMAIN b = 1..n /\ DOMAIN ab = 1..m + n
  BY <1>1, <1>2 DEF PemText
<1> HIDE DEF m, n
<1>4. \A i \in 1..m : ab[i] = a[i] /\ i \in 1..m + n
  BY <1>1, <1>2
<1>5. \A i \in 1..n : ab[m + i] = b[i] /\ m + i \in 1..m + n
  <2> SUFFICES ASSUME NEW i \in 1..n PROVE ab[m + i] = b[i] /\ m + i \in 1..m + n
    OBVIOUS
  <2>1. m + i \in 1..m + n /\ ~(m + i <= m) /\ (m + i) - m = i
    BY <1>1
  <2>2. QED
    BY <1>2, <2>1
<1>6. EndsLine(ab)
  <2>1. ab[m + n] = Eol /\ m + n # 0
    <3>1. n \in 1..n /\ m + n # 0
      BY <1>1
    <3>2. QED
      BY <1>1, <1>5, <3>1
  <2>2. ab # <<>>
    BY <1>2, <2>1
  <2>3. QED
    BY <1>2, <2>1, <2>2 DEF EndsLine
<1>7. ASSUME NEW i \in 1..m, StandsAlone(a, i) PROVE StandsAlone(ab, i)
  <2>1. i # m /\ i + 1 \in 1..m /\ a[i + 1] = Eol
    BY <1>1, <1>7 DEF StandsAlone, m
  <2>2. i = 1 \/ (i - 1 \in 1..m /\ a[i - 1] = Eol)
    BY <1>1, <1>7 DEF StandsAlone
  <2>3. QED
    BY <1>4, <1>7, <2>1, <2>2 DEF StandsAlone
<1>8. ASSUME NEW i \in 1..n, StandsAlone(b, i) PROVE StandsAlone(ab, m + i)
  <2>1. i # n /\ i + 1 \in 1..n /\ b[i + 1] = Eol
    BY <1>1, <1>8 DEF StandsAlone, n
  <2>2. ab[(m + i) + 1] = Eol
    <3>1. (m + i) + 1 = m + (i + 1)
      BY <1>1
    <3>2. QED
      BY <1>5, <2>1, <3>1
  <2>3. ab[(m + i) - 1] = Eol
    <3>1. CASE i = 1
      <4>1. (m + i) - 1 = m /\ m \in 1..m
        BY <1>1, <3>1
      <4>2. QED
        BY <1>1, <1>4, <4>1
    <3>2. CASE i # 1
      <4>1. i - 1 \in 1..n /\ (m + i) - 1 = m + (i - 1) /\ b[i - 1] = Eol
        BY <1>1, <1>8, <3>2 DEF StandsAlone
      <4>2. QED
        BY <1>5, <4>1
    <3>3. QED
      BY <3>1, <3>2
  <2>4. ab[m + i] \in Certificates
    BY <1>5, <1>8 DEF StandsAlone
  <2>5. QED
    BY <2>2, <2>3, <2>4 DEF StandsAlone
<1>9. Pool(a) \subseteq Pool(ab)
  <2> SUFFICES ASSUME NEW i \in 1..m, StandsAlone(a, i) PROVE a[i] \in Pool(ab)
    BY <1>3 DEF Pool
  <2>1. QED
    BY <1>3, <1>4, <1>7 DEF Pool
<1>10. Pool(b) \subseteq Pool(ab)
  <2> SUFFICES ASSUME NEW i \in 1..n, StandsAlone(b, i) PROVE b[i] \in Pool(ab)
    BY <1>3 DEF Pool
  <2>1. QED
    BY <1>3, <1>5, <1>8 DEF Pool
<1>11. QED
  BY <1>6, <1>9, <1>10
-----------------------------------------------------------------------------
(* The texts under the listed keys of a Secret or ConfigMap, one after the other. *)
LEMMA ListedTexts ==
    ASSUME NEW object, \A field \in DOMAIN object : object[field] \in PemText,
           NEW ref \in CABundleReference, ToSet(BundleKeys(ref)) \subseteq DOMAIN object
    PROVE  LET keys == BundleKeys(ref) IN
           /\ Len(keys) \in Nat /\ DOMAIN keys = 1..Len(keys)
           /\ [i \in DOMAIN keys |-> object[keys[i]]] \in Seq(PemText)
           /\ Len([i \in DOMAIN keys |-> object[keys[i]]]) = Len(keys)
<1> DEFINE keys == BundleKeys(ref)
<1>1. ref.keys \in Seq(STRING)
  BY DEF CABundleReference
<1>2. Len(keys) \in Nat /\ DOMAIN keys = 1..Len(keys)
  <2>1. CASE keys = ref.keys
    BY <1>1, <2>1
  <2>2. \A text : Len(<<text>>) = 1 /\ DOMAIN <<text>> = 1..1
    OBVIOUS
  <2>3. QED
    BY <2>1, <2>2 DEF BundleKeys
<1> HIDE DEF keys
<1>3. \A i \in 1..Len(keys) : object[keys[i]] \in PemText
  <2> SUFFICES ASSUME NEW i \in 1..Len(keys) PROVE object[keys[i]] \in PemText
    OBVIOUS
  <2>1. keys[i] \in ToSet(keys)
    BY <1>2 DEF ToSet
  <2>2. QED
    BY <2>1 DEF keys
<1>4. QED
  BY <1>2, <1>3 DEF keys

(* getCaBundle returns a text. *)
LEMMA BundleType ==
    ASSUME NEW object, object # Absent => \A field \in DOMAIN object : object[field] \in PemText,
           NEW ref \in CABundleReference
    PROVE  CaBundle(object, BundleKeys(ref)) \in PemText
<1>1. <<>> \in PemText
  BY DEF PemText
<1>2. ASSUME object # Absent, ToSet(BundleKeys(ref)) \subseteq DOMAIN object
      PROVE  FlattenSeq([i \in DOMAIN BundleKeys(ref) |-> object[BundleKeys(ref)[i]]]) \in PemText
  <2>1. [i \in DOMAIN BundleKeys(ref) |-> object[BundleKeys(ref)[i]]] \in Seq(PemText)
    BY <1>2, ListedTexts
  <2>2. QED
    BY <2>1, FlattenedType DEF PemText
<1>3. QED
  BY <1>1, <1>2 DEF CaBundle

(* What GetIssuer has read is of its type. *)
FactoryInv ==
    /\ TypeOK
    /\ cache = [key \in DOMAIN Contents |-> cache[key]]
    /\ pc # "idle" => Known(call.kind)
    /\ spec # Absent => IssuerKey \in DOMAIN Contents
    /\ IsFiniteSet(touched)

(* The spec that was read is one of an issuer. *)
LEMMA ReferenceTypes ==
    ASSUME FactoryInv, spec # Absent
    PROVE  /\ pc # "idle" /\ spec \in Contents[IssuerKey]
           /\ spec.caBundle \in PemText /\ spec.caBundleRef \in CABundleReference
<1>1. pc # "idle" /\ Known(call.kind) /\ spec \in Contents[IssuerKey] /\ IssuerKey \in DOMAIN Contents
  BY DEF FactoryInv, TypeOK
<1>2. IssuerKey[1] = call.kind
  BY DEF IssuerKey
<1>3. spec \in AdcsIssuerSpec
  BY <1>1, <1>2, ContentsAssumption DEF Known, ClusterAdcsIssuerSpec
<1>4. QED
  BY <1>1, <1>3 DEF AdcsIssuerSpec

(* Secrets and ConfigMaps hold texts. *)
LEMMA BundleObject ==
    ASSUME FactoryInv, NEW ref, Supported(ref), NEW object, object = Get(cache, BundleKey(ref)),
           object # Absent
    PROVE  \A field \in DOMAIN object : object[field] \in PemText
<1>1. BundleKey(ref) \in DOMAIN Contents /\ object \in Contents[BundleKey(ref)]
  BY DEF Get, FactoryInv, TypeOK
<1>2. BundleKey(ref)[1] \in {"Secret", "ConfigMap"}
  BY DEF BundleKey, Supported
<1>3. QED
  BY <1>1, <1>2, ContentsAssumption

LEMMA TypesInit == Init => FactoryInv
<1> SUFFICES ASSUME Init PROVE FactoryInv
  OBVIOUS
<1>1. /\ cache = [key \in DOMAIN Contents |-> cache[key]]
      /\ \A key \in DOMAIN Contents : cache[key] \in Contents[key]
  BY ClustersAssumption DEF Init
<1>2. IsFiniteSet(touched)
  BY FS_EmptySet DEF Init
<1>3. /\ call \in IssuerCalls /\ authMode \in AuthModes /\ pc = "idle" /\ spec = Absent /\ certs = <<>>
      /\ changes = 0 /\ loginFailures = 0 /\ touched = {}
  BY DEF Init
<1>4. certs \in PemText /\ 0 \in 0..MaxChanges /\ 0 \in 0..MaxLoginFailures
  BY <1>3, FactoryBounds DEF PemText
<1>5. QED
  BY <1>1, <1>2, <1>3, <1>4 DEF FactoryInv, TypeOK

LEMMA TypesNext == FactoryInv /\ [Next]_vars => FactoryInv'
<1> SUFFICES ASSUME FactoryInv, [Next]_vars PROVE FactoryInv'
  OBVIOUS
<1>1. <<>> \in PemText
  BY DEF PemText
<1>2. call' = call => IssuerKey' = IssuerKey
  BY DEF IssuerKey
<1>3. authMode' = authMode => \A secret : Complete(secret)' = Complete(secret)
  BY DEF Complete
<1>4. CASE Start
  BY <1>1, <1>2, <1>4, FS_EmptySet DEF Start, GetIssuer, Return, memory, FactoryInv, TypeOK
<1>5. CASE ReadIssuer
  <2>1. CASE Get(cache, IssuerKey) = Absent
    BY <1>1, <1>2, <1>5, <2>1 DEF ReadIssuer, Return, history, FactoryInv, TypeOK
  <2>2. CASE Get(cache, IssuerKey) # Absent
    <3>1. IssuerKey \in DOMAIN Contents /\ Get(cache, IssuerKey) \in Contents[IssuerKey]
      BY <2>2 DEF Get, FactoryInv, TypeOK
    <3>2. QED
      BY <1>1, <1>2, <1>5, <2>2, <3>1 DEF ReadIssuer, history, FactoryInv, TypeOK
  <2>3. QED
    BY <2>1, <2>2
<1>6. CASE ReadCredentials
  <2> DEFINE secret == Get(cache, CredentialsKey(spec))
  <2>1. spec # Absent
    BY <1>6 DEF ReadCredentials, FactoryInv, TypeOK
  <2>2. spec.caBundle \in PemText
    BY <2>1, ReferenceTypes
  <2>3. UNCHANGED <<cache, call, authMode, changes, loginFailures, views, touched>>
    BY <1>6 DEF ReadCredentials, history
  <2>4. CASE Complete(secret)
    <3>1. Complete(creds)' /\ spec' = spec /\ certs' \in PemText /\ pc' \in {"client", "bundle"}
      BY <1>3, <1>6, <2>2, <2>3, <2>4 DEF ReadCredentials, Complete
    <3>2. QED
      BY <1>2, <1>6, <2>1, <2>3, <3>1 DEF ReadCredentials, FactoryInv, TypeOK
  <2>5. CASE ~Complete(secret)
    BY <1>1, <1>2, <1>6, <2>3, <2>5 DEF ReadCredentials, Return, FactoryInv, TypeOK
  <2>6. QED
    BY <2>4, <2>5
<1>7. CASE ReadBundle
  <2>1. spec # Absent
    BY <1>7 DEF ReadBundle, FactoryInv, TypeOK
  <2>2. Reference \in CABundleReference
    BY <2>1, ReferenceTypes DEF Reference
  <2> DEFINE object == Get(cache, BundleKey(Reference))
  <2>3. Supported(Reference) => CaBundle(object, BundleKeys(Reference)) \in PemText
    BY <2>2, BundleObject, BundleType
  <2>4. certs' \in PemText
    BY <1>1, <1>7, <2>3 DEF ReadBundle, FallBack, FactoryInv, TypeOK
  <2>5. /\ UNCHANGED <<cache, call, authMode, spec, creds, changes, loginFailures, views, touched>>
        /\ pc = "bundle" /\ pc' = "client"
    BY <1>7 DEF ReadBundle, history
  <2>6. Complete(creds)'
    BY <2>5 DEF Complete, FactoryInv, TypeOK
  <2>7. QED
    BY <1>2, <2>4, <2>5, <2>6 DEF FactoryInv, TypeOK
<1>8. CASE Build
  BY <1>1, <1>2, <1>8, FactoryBounds DEF Build, Return, history, FactoryInv, TypeOK
<1>9. ASSUME NEW key \in DOMAIN Contents, Change(key) PROVE FactoryInv'
  <2>1. PICK content \in Contents[key] : cache' = [cache EXCEPT ![key] = content]
    BY <1>9 DEF Change
  <2>2. /\ cache' = [k \in DOMAIN Contents |-> cache'[k]]
        /\ \A k \in DOMAIN Contents : cache'[k] \in Contents[k]
    BY <2>1 DEF FactoryInv, TypeOK
  <2>3. touched' = touched \cup {key} /\ IsFiniteSet(touched') /\ touched' \subseteq DOMAIN Contents
    BY <1>9, FS_AddElement DEF Change, FactoryInv, TypeOK
  <2>4. /\ UNCHANGED <<call, authMode, pc, spec, creds, certs, loginFailures>>
        /\ changes' \in 0..MaxChanges
    BY <1>9, FactoryBounds DEF Change, memory, FactoryInv, TypeOK
  <2>5. Complete(creds)' = Complete(creds)
    BY <2>4 DEF Complete
  <2>6. QED
    BY <1>2, <2>2, <2>3, <2>4, <2>5 DEF FactoryInv, TypeOK
<1>10. CASE UNCHANGED vars
  <2>1. Complete(creds)' = Complete(creds)
    BY <1>10 DEF Complete, vars, memory
  <2>2. QED
    BY <1>2, <1>10, <2>1 DEF vars, memory, history, FactoryInv, TypeOK
<1>11. QED
  BY <1>4, <1>5, <1>6, <1>7, <1>8, <1>9, <1>10 DEF Next, Calls
-----------------------------------------------------------------------------
(* At most one object has changed during the call, and none that it reads twice. *)
Calm == (\A a, b \in touched : a = b) /\ ~(\E key \in touched : ReadTwice(key))

(* The objects as they are, or as they were before one that has changed. *)
Moments ==
    {cache} \cup UNION {{[cache EXCEPT ![key] = content] : content \in Contents[key]} : key \in touched}

(* The spec that was read refers to a bundle that is going to be read. *)
HasBundle == spec.caBundleRef.name # "" /\ Supported(spec.caBundleRef)

(* What was read is what these objects say, and so is what is still to be read. *)
HasRead(objects) ==
    /\ pc \in {"credentials", "bundle", "client"} => spec = Get(objects, IssuerKey)
    /\ pc \in {"bundle", "client"} => creds = Get(objects, CredentialsKey(spec))
    /\ pc = "bundle" => spec.caBundleRef.name # "" /\ certs = spec.caBundle
    /\ pc = "client" => certs = WantedBundle(objects, spec)

WillRead(objects) ==
    /\ pc = "credentials" => Get(objects, CredentialsKey(spec)) = Get(cache, CredentialsKey(spec))
    /\ pc \in {"credentials", "bundle"} /\ HasBundle =>
           Get(objects, BundleKey(spec.caBundleRef)) = Get(cache, BundleKey(spec.caBundleRef))

ViewsInv ==
    /\ pc # "idle" => Wanted(cache) \in views
    /\ touched = {} => views \subseteq {Wanted(cache)}

AtomicInv ==
    Calm => IF pc = "idle" THEN result.err \in {"none yet", "login"} \/ result \in views
            ELSE \E objects \in Moments :
                     Wanted(objects) \in views /\ HasRead(objects) /\ WillRead(objects)

(* Neither the call nor the mode of this process ever changes, and with them what is wanted. *)
LEMMA SameKeys ==
    ASSUME call' = call, authMode' = authMode
    PROVE  /\ IssuerKey' = IssuerKey
           /\ \A sp : CredentialsKey(sp)' = CredentialsKey(sp)
           /\ \A ref : BundleKey(ref)' = BundleKey(ref)
           /\ \A secret : Complete(secret)' = Complete(secret)
           /\ \A key : ReadTwice(key)' = ReadTwice(key)
BY DEF IssuerKey, CredentialsKey, BundleKey, ResourceNamespace, Complete, ReadTwice

LEMMA SameWanted ==
    ASSUME call' = call, authMode' = authMode
    PROVE  /\ \A objects : Wanted(objects)' = Wanted(objects)
           /\ Wanted(cache)' = Wanted(cache')
BY DEF Wanted, IssuerKey, CredentialsKey, ResourceNamespace, Complete, NewIssuer, CertServ, Authenticates,
       WantedBundle, Referenced, BundleKey

(* The issuer is no Secret and no ConfigMap. *)
LEMMA OtherKind ==
    ASSUME Known(call.kind)
    PROVE  /\ \A sp : IssuerKey # CredentialsKey(sp)
           /\ \A ref : Supported(ref) => IssuerKey # BundleKey(ref)
BY DEF Known, IssuerKey, CredentialsKey, BundleKey, Supported

(* Which bundle is wanted depends on the referenced object, if there is one. *)
LEMMA BundleRead ==
    ASSUME NEW objects
    PROVE  WantedBundle(objects, spec) =
               IF HasBundle
               THEN FallBack(CaBundle(Get(objects, BundleKey(spec.caBundleRef)), BundleKeys(spec.caBundleRef)),
                             spec.caBundle)
               ELSE spec.caBundle
BY DEF WantedBundle, HasBundle, Referenced, FallBack, CaBundle, ToSet

LEMMA AnswerRead ==
    ASSUME NEW objects, Known(call.kind), spec # Absent, spec = Get(objects, IssuerKey)
    PROVE  LET secret == Get(objects, CredentialsKey(spec))
               text == WantedBundle(objects, spec)
           IN  Wanted(objects) = IF ~Complete(secret) THEN Failure("credentials")
                                 ELSE IF Pool(text) = {} THEN Failure("bundle")
                                 ELSE NewIssuer(spec, secret, text)
BY DEF Wanted

(* A reading step: the objects, and what they have been, stay. *)
LEMMA ReadingKeeps ==
    ASSUME FactoryInv, ViewsInv, AtomicInv, Calm', pc # "idle",
           UNCHANGED <<cache, call, authMode, views, touched>>
    PROVE  /\ ViewsInv' /\ Moments' = Moments
           /\ \E objects \in Moments :
                  Wanted(objects) \in views /\ HasRead(objects) /\ WillRead(objects)
<1>1. Calm /\ Moments' = Moments
  BY SameKeys DEF Calm, Moments
<1>2. ViewsInv'
  BY SameWanted DEF ViewsInv
<1>3. QED
  BY <1>1, <1>2 DEF AtomicInv

LEMMA StartIsAtomic == FactoryInv /\ Start => ViewsInv' /\ AtomicInv'
<1> SUFFICES ASSUME FactoryInv, Start PROVE ViewsInv' /\ AtomicInv'
  OBVIOUS
<1>1. UNCHANGED <<cache, call, authMode>> /\ views' = {Wanted(cache)} /\ touched' = {}
  BY DEF Start
<1>2. Wanted(cache)' = Wanted(cache)
  BY <1>1, SameWanted
<1>3. CASE Known(call.kind)
  <2>1. pc' = "issuer"
    BY <1>3 DEF Start, GetIssuer
  <2>2. HasRead(cache)' /\ WillRead(cache)'
    BY <2>1 DEF HasRead, WillRead
  <2>3. cache' \in Moments'
    BY DEF Moments
  <2>4. QED
    BY <1>1, <1>2, <2>1, <2>2, <2>3 DEF ViewsInv, AtomicInv
<1>4. CASE ~Known(call.kind)
  BY <1>1, <1>2, <1>4 DEF Start, GetIssuer, Return, Wanted, ViewsInv, AtomicInv
<1>5. QED
  BY <1>3, <1>4

LEMMA IssuerIsAtomic ==
    ASSUME FactoryInv, ViewsInv, AtomicInv, ReadIssuer
    PROVE  ViewsInv' /\ AtomicInv'
<1>1. UNCHANGED <<cache, call, authMode, views, touched>> /\ pc = "issuer"
  BY DEF ReadIssuer, history
<1>2. ViewsInv' /\ Wanted(cache) \in views /\ Wanted(cache)' = Wanted(cache)
  BY <1>1, SameWanted DEF ViewsInv
<1>3. Known(call.kind)
  BY <1>1 DEF FactoryInv
<1>4. CASE Get(cache, IssuerKey) = Absent
  BY <1>1, <1>2, <1>3, <1>4 DEF ReadIssuer, Return, Wanted, AtomicInv
<1>5. CASE Get(cache, IssuerKey) # Absent
  <2>1. pc' = "credentials" /\ spec' = Get(cache, IssuerKey) /\ IssuerKey' = IssuerKey
    BY <1>1, <1>5, SameKeys DEF ReadIssuer
  <2>2. HasRead(cache)' /\ WillRead(cache)'
    BY <1>1, <2>1 DEF HasRead, WillRead
  <2>3. cache' \in Moments'
    BY DEF Moments
  <2>4. QED
    BY <1>1, <1>2, <2>1, <2>2, <2>3 DEF AtomicInv
<1>6. QED
  BY <1>4, <1>5

LEMMA CredentialsAreAtomic ==
    ASSUME FactoryInv, ViewsInv, AtomicInv, ReadCredentials
    PROVE  ViewsInv' /\ AtomicInv'
<1>1. UNCHANGED <<cache, call, authMode, views, touched>> /\ pc = "credentials"
  BY DEF ReadCredentials, history
<1>2. ViewsInv'
  BY <1>1, SameWanted DEF ViewsInv
<1>3. Known(call.kind) /\ spec # Absent
  BY <1>1 DEF FactoryInv, TypeOK
<1> DEFINE secret == Get(cache, CredentialsKey(spec))
<1>4. SUFFICES ASSUME Calm' PROVE AtomicInv'
  BY <1>2 DEF AtomicInv
<1>5. PICK objects \in Moments : Wanted(objects) \in views /\ HasRead(objects) /\ WillRead(objects)
  BY <1>1, <1>4, ReadingKeeps
<1>6. spec = Get(objects, IssuerKey) /\ secret = Get(objects, CredentialsKey(spec))
  BY <1>1, <1>5 DEF HasRead, WillRead
<1>7. CASE Complete(secret)
  <2>1. /\ pc' = IF spec.caBundleRef.name = "" THEN "client" ELSE "bundle"
        /\ creds' = secret /\ certs' = spec.caBundle /\ spec' = spec
    BY <1>7 DEF ReadCredentials
  <2>2. /\ IssuerKey' = IssuerKey /\ CredentialsKey(spec)' = CredentialsKey(spec)
        /\ BundleKey(spec.caBundleRef)' = BundleKey(spec.caBundleRef)
        /\ WantedBundle(objects, spec)' = WantedBundle(objects, spec) /\ HasBundle' = HasBundle
    BY <1>1, <2>1 DEF IssuerKey, CredentialsKey, BundleKey, ResourceNamespace, WantedBundle, Referenced,
                      HasBundle
  <2>3. spec.caBundleRef.name = "" => WantedBundle(objects, spec) = spec.caBundle
    BY BundleRead DEF HasBundle
  <2>4. HasRead(objects)'
    BY <1>6, <2>1, <2>2, <2>3 DEF HasRead
  <2>5. WillRead(objects)'
    BY <1>1, <1>5, <2>1, <2>2 DEF WillRead
  <2>6. Wanted(objects)' \in views' /\ objects \in Moments'
    BY <1>1, <1>4, <1>5, ReadingKeeps, SameWanted
  <2>7. QED
    BY <2>1, <2>4, <2>5, <2>6 DEF AtomicInv
<1>8. CASE ~Complete(secret)
  <2>1. pc' = "idle" /\ result' = Failure("credentials")
    BY <1>8 DEF ReadCredentials, Return
  <2>2. Wanted(objects) = Failure("credentials")
    BY <1>3, <1>6, <1>8, AnswerRead
  <2>3. QED
    BY <1>1, <1>5, <2>1, <2>2 DEF AtomicInv
<1>9. QED
  BY <1>7, <1>8

LEMMA BundleIsAtomic ==
    ASSUME FactoryInv, ViewsInv, AtomicInv, ReadBundle
    PROVE  ViewsInv' /\ AtomicInv'
<1>1. /\ UNCHANGED <<cache, call, authMode, spec, creds, views, touched>>
      /\ pc = "bundle" /\ pc' = "client"
  BY DEF ReadBundle, history
<1>2. ViewsInv'
  BY <1>1, SameWanted DEF ViewsInv
<1>3. SUFFICES ASSUME Calm' PROVE AtomicInv'
  BY <1>2 DEF AtomicInv
<1>4. PICK objects \in Moments : Wanted(objects) \in views /\ HasRead(objects) /\ WillRead(objects)
  BY <1>1, <1>3, ReadingKeeps
<1>5. /\ spec = Get(objects, IssuerKey) /\ creds = Get(objects, CredentialsKey(spec))
      /\ spec.caBundleRef.name # "" /\ certs = spec.caBundle
  BY <1>1, <1>4 DEF HasRead
<1>6. certs' = WantedBundle(objects, spec)
  <2>1. HasBundle <=> Supported(Reference)
    BY <1>5 DEF HasBundle, Reference
  <2>2. HasBundle =>
            Get(objects, BundleKey(spec.caBundleRef)) = Get(cache, BundleKey(spec.caBundleRef))
    BY <1>1, <1>4 DEF WillRead
  <2>3. FallBack(<<>>, certs) = certs
    BY DEF FallBack
  <2>4. QED
    BY <1>5, <2>1, <2>2, <2>3, BundleRead DEF ReadBundle, Reference
<1>7. /\ IssuerKey' = IssuerKey /\ CredentialsKey(spec)' = CredentialsKey(spec)
      /\ WantedBundle(objects, spec)' = WantedBundle(objects, spec)
  BY <1>1 DEF IssuerKey, CredentialsKey, ResourceNamespace, WantedBundle, Referenced, BundleKey
<1>8. HasRead(objects)' /\ WillRead(objects)'
  BY <1>1, <1>5, <1>6, <1>7 DEF HasRead, WillRead
<1>9. Wanted(objects)' \in views' /\ objects \in Moments'
  BY <1>1, <1>3, <1>4, ReadingKeeps, SameWanted
<1>10. QED
  BY <1>1, <1>8, <1>9 DEF AtomicInv

LEMMA BuildIsAtomic ==
    ASSUME FactoryInv, ViewsInv, AtomicInv, Build
    PROVE  ViewsInv' /\ AtomicInv'
<1>1. UNCHANGED <<cache, call, authMode, views, touched>> /\ pc = "client" /\ pc' = "idle"
  BY DEF Build, Return, history
<1>2. ViewsInv'
  BY <1>1, SameWanted DEF ViewsInv
<1>3. SUFFICES ASSUME Calm' PROVE AtomicInv'
  BY <1>2 DEF AtomicInv
<1>4. PICK objects \in Moments : Wanted(objects) \in views /\ HasRead(objects) /\ WillRead(objects)
  BY <1>1, <1>3, ReadingKeeps
<1>5. /\ spec = Get(objects, IssuerKey) /\ creds = Get(objects, CredentialsKey(spec))
      /\ certs = WantedBundle(objects, spec)
  BY <1>1, <1>4 DEF HasRead
<1>6. Known(call.kind) /\ spec # Absent /\ Complete(creds)
  BY <1>1 DEF FactoryInv, TypeOK
<1>7. Wanted(objects) = IF Pool(certs) = {} THEN Failure("bundle") ELSE NewIssuer(spec, creds, certs)
  BY <1>5, <1>6, AnswerRead
<1>8. result' = Wanted(objects) \/ result'.err = "login"
  BY <1>7 DEF Build, Return, Failure
<1>9. QED
  BY <1>1, <1>4, <1>8 DEF AtomicInv

(* What this call has read already; it does not read these objects again. *)
ReadAlready(key) ==
    \/ pc \in {"credentials", "bundle", "client"} /\ key = IssuerKey
    \/ pc \in {"bundle", "client"} /\ key = CredentialsKey(spec)
    \/ pc = "client" /\ HasBundle /\ key = BundleKey(spec.caBundleRef)

(* Another version of one object shows in no other. *)
LEMMA OnlyKey ==
    ASSUME FactoryInv, NEW key, touched \subseteq {key}, NEW objects \in Moments,
           NEW other, other # key
    PROVE  Get(objects, other) = Get(cache, other)
<1>1. CASE objects = cache
  BY <1>1
<1>2. CASE objects # cache
  <2>1. PICK content \in Contents[key] : objects = [cache EXCEPT ![key] = content]
    BY <1>2 DEF Moments
  <2>2. QED
    BY <2>1 DEF Get
<1>3. QED
  BY <1>1, <1>2

LEMMA ChangeIsAtomic ==
    ASSUME FactoryInv, ViewsInv, AtomicInv, NEW key \in DOMAIN Contents, Change(key)
    PROVE  ViewsInv' /\ AtomicInv'
<1>1. PICK content \in Contents[key] : cache' = [cache EXCEPT ![key] = content]
  BY DEF Change
<1>2. /\ UNCHANGED <<call, authMode, pc, spec, creds, certs, result>>
      /\ views' = IF pc = "idle" THEN views ELSE views \cup {Wanted(cache')}
      /\ touched' = touched \cup {key}
  BY DEF Change, memory
<1>3. ViewsInv'
  BY <1>2, SameWanted DEF ViewsInv
<1>4. SUFFICES ASSUME Calm' PROVE AtomicInv'
  BY <1>3 DEF AtomicInv
<1>5. /\ Calm /\ touched \subseteq {key} /\ ~ReadTwice(key)
      /\ touched' = {key}
  <2>1. \A k : ReadTwice(k)' = ReadTwice(k)
    BY <1>2, SameKeys
  <2>2. QED
    BY <1>2, <1>4, <2>1 DEF Calm
<1>6. CASE pc = "idle"
  BY <1>2, <1>5, <1>6 DEF AtomicInv
<1>7. CASE pc # "idle"
  <2>1. PICK objects \in Moments : Wanted(objects) \in views /\ HasRead(objects) /\ WillRead(objects)
    BY <1>5, <1>7 DEF AtomicInv
  <2>2. Known(call.kind) /\ (pc # "issuer" => spec # Absent)
    BY <1>7 DEF FactoryInv, TypeOK
  <2>3. \A other : other # key =>
            /\ Get(cache', other) = Get(cache, other)
            /\ Get(objects, other) = Get(cache, other)
    BY <1>1, <1>5, <2>1, OnlyKey DEF Get
  <2>4. /\ IssuerKey' = IssuerKey /\ CredentialsKey(spec)' = CredentialsKey(spec)
        /\ BundleKey(spec.caBundleRef)' = BundleKey(spec.caBundleRef) /\ HasBundle' = HasBundle
        /\ \A o : WantedBundle(o, spec)' = WantedBundle(o, spec)
    BY <1>2 DEF IssuerKey, CredentialsKey, BundleKey, ResourceNamespace, WantedBundle, Referenced,
                HasBundle
  <2>5. CASE ReadAlready(key)
    <3>1. WillRead(objects)'
      <4>1. pc = "credentials" => key # CredentialsKey(spec)
        BY <2>2, <2>5, OtherKind DEF ReadAlready
      <4>2. pc \in {"credentials", "bundle"} /\ HasBundle => key # BundleKey(spec.caBundleRef)
        <5> SUFFICES ASSUME pc \in {"credentials", "bundle"}, HasBundle, key = BundleKey(spec.caBundleRef)
                     PROVE  FALSE
          OBVIOUS
        <5>1. key # IssuerKey
          BY <2>2, OtherKind DEF HasBundle
        <5>2. key = CredentialsKey(spec) /\ spec # Absent /\ spec \in Contents[IssuerKey]
          BY <2>2, <2>5, <5>1, ReferenceTypes DEF ReadAlready
        <5>3. QED
          BY <1>5, <2>2, <5>2 DEF ReadTwice, HasBundle
      <4>3. QED
        BY <1>2, <2>1, <2>3, <2>4, <4>1, <4>2 DEF WillRead
    <3>2. HasRead(objects)'
      BY <1>2, <2>1, <2>4 DEF HasRead
    <3>3. objects \in Moments'
      <4>1. PICK before \in Contents[key] : objects = [cache EXCEPT ![key] = before]
        <5>1. cache[key] \in Contents[key] /\ cache = [cache EXCEPT ![key] = cache[key]]
          BY DEF FactoryInv, TypeOK
        <5>2. CASE objects = cache
          BY <5>1, <5>2
        <5>3. CASE objects # cache
          BY <1>5, <2>1, <5>3 DEF Moments
        <5>4. QED
          BY <5>2, <5>3
      <4>2. objects = [cache' EXCEPT ![key] = before]
        BY <1>1, <4>1 DEF FactoryInv
      <4>3. objects \in {[cache' EXCEPT ![key] = now] : now \in Contents[key]} /\ key \in touched'
        BY <1>5, <4>1, <4>2
      <4>4. QED
        BY <4>3 DEF Moments
    <3>4. Wanted(objects)' \in views'
      BY <1>2, <1>7, <2>1, SameWanted
    <3>5. QED
      BY <1>2, <1>7, <3>1, <3>2, <3>3, <3>4 DEF AtomicInv
  <2>6. CASE ~ReadAlready(key)
    <3>1. pc \in {"credentials", "bundle", "client"} => spec = Get(cache', IssuerKey)
      BY <2>1, <2>3, <2>6 DEF HasRead, ReadAlready
    <3>2. pc \in {"bundle", "client"} => creds = Get(cache', CredentialsKey(spec))
      BY <2>1, <2>3, <2>6 DEF HasRead, ReadAlready
    <3>3. pc = "client" => certs = WantedBundle(cache', spec)
      <4> SUFFICES ASSUME pc = "client" PROVE certs = WantedBundle(cache', spec)
        OBVIOUS
      <4>1. certs = WantedBundle(objects, spec)
        BY <2>1 DEF HasRead
      <4>2. HasBundle => Get(objects, BundleKey(spec.caBundleRef)) = Get(cache', BundleKey(spec.caBundleRef))
        BY <2>3, <2>6 DEF ReadAlready
      <4>3. QED
        BY <4>1, <4>2, BundleRead
    <3>4. HasRead(cache)'
      <4>1. WantedBundle(cache, spec)' = WantedBundle(cache', spec)
        BY <1>2 DEF WantedBundle, Referenced, BundleKey, ResourceNamespace
      <4>2. QED
        BY <1>2, <2>1, <2>4, <3>1, <3>2, <3>3, <4>1 DEF HasRead
    <3>5. WillRead(cache)'
      BY DEF WillRead
    <3>6. Wanted(cache)' \in views' /\ cache' \in Moments'
      BY <1>2, <1>7, SameWanted DEF Moments
    <3>7. QED
      BY <1>2, <1>7, <3>4, <3>5, <3>6 DEF AtomicInv
  <2>7. QED
    BY <2>5, <2>6
<1>8. QED
  BY <1>6, <1>7

LEMMA AtomicNext == FactoryInv /\ ViewsInv /\ AtomicInv /\ [Next]_vars => ViewsInv' /\ AtomicInv'
<1> SUFFICES ASSUME FactoryInv, ViewsInv, AtomicInv, [Next]_vars PROVE ViewsInv' /\ AtomicInv'
  OBVIOUS
<1>1. CASE UNCHANGED vars
  <2>1. UNCHANGED <<cache, call, authMode, pc, spec, creds, certs, result, views, touched>>
    BY <1>1 DEF vars, memory, history
  <2>2. ViewsInv'
    BY <2>1, SameWanted DEF ViewsInv
  <2>3. CASE ~Calm'
    BY <2>2, <2>3 DEF AtomicInv
  <2>4. CASE Calm' /\ pc = "idle"
    BY <2>1, <2>2, <2>4, SameKeys DEF AtomicInv, Calm
  <2>5. CASE Calm' /\ pc # "idle"
    <3>1. PICK objects \in Moments : Wanted(objects) \in views /\ HasRead(objects) /\ WillRead(objects)
      BY <2>1, <2>5, ReadingKeeps
    <3>2. HasRead(objects)' /\ WillRead(objects)'
      <4>1. /\ IssuerKey' = IssuerKey /\ CredentialsKey(spec)' = CredentialsKey(spec)
            /\ BundleKey(spec.caBundleRef)' = BundleKey(spec.caBundleRef) /\ HasBundle' = HasBundle
            /\ WantedBundle(objects, spec)' = WantedBundle(objects, spec)
        BY <2>1 DEF IssuerKey, CredentialsKey, BundleKey, ResourceNamespace, WantedBundle, Referenced,
                    HasBundle
      <4>2. QED
        BY <2>1, <3>1, <4>1 DEF HasRead, WillRead
    <3>3. QED
      BY <2>1, <2>2, <2>5, <3>1, <3>2, ReadingKeeps, SameWanted DEF AtomicInv
  <2>6. QED
    BY <2>3, <2>4, <2>5
<1>2. QED
  BY <1>1, StartIsAtomic, IssuerIsAtomic, CredentialsAreAtomic, BundleIsAtomic, BuildIsAtomic, ChangeIsAtomic
     DEF Next, Calls

LEMMA Atomic == Spec => [](FactoryInv /\ ViewsInv /\ AtomicInv)
<1>1. Init => FactoryInv
  BY TypesInit
<1>2. Init => ViewsInv /\ AtomicInv
  <2> SUFFICES ASSUME Init PROVE ViewsInv /\ AtomicInv
    OBVIOUS
  <2>1. pc = "idle" /\ views = {} /\ result = Failure("none yet")
    BY DEF Init
  <2>2. result.err = "none yet"
    BY <2>1 DEF Failure
  <2>3. QED
    BY <2>1, <2>2 DEF ViewsInv, AtomicInv
<1>3. QED
  BY <1>1, <1>2, TypesNext, AtomicNext, PTL DEF Spec

(***************************************************************************)
(* However many objects there are, and whatever they contain: a change of  *)
(* one object during a call does not tear GetIssuer's three reads.         *)
(***************************************************************************)
THEOREM ReadsAreAtomic == Spec => [](TypeOK /\ SingleChangeIsAtomic)
<1>1. FactoryInv /\ AtomicInv => SingleChangeIsAtomic
  <2> SUFFICES ASSUME FactoryInv, AtomicInv, pc = "idle", Cardinality(touched) <= 1,
                      ~(\E key \in touched : ReadTwice(key))
               PROVE  result.err \in {"none yet", "login"} \/ result \in views
    BY DEF SingleChangeIsAtomic
  <2>1. \A a, b \in touched : a = b
    <3> SUFFICES ASSUME NEW a \in touched, NEW b \in touched, a # b PROVE FALSE
      OBVIOUS
    <3>1. IsFiniteSet(touched)
      BY DEF FactoryInv
    <3>2. IsFiniteSet({b}) /\ Cardinality({b}) = 1
      BY FS_Singleton
    <3>3. Cardinality({b} \cup {a}) = 2 /\ {b} \cup {a} \subseteq touched
      BY <3>2, FS_AddElement
    <3>4. Cardinality({b} \cup {a}) <= Cardinality(touched) /\ Cardinality(touched) \in Nat
      BY <3>1, <3>3, FS_Subset, FS_CardinalityType
    <3>5. QED
      BY <3>3, <3>4
  <2>2. QED
    BY <2>1 DEF AtomicInv, Calm
<1>2. FactoryInv => TypeOK
  BY DEF FactoryInv
<1>3. QED
  BY <1>1, <1>2, Atomic, PTL
-----------------------------------------------------------------------------
(* When every text ends its last line, no certificate of any of them is lost. *)
LEMMA FlattenedPool ==
    ASSUME NEW seqs, Len(seqs) \in Nat, Len(seqs) # 0, \A i \in 1..Len(seqs) : EndsLine(seqs[i])
    PROVE  \A j \in 1..Len(seqs) : Pool(seqs[j]) \subseteq Pool(FlattenSeq(seqs))
<1>1. PICK f : Joins(f, seqs, Len(seqs)) /\ FlattenSeq(seqs) = f[Len(seqs)]
  BY Flattened
<1> DEFINE n == Len(seqs)
           Good(m) == EndsLine(f[m]) /\ \A j \in 1..m : Pool(seqs[j]) \subseteq Pool(f[m])
           S == {m \in Nat : m \in 1..n => Good(m)}
<1>2. 0 \in S
  OBVIOUS
<1>3. ASSUME NEW m \in S, m \in Nat PROVE m + 1 \in S
  <2> SUFFICES ASSUME m + 1 \in 1..n PROVE Good(m + 1)
    OBVIOUS
  <2>1. f[m + 1] = IF m + 1 = 1 THEN seqs[m + 1] ELSE f[(m + 1) - 1] \o seqs[m + 1]
    BY <1>1 DEF Joins
  <2>2. EndsLine(seqs[m + 1])
    OBVIOUS
  <2>3. CASE m = 0
    <3>1. f[m + 1] = seqs[m + 1]
      BY <2>1, <2>3
    <3>2. \A j \in 1..m + 1 : seqs[j] = f[m + 1]
      BY <2>3, <3>1
    <3>3. EndsLine(f[m + 1])
      BY <2>2, <3>1
    <3>4. ASSUME NEW j \in 1..m + 1 PROVE Pool(seqs[j]) \subseteq Pool(f[m + 1])
      <4>1. seqs[j] = f[m + 1]
        BY <3>2
      <4>2. QED
        BY <4>1
    <3>5. QED
      BY <3>3, <3>4
  <2>4. CASE m # 0
    <3>1. m \in 1..n /\ (m + 1) - 1 = m /\ m + 1 # 1 /\ 1..m + 1 = 1..m \cup {m + 1}
      BY <2>4
    <3>2. Good(m)
      BY <3>1, <1>3
    <3>3. f[m + 1] = f[m] \o seqs[m + 1]
      BY <2>1, <3>1
    <3>4. /\ EndsLine(f[m + 1]) /\ Pool(f[m]) \subseteq Pool(f[m + 1])
          /\ Pool(seqs[m + 1]) \subseteq Pool(f[m + 1])
      <4>1. EndsLine(f[m])
        BY <3>2
      <4> HIDE DEF S, Good
      <4> DEFINE a == f[m]
                 b == seqs[m + 1]
                 ab == f[m + 1]
      <4>2. EndsLine(a) /\ EndsLine(b) /\ ab = a \o b
        BY <2>2, <3>3, <4>1
      <4> HIDE DEF a, b, ab
      <4>3. EndsLine(ab) /\ Pool(a) \subseteq Pool(ab) /\ Pool(b) \subseteq Pool(ab)
        BY <4>2, JoinedPools
      <4>4. QED
        BY <4>3 DEF a, b, ab
    <3>5. ASSUME NEW j \in 1..m + 1 PROVE Pool(seqs[j]) \subseteq Pool(f[m + 1])
      <4>1. CASE j = m + 1
        BY <3>4, <4>1
      <4>2. CASE j \in 1..m
        <5>1. Pool(seqs[j]) \subseteq Pool(f[m])
          BY <3>2, <4>2
        <5>2. QED
          BY <3>4, <5>1
      <4>3. QED
        BY <3>1, <4>1, <4>2
    <3>6. QED
      BY <3>4, <3>5
  <2>5. QED
    BY <2>3, <2>4
<1>4. n \in S
  <2> HIDE DEF S
  <2>1. QED
    BY <1>2, <1>3, SetInduction
<1>5. QED
  BY <1>1, <1>4

(***************************************************************************)
(* Any number of keys, each with any number of certificates: all of them   *)
(* are in the pool of the Issuer when every value ends its last line.      *)
(***************************************************************************)
THEOREM BundleIsTrusted == Spec => []ListedCertificatesAreTrusted
<1>1. FactoryInv /\ ViewsInv /\ AtomicInv => ListedCertificatesAreTrusted
  <2> SUFFICES ASSUME FactoryInv, ViewsInv, AtomicInv,
                      pc = "idle", touched = {}, result.err \in {"none", "bundle"},
                      \A text \in Values(cache) : text # <<>> /\ Last(text) = Eol,
                      NEW value \in Values(cache)
               PROVE  Pool(value) \subseteq IF result.err = "none" THEN result.certServ.pool ELSE {}
    BY DEF ListedCertificatesAreTrusted
  <2> DEFINE sp == Get(cache, IssuerKey)
             ref == sp.caBundleRef
             object == Get(cache, BundleKey(ref))
             keys == BundleKeys(ref)
             seqs == [i \in DOMAIN keys |-> object[keys[i]]]
  <2>1. result = Wanted(cache)
    <3>1. Calm /\ result.err \notin {"none yet", "login"}
      BY DEF Calm
    <3>2. QED
      BY <3>1 DEF AtomicInv, ViewsInv
  <2>2. Known(call.kind) /\ sp # Absent
    BY <2>1 DEF Wanted, Failure
  <2>3. \/ result = Failure("bundle") /\ Pool(WantedBundle(cache, sp)) = {}
        \/ \E secret : result = NewIssuer(sp, secret, WantedBundle(cache, sp))
    BY <2>1, <2>2 DEF Wanted, Failure
  <2>4. Pool(WantedBundle(cache, sp)) = IF result.err = "none" THEN result.certServ.pool ELSE {}
    BY <2>3 DEF Failure, NewIssuer, CertServ
  <2>5. /\ ref \in CABundleReference
        /\ Supported(ref) /\ object # Absent => \A field \in DOMAIN object : object[field] \in PemText
    <3>1. IssuerKey \in DOMAIN Contents /\ sp \in Contents[IssuerKey] /\ IssuerKey[1] = call.kind
      BY <2>2 DEF Get, IssuerKey, FactoryInv, TypeOK
    <3>2. sp \in AdcsIssuerSpec
      BY <2>2, <3>1, ContentsAssumption DEF Known, ClusterAdcsIssuerSpec
    <3>3. QED
      BY <3>2, BundleObject DEF AdcsIssuerSpec
  <2>6. /\ Referenced(cache, ref) # <<>> /\ value \in {object[key] : key \in ToSet(keys)}
        /\ Values(cache) = {object[key] : key \in ToSet(keys)}
    BY DEF Values
  <2>7. /\ Supported(ref) /\ object # Absent /\ \A i \in DOMAIN keys : keys[i] \in DOMAIN object
        /\ Referenced(cache, ref) = FlattenSeq(seqs)
    BY <2>6 DEF Referenced
  <2>8. /\ Len(keys) \in Nat /\ DOMAIN keys = 1..Len(keys) /\ seqs \in Seq(PemText) /\ Len(seqs) = Len(keys)
    BY <2>5, <2>7, ListedTexts DEF ToSet
  <2>9. \A i \in 1..Len(keys) : seqs[i] \in Values(cache) /\ EndsLine(seqs[i])
    <3> SUFFICES ASSUME NEW i \in 1..Len(keys) PROVE seqs[i] \in Values(cache) /\ EndsLine(seqs[i])
      OBVIOUS
    <3>1. seqs[i] = object[keys[i]] /\ keys[i] \in ToSet(keys) /\ seqs[i] \in PemText
      BY <2>8 DEF ToSet
    <3>2. seqs[i] \in Values(cache)
      BY <2>6, <3>1
    <3>3. QED
      BY <3>1, <3>2 DEF EndsLine, Last
  <2>10. PICK j \in 1..Len(keys) : value = seqs[j]
    BY <2>6, <2>8 DEF ToSet
  <2>11. WantedBundle(cache, sp) = FlattenSeq(seqs)
    BY <2>6, <2>7 DEF WantedBundle
  <2> HIDE DEF seqs, keys
  <2>12. Pool(value) \subseteq Pool(FlattenSeq(seqs))
    BY <2>8, <2>9, <2>10, FlattenedPool
  <2>13. QED
    BY <2>4, <2>11, <2>12
<1>2. QED
  BY <1>1, Atomic, PTL
=============================================================================
