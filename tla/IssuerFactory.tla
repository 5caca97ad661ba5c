--------------------------- MODULE IssuerFactory ---------------------------
(***************************************************************************)
(* IssuerFactory (src/issuers/issuer_factory.go): builds the Issuer that   *)
(* one Reconcile works with from the issuer object, the Secret with the    *)
(* credentials and the referenced CA bundle.  Each is read from the        *)
(* manager's cache in a step of its own, while administrators change them. *)
(* Names of kinds stand for all their spellings in upper and lower case.   *)
(***************************************************************************)
EXTENDS Integers, Pem

CONSTANTS
    IssuerCalls,        \* the issuers asked for: their kind, name, and the namespace of the request
    ClusterNamespace,   \* -cluster-resource-namespace
    DefaultTemplate,    \* -adcsTemplateName
    AuthModes,          \* values of ADCS_AUTH_MODE
    Durations,          \* the texts that parse as a duration
    ListedKinds,        \* the kinds of CA bundle objects that the program's role may list and watch
    Contents,           \* of every object: what it may contain, or Absent
    Clusters,           \* what a process may find when it starts
    Absent,
    MaxChanges,         \* bound on changes of objects
    MaxLoginFailures    \* bound on failing Kerberos logins

(* The types of the issuers' fields that GetIssuer reads. *)
CABundleReference == [name : STRING, kind : STRING, key : STRING, keys : Seq(STRING)]
AdcsIssuerSpec ==
    [url : STRING, credentialsRef : STRING, caBundle : PemText, caBundleRef : CABundleReference,
     statusCheckInterval : STRING, retryInterval : STRING, templateName : STRING]
ClusterAdcsIssuerSpec == AdcsIssuerSpec

ASSUME ContentsAssumption ==
    \A key \in DOMAIN Contents :
        /\ key[1] = "AdcsIssuer" => Contents[key] \subseteq AdcsIssuerSpec \cup {Absent}
        /\ key[1] = "ClusterAdcsIssuer" => Contents[key] \subseteq ClusterAdcsIssuerSpec \cup {Absent}
        /\ key[1] \in {"Secret", "ConfigMap"} =>
               \A data \in Contents[key] \ {Absent} : \A field \in DOMAIN data : data[field] \in PemText
ASSUME FactoryBounds == MaxChanges \in Nat /\ MaxLoginFailures \in Nat
ASSUME ClustersAssumption ==
    \A objects \in Clusters :
        /\ objects = [key \in DOMAIN Contents |-> objects[key]]
        /\ \A key \in DOMAIN objects : objects[key] \in Contents[key]

VARIABLES
    cache,          \* every object as the informers show it
    call,           \* the issuer that GetIssuer is called for, again and again
    authMode,       \* of this process
    pc,             \* what the running GetIssuer reads next, or "idle"
    spec,           \* the issuer's spec that it has read
    creds,          \* the Secret with the credentials that it has read
    certs,          \* the CA bundle that it is going to use
    result,         \* what the last GetIssuer returned
    changes, loginFailures,
    views, touched  \* history: the results for the caches during the call; the objects changed

memory == <<spec, creds, certs>>
history == <<views, touched>>
vars == <<cache, call, authMode, pc, memory, result, changes, loginFailures, history>>
-----------------------------------------------------------------------------
(* Which object is read where: object keys are kind, namespace and name. *)
Known(kind) == kind \in {"AdcsIssuer", "ClusterAdcsIssuer"}
IssuerKey ==
    <<call.kind, IF call.kind = "ClusterAdcsIssuer" THEN "" ELSE call.namespace, call.name>>
ResourceNamespace ==
    IF call.kind = "ClusterAdcsIssuer" THEN ClusterNamespace ELSE call.namespace
CredentialsKey(sp) == <<"Secret", ResourceNamespace, sp.credentialsRef>>

BundleKind(ref) == IF ref.kind = "" THEN "Secret" ELSE ref.kind
BundleKeys(ref) ==
    IF ref.keys # <<>> THEN ref.keys ELSE IF ref.key # "" THEN <<ref.key>> ELSE <<"ca.crt">>
BundleKey(ref) == <<BundleKind(ref), ResourceNamespace, ref.name>>
Supported(ref) == BundleKind(ref) \in {"Secret", "ConfigMap"}

(* getUserPassword: the keys that must be there. *)
Complete(secret) ==
    /\ secret # Absent
    /\ {"username", "password"} \subseteq DOMAIN secret
    /\ authMode = "kerberos" => "realm" \in DOMAIN secret

(* Slip for the mutation runs: each value in the place of the one before. *)
BundleOfLastKey(object, keys) ==
    IF object = Absent \/ ~(ToSet(keys) \subseteq DOMAIN object) THEN <<>> ELSE object[Last(keys)]

(* getCaBundle: the values one after the other, and <<>> for every error. *)
CaBundle(object, keys) ==
    IF object = Absent \/ ~(ToSet(keys) \subseteq DOMAIN object) THEN <<>>
    ELSE FlattenSeq([i \in DOMAIN keys |-> object[keys[i]]])

Interval(text, default) == IF text \in Durations THEN text ELSE default
Template(sp) == IF sp.templateName # "" THEN sp.templateName ELSE DefaultTemplate

(* Both constructors; without a name or a password, NTLM goes on without authentication. *)
Authenticates(secret) ==
    authMode = "kerberos" \/ (secret["username"] # <<>> /\ secret["password"] # <<>>)
CertServ(sp, secret, pool) ==
    [url |-> sp.url, user |-> secret["username"], password |-> secret["password"],
     realm |-> IF authMode = "kerberos" THEN secret["realm"] ELSE <<>>,
     authenticates |-> Authenticates(secret), pool |-> pool]

Failure(why) == [err |-> why]
NewIssuer(sp, secret, text) ==
    [err |-> "none", certServ |-> CertServ(sp, secret, Pool(text)),
     retryInterval |-> Interval(sp.retryInterval, "1h"),
     statusCheckInterval |-> Interval(sp.statusCheckInterval, "6h"),
     template |-> Template(sp)]
-----------------------------------------------------------------------------
(***************************************************************************)
(* What GetIssuer ought to return for one state of the objects: the        *)
(* referenced bundle counts when all of it is there and it is not empty,   *)
(* and otherwise the inline one.                                           *)
(***************************************************************************)
Get(objects, key) == IF key \in DOMAIN objects THEN objects[key] ELSE Absent

Referenced(objects, ref) ==
    LET object == Get(objects, BundleKey(ref))
        keys == BundleKeys(ref)
    IN  IF /\ ref.name # "" /\ Supported(ref) /\ object # Absent
           /\ \A i \in DOMAIN keys : keys[i] \in DOMAIN object
        THEN FlattenSeq([i \in DOMAIN keys |-> object[keys[i]]])
        ELSE <<>>

WantedBundle(objects, sp) ==
    IF Referenced(objects, sp.caBundleRef) # <<>>
    THEN Referenced(objects, sp.caBundleRef) ELSE sp.caBundle

Wanted(objects) ==
    LET sp == Get(objects, IssuerKey)
        secret == Get(objects, CredentialsKey(sp))
    IN  IF ~Known(call.kind) THEN Failure("kind")
        ELSE IF sp = Absent THEN Failure("issuer")
        ELSE IF ~Complete(secret) THEN Failure("credentials")
        ELSE IF Pool(WantedBundle(objects, sp)) = {} THEN Failure("bundle")
        ELSE NewIssuer(sp, secret, WantedBundle(objects, sp))
-----------------------------------------------------------------------------
TypeOK ==
    /\ \A key \in DOMAIN Contents : cache[key] \in Contents[key]
    /\ call \in IssuerCalls /\ authMode \in AuthModes
    /\ pc \in {"idle", "issuer", "credentials", "bundle", "client"}
    /\ spec # Absent => spec \in Contents[IssuerKey]
    /\ pc \in {"idle", "issuer"} <=> spec = Absent
    /\ pc \in {"bundle", "client"} => Complete(creds)
    /\ certs \in PemText
    /\ changes \in 0..MaxChanges /\ loginFailures \in 0..MaxLoginFailures
    /\ touched \subseteq DOMAIN Contents

Init ==
    /\ cache \in Clusters
    /\ call \in IssuerCalls /\ authMode \in AuthModes
    /\ pc = "idle" /\ spec = Absent /\ creds = Absent /\ certs = <<>>
    /\ result = Failure("none yet")
    /\ changes = 0 /\ loginFailures = 0
    /\ views = {} /\ touched = {}

(* Slip for the mutation runs: what was read stays in the factory. *)
ReturnKeeping(res) == pc' = "idle" /\ result' = res /\ UNCHANGED memory

Return(res) ==
    pc' = "idle" /\ result' = res /\ spec' = Absent /\ creds' = Absent /\ certs' = <<>>

(* The slip of keeping an Issuer that was built before, and GetIssuer up to the first read. *)
StartOnce ==
    IF result.err = "none" THEN UNCHANGED <<pc, memory, result>>
    ELSE pc' = "issuer" /\ UNCHANGED <<memory, result>>
GetIssuer ==
    IF Known(call.kind)
    THEN pc' = "issuer" /\ UNCHANGED <<memory, result>>
    ELSE Return(Failure("kind"))

Start ==
    /\ pc = "idle"
    /\ GetIssuer
    /\ views' = {Wanted(cache)} /\ touched' = {}
    /\ UNCHANGED <<cache, call, authMode, changes, loginFailures>>

ReadIssuer ==
    /\ pc = "issuer"
    /\ LET sp == Get(cache, IssuerKey) IN
       IF sp = Absent
       THEN Return(Failure("issuer"))
       ELSE pc' = "credentials" /\ spec' = sp /\ UNCHANGED <<creds, certs, result>>
    /\ UNCHANGED <<cache, call, authMode, changes, loginFailures, history>>

ReadCredentials ==
    /\ pc = "credentials"
    /\ LET secret == Get(cache, CredentialsKey(spec)) IN
       IF Complete(secret)
       THEN /\ pc' = IF spec.caBundleRef.name = "" THEN "client" ELSE "bundle"
            /\ creds' = secret /\ certs' = spec.caBundle
            /\ UNCHANGED <<spec, result>>
       ELSE Return(Failure("credentials"))
    /\ UNCHANGED <<cache, call, authMode, changes, loginFailures, history>>

(* Slip for the mutation runs: the reference as it is now, not as it was read. *)
ReferenceNow ==
    LET now == Get(cache, IssuerKey) IN IF now = Absent THEN spec.caBundleRef ELSE now.caBundleRef
Reference == spec.caBundleRef

(* What the reference gives; the inline bundle when that is nothing. *)
FallBack(text, inline) == IF text = <<>> THEN inline ELSE text

(***************************************************************************)
(* getCaBundle reads through an informer that Get waits for: with a kind   *)
(* that the role cannot list and watch, it never returns.                  *)
(***************************************************************************)
ReadBundle ==
    /\ pc = "bundle"
    /\ Supported(Reference) => BundleKind(Reference) \in ListedKinds
    /\ certs' = FallBack(IF Supported(Reference)
                         THEN CaBundle(Get(cache, BundleKey(Reference)), BundleKeys(Reference))
                         ELSE <<>>, certs)
    /\ pc' = "client"
    /\ UNCHANGED <<cache, call, authMode, spec, creds, result, changes, loginFailures, history>>

(* The pool, the constructor, which logs in with Kerberos, and the rest of the Issuer. *)
Build ==
    /\ pc = "client"
    /\ \/ /\ Return(IF Pool(certs) = {} THEN Failure("bundle") ELSE NewIssuer(spec, creds, certs))
          /\ UNCHANGED loginFailures
       \/ /\ authMode = "kerberos" /\ Pool(certs) # {}
          /\ loginFailures < MaxLoginFailures /\ loginFailures' = loginFailures + 1
          /\ Return(Failure("login"))
    /\ UNCHANGED <<cache, call, authMode, changes, history>>

(* An administrator creates, changes or deletes an object, and the informer shows it. *)
Change(key) ==
    /\ changes < MaxChanges /\ changes' = changes + 1
    /\ \E content \in Contents[key] \ {cache[key]} : cache' = [cache EXCEPT ![key] = content]
    /\ views' = IF pc = "idle" THEN views ELSE views \cup {Wanted(cache')}
    /\ touched' = touched \cup {key}
    /\ UNCHANGED <<call, authMode, pc, memory, result, loginFailures>>

Calls == Start \/ ReadIssuer \/ ReadCredentials \/ ReadBundle \/ Build
Next == Calls \/ \E key \in DOMAIN Contents : Change(key)

(***************************************************************************)
(* Every Reconcile calls GetIssuer anew, and nothing but the cluster's     *)
(* permissions keeps a call from going on.                                 *)
(***************************************************************************)
Fairness == WF_vars(Calls)
Spec == Init /\ [][Next]_vars /\ Fairness
-----------------------------------------------------------------------------
(***************************************************************************)
(* The three reads are not one, but changes of one object during a call    *)
(* cannot tear them: the Issuer, or the error, is the one for the objects  *)
(* at some moment of the call.  (One Secret that is read for both the      *)
(* credentials and the CA bundle is read twice, and changes of two objects *)
(* can give an Issuer that was never configured.)  A bundle with a key     *)
(* missing is never used in part.                                          *)
(***************************************************************************)
ReadTwice(key) ==
    Known(call.kind) /\ \E sp \in Contents[IssuerKey] \ {Absent} :
        key = CredentialsKey(sp) /\ sp.caBundleRef.name # "" /\ key = BundleKey(sp.caBundleRef)

SingleChangeIsAtomic ==
    pc = "idle" /\ Cardinality(touched) <= 1 /\ ~(\E key \in touched : ReadTwice(key))
        => result.err \in {"none yet", "login"} \/ result \in views

(***************************************************************************)
(* The configuration takes effect without a restart: once the objects stop *)
(* changing and Kerberos logins succeed, every call returns what they say, *)
(* whatever was built or failed before, and nobody keeps an old Issuer.    *)
(***************************************************************************)
ConfigurationTakesEffect == <>[](pc = "idle" => result = Wanted(cache))

(***************************************************************************)
(* "Alternatively, caBundleRef may reference a Secret or ConfigMap"        *)
(* (src/docs/OLD.md:73): a call that reads the reference ends.             *)
(***************************************************************************)
BundleReadEnds == pc = "bundle" ~> pc = "idle"

(***************************************************************************)
(* "Use keys to concatenate multiple certificate entries in order"         *)
(* (src/docs/OLD.md:73): every certificate that stands in the value of a   *)
(* listed key is trusted, when all keys are there and every value ends     *)
(* with the end of a line.  (Nothing is put between the values: after one  *)
(* without it, an END and a BEGIN are on one line, and both are lost.)     *)
(***************************************************************************)
Values(objects) ==
    LET ref == Get(objects, IssuerKey).caBundleRef
    IN  IF Referenced(objects, ref) = <<>> THEN {}
        ELSE {Get(objects, BundleKey(ref))[key] : key \in ToSet(BundleKeys(ref))}

ListedCertificatesAreTrusted ==
    /\ pc = "idle" /\ touched = {} /\ result.err \in {"none", "bundle"}
    /\ \A text \in Values(cache) : text # <<>> /\ Last(text) = Eol
    => \A text \in Values(cache) :
           Pool(text) \subseteq IF result.err = "none" THEN result.certServ.pool ELSE {}
=============================================================================
