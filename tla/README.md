# adcs-issuer: TLA+ models, model checking and proofs

adcs-issuer is a cert-manager external issuer: it takes approved
`CertificateRequest`s whose issuer group is `adcs.certmanager.csf.nokia.com`,
submits their CSRs to the web enrolment pages of Microsoft Active Directory
Certificate Services (ADCS) and writes the certificate back. This directory
models the program under `src/`, checks it with TLC and proves theorems about
it with TLAPS.

    tlc -workers 2 -config core_safety.cfg MCAdcsOperator     # any run of PROJECT.json
    tlapm AdcsOperatorOrigins.tla                             # any module with theorems

## 1. Inventory

| Part | State it keeps | Operations | Modelled in |
|---|---|---|---|
| CertificateRequest reconciler, `controllers/certificaterequest_controller.go` | none between calls; a snapshot during one | `Reconcile`, `createAdcsRequest`, `RequestDiffers`, `SetStatus` | `CertificateRequestController` |
| AdcsRequest reconciler, `controllers/adcsrequest_controller.go` | none between calls; a snapshot it changes in memory during one | `Reconcile`, `setStatus` | `AdcsRequestController` |
| `Issuer.Issue`, `issuers/issuer.go` | none | submit, fetch, chain; `parseCaCert`, `tryParseX509` | control in `AdcsRequestController`, the texts in `CaChain` |
| Certsrv clients, `adcs/{ntlm,kerberos}_certsrv.go` | the HTTP client | `RequestCertificate`, `GetExistingCertificate`, `GetCaCertificate`, `GetCaCertificateChain` | `Certsrv` (operators), `CertsrvCalls` (a machine) |
| `IssuerFactory`, `issuers/issuer_factory.go` | none | `GetIssuer` and its reads, the client's constructors | `IssuerFactory`; one flag, `issuerReady`, for the reconcilers |
| Issuer types, `api/v1/*adcsissuer_types.go` | the specs | | `IssuerFactory` |
| `AdcsRequest` type, `api/v1/adcsrequest_types.go` | `status.state`, `status.id` | documented lifecycle | `AdcsRequestLifecycle` (abstract) |
| Manager, `main.go` | caches, two work queues | wiring, flags, start | `KubeApi`, `AdcsOperator`, `TwoManagers` |
| Kubernetes API (external) | the stored objects | get, create, update, delete, watch, garbage collection | `KubeApi` |
| ADCS (external) | the numbered submissions | accept, decide, show | `AdcsServer` |
| cert-manager, approver, administrator (external) | | create, approve, deny, delete, configure | `AdcsOperator`, `IssuerFactory` |

Not modelled: the AdcsIssuer and ClusterAdcsIssuer reconcilers (they read and
log), the webhooks (their files start with a dot and are not built, and `main.go` has
their set-up commented out), health check, version, scheme registration, generated
deep copies, charts and manifests, and the leader election (a library).

**How they interact.** The two reconcilers never call each other except that the
second uses `GetCertificateRequest` and `SetStatus` of the first. They meet in the API
server: the first creates an AdcsRequest of the same name and marks the
CertificateRequest `Processing`; the watch queues that name for the second, which
talks to ADCS, writes the CertificateRequest, then the AdcsRequest. Both
read from informer caches that lag, and both write with the resource version
they have read. A returned error, a panic or a `RequeueAfter` queues a name again.

The issuer, its Secret and its CA bundle are read anew in every Reconcile of an AdcsRequest, each
from the cache and each at another moment, while administrators change them.

**What is hard.** Stale caches against optimistic updates; the interleaving of the
two writers of a CertificateRequest; a result that exists only in memory
between an irreversible POST and two writes; restarts; conflicts and lost
replies; names used twice; two processes at once; a configuration read in pieces; that
nothing is polled, so every path must leave something behind that takes the request up
again. PROJECT.json lists the hazards at their lines, with the properties that cover them.

**What makes each part correct.** Client: a verdict is only reported from a page
that carries it, and what is pending can be asked for again. Issuer: the status
holds what ADCS has answered and after it one CA of its chain, nothing made up. Factory: an Issuer is one that was configured at
some moment, and follows the configuration without a restart. CertificateRequest
reconciler: what is approved gets an AdcsRequest, what is denied is marked, an
answer is never taken back. AdcsRequest reconciler: final states stay, the id is
set once and belongs to this very object, the owner hears of the verdict first, no
unfinished request is forgotten. Together: every approved request is answered,
only approved CSRs reach ADCS.

## 2. Modules

    KubeApi ── CertificateRequestController ─┐
       └────── AdcsRequestController ────────┴─ AdcsOperator ── MCAdcsOperator (TLC) ── TwoManagers (TLC)
    Certsrv ── AdcsServer ──┘                      │   └─ INSTANCE AdcsRequestLifecycle     │
       │                                           └─ AdcsOperatorProofs                    │
       │                                                └─ AdcsOperatorCopies               │
       │                                                     ├─ AdcsOperatorOrigins         │
       │                                                     ├─ AdcsOperatorWatch           │
       │                                                     └─ AdcsOperatorRefinement ── TwoManagersProofs
       └── CertsrvCalls ─┬─ CaChain ─┬─ MCCaChain (TLC)
                    Pem ─┘           └─ CertsrvProofs
                    Pem ── IssuerFactory ─┬─ MCIssuerFactory (TLC)
                                          └─ IssuerFactoryProofs

* **Certsrv.** A `Reply` is what one HTTP exchange brings back, reduced to what the
  clients look at: arrived, status 200, content type and its parameters,
  body readable to the end, the fragments the regular expressions search for, the
  request id in the page. `Disposition`, `GetExistingCertificate`,
  `AnsweredAtOnce`, `CertId` and `CaCertificate` say what is made of it. The clients
  differ in one point only, the non-200 branch of `obtainCaCertificate`.
* **CertsrvCalls.** The interface's calls, one exchange per step, against any replies.
* **KubeApi.** For each name one stored CertificateRequest and one AdcsRequest, the
  cache of each, a queue and a set of delayed names per controller. `uid` counts the
  objects under a name, `rev` is the resource version. A cache jumps to the
  latest version (`SyncCr`, `SyncAr`), which also queues the name; versions in
  between may be skipped, as reconcilers are level-triggered. `UpdateCr`/`UpdateAr` are `Status().Update`: accepted,
  refused for a conflict, lost before or after it is carried out.
  An update that changes nothing makes no new version, so it makes no event.
* **CertificateRequestController.** `CrTake` is `Reconcile` up to its early returns;
  `CrDeny`, `CrLookup`, `CrDelete`, `CrCreate`, `CrSetPending` are one API call each. The snapshot `crObj`
  is kept across them, as in the code.
* **AdcsRequestController.** `ArTake` and `ArGetIssuer` read, `ArSubmit`, `ArFetch` and
  `ArChain` are the exchanges of `Issue`, `ArGetCr`, `ArSetCr` and `ArSetAr` the end of
  `Reconcile`. `arObj` is the AdcsRequest that `Issue` changes in memory.
  A panic is recovered by controller-runtime and counts as a returned error.
* **AdcsServer.** A sequence of submissions; the id of one is its place in it. The
  decision may come at once or later and is never changed.
* **AdcsRequestLifecycle.** The abstract specification: absent, fresh, accepted with an
  id, concluded, removed. `AdcsOperator` implements it under `request`,
  which reads state and id off the stored object.
* **AdcsOperator.** Everything together, with users, garbage collector and restarts; the
  history variable `approvals` records what was approved. Each property is stated here.
* **TwoManagers.** The process of `AdcsOperator` and an instance of it with caches, queues and
  workers of its own; store and ADCS are shared.
* **Pem.** A PEM text as a sequence of certificates, ends of line and other text; `StandsAlone` and `Pool`
  say which certificates Go's decoder finds: those whose BEGIN starts and whose END ends a line.
* **IssuerFactory.** `GetIssuer` read by read: the issuer, the Secret, the CA bundle, the
  constructor. `Change` is an administrator. `Wanted` is what one state of the
  objects ought to give, written without the order of the reads. `views` and `touched` are history variables:
  what was wanted, and what was changed, during the running call.
* **CaChain.** `Issue` over the calls of `CertsrvCalls`, and the certificate fields of the status. The answer is
  taken as it arrives, which may be the beginning of a text only (`Beginnings`), and nobody parses it (`GetCertificate`);
  the chain is reduced by `parseCaCert` and `tryParseX509` to one certificate (`GetChain`); `Reconcile` appends the second to the
  first with nothing between (`Combine`). A text is that of `Pem`, so what runs together at the seam is lost. A
  block is an X.509 certificate or a PKCS#7 bundle; how ASN.1 is parsed is abstracted to what the block holds.

In the code `Processing` and `Rejected` are both the Ready condition `(False,
Pending)`, told apart by the message; so they are for the guards here, which only
look at `Decided`. The CertificateRequest's certificate is represented by the number of the
submission it came from. `IdNone` is the id `"none"` that the client returns with a certificate
that came with the answer to the POST.

`GetCertificateRequest` is a read of the cache; both workers keep what it returned until they write.

## 3. Assumptions about the surroundings

* `PromptWatch = TRUE` (`core_safety`, `liveness`, `unchecked`): requeue delays and resyncs take longer than the caches
  lag, and an AdcsRequest is not reconciled again before the last write to it has arrived in the cache.
  This is the usual case, not a guarantee. Without it the code may
  POST a second time after a final answer, since it reads `Unknown` from the cache, and a second
  verdict can then reach the CertificateRequest only: `OutcomesAgree`
  does not hold then. `lagging_reuse`, `two_managers` and all theorems but `VerdictsAgree` do without it.
* Approval and denial exclude each other and are not taken back (cert-manager's webhook
  enforces it); the spec of a CertificateRequest does not change.
* HTTP bodies arrive whole in the composed model; what the clients and `Issue` do with a body that
  breaks off is checked in `CertsrvCalls` and `CaChain`.
* An HTTP exchange ends, with an answer or an error. The code does not see to it: neither client sets a
  `Timeout` (`ntlm_certsrv.go:44-56`), so a server that accepts a connection and stays silent would hold the only
  AdcsRequest worker, and every request with it. All liveness properties rest on this assumption.
* One worker per controller (`MaxConcurrentReconciles` is not set), and one process except in `two_managers`.
* `issuer_factory` passes for a role that may list and watch ConfigMaps, `ListedKinds`. The role that the repository
  ships may not: see `configmap_bundle` below.

**Faults.** `MaxFaults` bounds, in one behaviour, the number of: API calls that fail before or after
they take effect, POSTs that do not reach ADCS or get no id, replies that are
lost or not 200, failing chain requests, a removed issuer, restarts. POSTs of a CSR in `Refused` get no id,
ever, and count as no fault. `MaxChanges` and `MaxLoginFailures` bound changes of objects and failing Kerberos logins
in `IssuerFactory`.

**Fairness.** Weak: watches deliver, delays end, the two workers take
steps other than faults (so exchanges end, see above), the garbage collector works, officials decide every pending
request, a missing issuer is created in the end. The first three are what
controller-runtime's goroutines do as long as the process runs; the last three are
assumptions about people and the cluster without which no answer can be promised.
Strong, for each name: the worker takes the name up (`CrTurn`, `ArTurn`). The work queue is
first in, first out, and a retry waits for its delay before it is queued, so a queued name cannot be
passed over for ever; the model keeps the queue as a set, and strong fairness stands for its order.
There is no fairness for creation, approval, deletion or faults, and for the resync only where
the name was used before: there the code has no other way out (see `ReuseAtStart`).
`IssuerFactory` has weak fairness of the calls: every Reconcile calls `GetIssuer` again.

## 4. Runs

| Run | Question | Bounds | Result |
|---|---|---|---|
| `core_safety` | do the two objects of a request agree, and is none forgotten, no answer taken back? | one name, one fault anywhere, denial, deletion, resync, broken issuer, other kinds of issuer | holds, 1.16 M states |
| `lagging_reuse` | is anything mixed up or forgotten when caches lag and a name is used again? | two CertificateRequests and two AdcsRequests under a name, two CSRs (symmetric), one submission (issued at once or later), one fault, lagging caches | holds, 6.64 M states |
| `liveness` | is every approved request answered and every denied one marked? | four beginnings, below; three AdcsRequests and four submissions under a name | holds, 173 k states |
| `unchecked` | what remains with `-disable-approved-check`? | one name, one fault, denial at any time | holds, safety and liveness |
| `two_managers` | what remains without leader election? | two processes, one name, two submissions, lagging caches; one worker of the second process is stalled | holds, 2.5 M states |
| `issuer_factory` | does `GetIssuer` return what was configured? | six issuer specs, three Secrets, five bundles, a cluster issuer, a foreign kind; two changes, one failing login | holds, 0.51 M states |
| `issue_calls` | do the clients keep their contract, and is what `Issue` returns readable? | two ids, every combination of a reply's fields; answers with and without a last end of line, cut anywhere; bodies of up to three pieces over a chain of two CAs | holds, 84 k states |

*Bounds.* The safety properties speak about one name at a time, and names share only the workers, so one
name reaches their interleavings; what a second name adds is waiting, which `liveness` has. One fault
with two submissions reaches the retry after any failing call, including the second submission after a
lost first one; two objects and two CSRs under a name reach all confusions of an old with a new object.
In `liveness` and `unchecked` `MaxSubmissions` is larger than any behaviour needs, so the bound never
stands for an error. In the other runs a POST beyond the bound fails. In `two_managers` the stalled worker
keeps the instance small: either both processes submit and answer what was prepared before them, or both prepare.
Two changes are what tears three reads; three pieces of text have a seam with something on both sides.

*The four beginnings of `liveness`* (`MCAdcsOperator`). `FreshStart`: one name, everything
is still to come, with a fault. `QueueAtStart`: beside the request that counts, another is waiting for the same
workers that ADCS refuses for ever or that names a kind of issuer which is never settled; its retries must not
keep the first one from its answer. `ReuseAtStart`: a request was deleted and made again with the same CSR, and its predecessor's
AdcsRequest is still there. The reconciler finds it and returns; once it is collected, only the resync of
the informers takes the request up again. Everywhere else the run has no resync, so that nothing may be forgotten till
then. `ReplaceAtStart`: the same with another CSR, so the reconciler goes through `CrDelete`: it deletes the
AdcsRequest by name, and creates its own. In the second and the third the faults are used up; in the last the fault is one of the
CertificateRequest reconciler. In all but the first ADCS issues what it decides, for a name used before at once.

*A rejection after a replacement.* On the path through `CrDelete` a status event can bring the reconciler back to the same place while
the cache still has the old object, and then it deletes its own AdcsRequest and creates a third. There a request may be rejected,
lose its AdcsRequest to that second deletion, be submitted again and rejected again (which
writes nothing new and makes no event), and then be marked Processing by the worker that made the third; it
stays so till the next resync, since the AdcsRequest is final. A restart after the first rejection is enough, so `ApprovedIsAnswered`
fails from `ReplaceAtStart` when ADCS may reject there and restarts are among the faults; that is why
ADCS only issues there. (Faults of the other worker are left out of that beginning for its size.)
No text of the repository speaks of this case. `RejectionsAreKept` says that it does not happen without such a replacement.

Properties (stated with their reasons above each definition):

* `LifecycleSpec`: the operator implements the documented lifecycle. `SharedLifecycle`: so do two processes.
* `OutcomesAgree`: a final AdcsRequest and its owner say the same. `AnswerIsFromAdcs`: what the owner is told is
  what ADCS has decided on a submission made under its name (of its own CSR only while the name is not used
  again: see `issued_for_other`).
* `ApprovedIsWatched`, `UnfinishedIsWatched`: nothing is forgotten. The first is for a name
  that is not used again.
* `DeniedIsNotIssued`; `AnswersAreKept`, `AnswersAreKeptByBoth` (action properties): a decided request (Issued, Failed, Denied)
  stays as it is. A rejection does not decide a request for this reconciler; for it there is `RejectionsAreKept`.
* `IdsAreKnown`, `RecordedIdIsOwn`, `SubmittedWasApproved`, `CopiesAreHonest`: no mix-up under a reused name;
  `BothCopiesAreHonest`, `BothIdsAreKnown` with two processes.
* `ApprovedIsAnswered`, `DeniedIsMarked`, `EveryRequestIsSettled`: liveness.
* `VerdictIsBacked`, `PendingCanBeFetched`, `StatusIsReadable`: clients and `Issue`.
* `SingleChangeIsAtomic`, `ListedCertificatesAreTrusted`, `ConfigurationTakesEffect`: the factory. Changes of two objects
  during one call can give an Issuer that was never configured; the next Reconcile builds another.

Each has a mutant in PROJECT.json, a plausible slip in the code that TLC finds with the
same configuration. The slips are the definitions named so, next to the ones they replace.

### Where the code does not do what its text says

Five runs end in a counterexample, each for one sentence of a comment, a document or a test:

| Run | The text | What happens |
|---|---|---|
| `issued_without_cert` | `issuer.go:35`, `docs/OLD.md:144` | a Ready AdcsRequest that is reconciled once more overwrites the certificate with nothing |
| `accepted_unrecorded` | `adcsrequest_types.go:37` | the id is lost, and the CSR submitted again, when the CertificateRequest's update conflicts with the other reconciler's |
| `issued_for_other` | `adcsrequest_controller.go:77`, `docs/OLD.md:141` | the certificate goes to a new request of the same name |
| `certsrv_panic` | `certsrv.go:24`, `ntlm_certsrv_test.go:238` | nil dereference instead of an error |
| `configmap_bundle` | `docs/OLD.md:73` | the role grants only `get` on ConfigMaps, but the cached read lists and watches: `GetIssuer` waits for ever |

The first three need no fault, no lagging cache and no resync; `certsrv_panic` needs the answer it is about.
The model of the read in `configmap_bundle` is that of the manager's client, a library; that it waits for the
informer is taken from how `main.go` builds that client.

Other divergences that the modules show, without a run of their own:

* The CA is appended to the answer of ADCS, which is not parsed, with no end of line between them
  (`adcsrequest_controller.go:99`): after an answer that does not end its last line, the last certificate of the answer and the
  CA are both unreadable in `status.certificate`. `StatusIsReadable` promises the answer's certificates for an answer that ends
  its line, and otherwise only that nothing is made up.
* A certificate that answers the POST itself and breaks off is returned as Ready, since `RequestCertificate` looks at the content
  type before it looks at the error of reading the body (`ntlm_certsrv.go:267`, `kerberos_certsrv.go:275`); its beginning is
  stored with the CA after it, and the status need not hold the new certificate. `VerdictIsBacked` allows a `truncated`
  certificate there, and nowhere else.
* A request for an unsupported kind of issuer is retried for ever and never marked, against
  `adcsrequest_types.go:25-26`: `QueueAtStart` has such a request and asks nothing of it.
* A rejected request is final, against `docs/OLD.md:145`; `AdcsRequestLifecycle` follows the code.
* Values of several `keys` are joined without an end of line (`issuer_factory.go:256`):
  `ListedCertificatesAreTrusted` is for values that end with one.
* Of a chain with several CAs one is kept (`issuer.go:177`), while `adcsrequest_controller.go:96` speaks of adding
  the CA's certificates; `StatusIsReadable` asks for one CA.
* `docs/OLD.md:209` names the flag `-enable-approved-check=false`; it is `-disable-approved-check`.

## 5. Proofs

For every value of the constants that satisfies the named assumptions (any set of names, any
bounds, caches lagging or not; for the clients, any request ids in pages; for the chain and the
factory, any texts and objects that the constants allow):

| Theorem | Module | Says |
|---|---|---|
| `TypesAndIds` | `AdcsOperatorProofs` | `Spec => [](TypeOK /\ IdsAreKnown)` |
| `Copies` | `AdcsOperatorCopies` | `Spec => []CopiesAreHonest` |
| `AnswersStay` | `AdcsOperatorCopies` | `Spec => AnswersAreKept` |
| `RecordedIds` | `AdcsOperatorOrigins` | `Spec => []RecordedIdIsOwn` |
| `OnlyApproved` | `AdcsOperatorOrigins` | `Spec => []SubmittedWasApproved` |
| `AnswersAreFromAdcs` | `AdcsOperatorOrigins` | `Spec => []AnswerIsFromAdcs` |
| `DeniedInherits` | `AdcsOperatorOrigins` | `Spec => []DeniedOnlyInherits`, with the approval check on |
| `DeniedStays` | `AdcsOperatorOrigins` | `Spec => []DeniedIsNotIssued`, with the approval check on, no name used again |
| `ImplementsLifecycle` | `AdcsOperatorRefinement` | `Spec => LifecycleSpec` |
| `NoneForgotten` | `AdcsOperatorWatch` | `Spec => []UnfinishedIsWatched` |
| `ApprovedNoneForgotten` | `AdcsOperatorWatch` | `Spec => []ApprovedIsWatched`, no name used again |
| `VerdictsAgree` | `AdcsOperatorWatch` | `Spec => []OutcomesAgree`, with `PromptWatch`, no name used again |
| `BothKnowTheirIds` | `TwoManagersProofs` | `TwoSpec => []BothIdsAreKnown` |
| `BothCopies` | `TwoManagersProofs` | `TwoSpec => []BothCopiesAreHonest` |
| `AnswersStayWithBoth` | `TwoManagersProofs` | `TwoSpec => AnswersAreKeptByBoth` |
| `LifecycleIsShared` | `TwoManagersProofs` | `TwoSpec => SharedLifecycle` |
| `ContractIsKept` | `CertsrvProofs` | `Spec => [](TypeOK /\ VerdictIsBacked /\ PendingCanBeFetched)` |
| `StatusReads` | `CertsrvProofs` | `IssueSpec => [](IssueTypeOK /\ StatusIsReadable)` |
| `ReadsAreAtomic` | `IssuerFactoryProofs` | `Spec => [](TypeOK /\ SingleChangeIsAtomic)` |
| `BundleIsTrusted` | `IssuerFactoryProofs` | `Spec => []ListedCertificatesAreTrusted` |

*Hypotheses beside the assumptions.* "No name used again" is `MaxRequests <= 1`: one CertificateRequest under each name.
It is needed. An answer is brought to whatever request has the name, so a denied one may inherit the
answer of its approved predecessor: that is all that may happen. `DeniedInherits` proves it without the hypothesis: whatever was
submitted under the name was submitted for an earlier request, and the answer is ADCS's decision about one of those submissions.
A request that finds its predecessor's AdcsRequest leaves the queue, and only the resync brings it
back (`ReuseAtStart`), against `ApprovedIsWatched`. `PromptWatch` is explained in section 3. The approval check is the default.

*The reconcilers.* `TypeOK` alone is not inductive: that an id is in the range of `adcs` needs
`IdsAreKnown`, which needs the types; `TypeInv` is both. Then every
step that changes a stored object raises its version (`Counted`), deletion included, so
a copy with the current version equals the stored object (`Copies`). That turns an accepted update into a write
from an up-to-date copy. `UndecidedInv` says that what the CertificateRequest reconciler holds when it
writes was undecided when it was read; since versions tell copies apart, an answered request refuses
that write. `CrSteps`, `ArSteps` and `StoreSteps` say once what any step may do to the two stored objects;
from them follow `DecisionInv`, a request is decided once, and `DescentInv`, whatever is kept under a
name descends from the request that has it or from an earlier one.

*Origins.* `OwnInv` adds to `RecordedIdIsOwn` the id of each copy and of the fetch that is under way;
`ApprovedInv` follows the CSR from the approved CertificateRequest over both snapshots and the
AdcsRequest to the submission. `BackedInv` follows a verdict the other way, from the page over the worker's
AdcsRequest to both stored objects and their copies; it stays true since ADCS never changes a decision. `DeniedInherits`
puts these together with `DecisionInv`: what was submitted under a name was approved, an approval under the name of a denied
request is of an earlier one (`ApprovedEarlier`), and an answer is the decision about something submitted.

*Lifecycle.* `VerdictInv` says when the worker's copy is already ahead of
the stored object it came from, which makes its only write an `Accept`, a `Conclude` or a stutter of the lifecycle.

*Nothing forgotten.* `WatchInv` is `UnfinishedIsWatched` with `Judged`: after the exchanges the worker's copy has a
verdict or is pending. When the worker lets a name go, either it delays or queues it, or its copy is final; then the
stored object was final already, has become so by its write, or has another version than the cache, which keeps the
name watched until the informer delivers it. For CertificateRequests the same argument needs `Single`: while no name is used again,
the worker never deletes the AdcsRequest of a request that is there, and a cached AdcsRequest is a stored one.

*Verdicts agree.* `AgreeInv` follows the two writes. While the worker has a name in hand (`InHand`), the stored AdcsRequest is either
not final yet, or final with the state in the worker's hand, so that nothing else can be written over it; and when
the worker comes to its last write, the owner has been told what it writes. `RejectionIsKnown`: a rejection, which does not decide
the request for the other reconciler, is not overwritten by `Processing`, as the AdcsRequest is in the cache where that one looks first.
A worker that takes up an AdcsRequest whose final state is not in its cache yet breaks `InHand`; `PromptWatch` excludes it.

*Two processes.* `ProcessInv` collects what the proofs above say about one process. `ProcessRests`: it survives any step of somebody else
who counts versions (`Cooperates`), stores what is well-formed and takes no submission back. `ProcessNext`: a step of the process itself is of
that kind. The second process is an instance of the first's proofs (`Two`), so each is kept by its own
steps and by the other's. The instances of two modules with the same text are equal by their definitions (`SameCrWorker` and the like).

*Client and chain.* `ContractInv` adds to the contract that a fetch is under way for an id that is not 0; `Fetched` is what a fetch
returns, whatever the reply, proved once from the definitions of `Certsrv`. `FoundInv` names the certificate
that `Issue` kept of the chain and says what the status is made of. `Appended` does the rest: a block put after any text, with an end of
line, adds nothing but itself to the certificates that are readable, and takes none away when the text ends its line.
`BeginningsAreTexts` lets this hold of answers that break off.

*Factory.* `SingleChangeIsAtomic` speaks of the moments of a call. `AtomicInv` says that while at most one object changes
(`Calm`), what was read so far and what is still to be read are what the objects say as they are, or as they were before the one change
(`Moments`, `HasRead`, `WillRead`). `BundleIsTrusted` needs that the pool of joined texts that end
their lines holds the pools of all (`JoinedPools`), for any number of keys: by `SetInduction`, an induction over natural numbers that is derived from
the well-foundedness of `<`, since the library's induction rule takes an operator.

*Only model-checked:* `RejectionsAreKept`, everything under fairness (`ApprovedIsAnswered`, `DeniedIsMarked`, `EveryRequestIsSettled`,
`ConfigurationTakesEffect`), which is out of the prover's reach, and `AnswerIsFromAdcs` with two processes.

## 6. Plan

Done: the reconcilers, the clients, the factory, the chain, two processes, waiting behind other requests, the switched-off
approval check, and the theorems above. Left:

1. An abstract specification of the whole service (requested, submitted, answered) that `AdcsOperator`
   implements when caches are prompt, checked and then proved from `AgreeInv` and `BackedInv`.
2. Theorems: the origins (`OwnInv`, `ApprovedInv`, `BackedInv`) for two processes, each of which only needs that the other
   keeps submissions; with them `AnswerIsFromAdcs`, the one property of `two_managers` that is not proved.
3. Both workers of the second process at once, if a smaller state makes room for it; the proofs do not depend on which one is stalled.
