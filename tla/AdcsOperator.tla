---------------------------- MODULE AdcsOperator ----------------------------
(***************************************************************************)
(* The two reconcilers together (src/main.go), with who uses them:         *)
(* cert-manager and its approver, the administrator who sets issuers up,   *)
(* the garbage collector, the ADCS server, and restarts of the process.    *)
(***************************************************************************)
EXTENDS CertificateRequestController, AdcsRequestController

CONSTANTS
    Refs,           \* what the issuer reference of a new CertificateRequest may be
    IssuerAtStart,  \* whether the issuer may be there, and may be missing, at the start
    Optional,       \* what users may do besides creating and approving requests
    MaxRequests     \* bound on CertificateRequests created under a name

ASSUME UsersAssumption ==
    /\ Refs \subseteq IssuerRef /\ IssuerAtStart \subseteq BOOLEAN
    /\ Optional \subseteq {"deny", "delete", "break"}
    /\ MaxRequests \in Nat

VARIABLE approvals  \* <<name, uid, csr>> of the CertificateRequests that were approved

vars == <<kubeVars, crWork, arWork, adcs, issuerReady, approvals>>

Init ==
    /\ KubeInit /\ CrWorkInit /\ ArWorkInit
    /\ adcs = <<>>
    /\ issuerReady \in IssuerAtStart
    /\ approvals = {}
-----------------------------------------------------------------------------
(* Users of the API.  A CertificateRequest keeps its spec and its first decision. *)
StoreCr(n, cr) ==
    /\ crs' = [crs EXCEPT ![n] = cr]
    /\ UNCHANGED <<ars, crCache, arCache, crQueue, arQueue, crTimer, arTimer, faults>>
    /\ UNCHANGED <<crWork, arWork, adcs, issuerReady>>

CreateRequest(n) ==
    /\ ~crs[n].live /\ crs[n].uid < MaxRequests
    /\ \E csr \in Csrs, ref \in Refs : StoreCr(n, NewCr(crs[n], csr, ref))
    /\ UNCHANGED approvals

Undecided(n) == crs[n].live /\ ~crs[n].approved /\ ~crs[n].denied

Approve(n) ==
    /\ Undecided(n)
    /\ StoreCr(n, [crs[n] EXCEPT !.approved = TRUE, !.rev = @ + 1])
    /\ approvals' = approvals \cup {<<n, crs[n].uid, crs[n].csr>>}

Deny(n) ==
    /\ "deny" \in Optional /\ Undecided(n)
    /\ StoreCr(n, [crs[n] EXCEPT !.denied = TRUE, !.rev = @ + 1])
    /\ UNCHANGED approvals

DeleteRequest(n) ==
    /\ "delete" \in Optional /\ crs[n].live /\ StoreCr(n, DeletedCr(crs[n]))
    /\ UNCHANGED approvals

(* The administrator creates the issuer or its Secret, or breaks one of them. *)
ConfigureIssuer ==
    /\ ~issuerReady /\ issuerReady' = TRUE
    /\ UNCHANGED <<kubeVars, crWork, arWork, adcs, approvals>>

BreakIssuer ==
    /\ "break" \in Optional /\ issuerReady /\ issuerReady' = FALSE /\ Fault
    /\ UNCHANGED <<crs, ars, crCache, arCache, crQueue, arQueue, crTimer, arTimer>>
    /\ UNCHANGED <<crWork, arWork, adcs, approvals>>

User ==
    \/ \E n \in Names : CreateRequest(n) \/ Approve(n) \/ Deny(n) \/ DeleteRequest(n)
    \/ ConfigureIssuer \/ BreakIssuer
-----------------------------------------------------------------------------
Others == <<crWork, arWork, adcs, issuerReady, approvals>>

(* Deliveries, delays and deletions of the cluster. *)
Cluster ==
    /\ \/ \E n \in Names : SyncCr(n) \/ SyncAr(n) \/ CrTimerFires(n) \/ ArTimerFires(n)
                           \/ GarbageCollect(n)
       \/ Resync
    /\ UNCHANGED Others

AdcsDecides(id) == Decide(id) /\ UNCHANGED <<kubeVars, crWork, arWork, issuerReady, approvals>>

CrWorker == CrStep /\ UNCHANGED <<arWork, adcs, issuerReady, approvals>>
ArWorker == ArStep /\ UNCHANGED <<crWork, approvals>>

(* The worker turns to this name. *)
CrTurn(n) == CrTake(n) /\ UNCHANGED <<arWork, adcs, issuerReady, approvals>>
ArTurn(n) == ArTake(n) /\ UNCHANGED <<crWork, approvals>>

(* The process ends and starts again: what was in memory is gone, the lists are read anew. *)
Restart ==
    /\ Fault
    /\ crPc' = "idle" /\ crKey' = NoName /\ crObj' = NoCr
    /\ ArDone
    /\ crCache' = crs /\ arCache' = ars
    /\ crQueue' = {n \in Names : crs[n].live} /\ arQueue' = {n \in Names : ars[n].live}
    /\ crTimer' = {} /\ arTimer' = {}
    /\ UNCHANGED <<storeVars, adcs, issuerReady, approvals>>

Next ==
    \/ User \/ Cluster \/ CrWorker \/ ArWorker \/ Restart
    \/ \E id \in DOMAIN adcs : AdcsDecides(id)

Spec == Init /\ [][Next]_vars
-----------------------------------------------------------------------------
(***************************************************************************)
(* Fairness of what runs by itself: watches deliver, delays end, workers   *)
(* go on (faults are not among the steps that have to happen) and take the *)
(* names in turn, since a retry waits before it queues its name again;     *)
(* orphans are deleted, officials decide, and a missing issuer is created  *)
(* in the end.                                                             *)
(***************************************************************************)
NoFault == UNCHANGED faults

Fairness ==
    /\ \A n \in Names :
         /\ WF_vars(SyncCr(n) /\ UNCHANGED Others)
         /\ WF_vars(SyncAr(n) /\ UNCHANGED Others)
         /\ WF_vars(CrTimerFires(n) /\ UNCHANGED Others)
         /\ WF_vars(ArTimerFires(n) /\ UNCHANGED Others)
         /\ WF_vars(GarbageCollect(n) /\ UNCHANGED Others)
         /\ SF_vars(CrTurn(n)) /\ SF_vars(ArTurn(n))
    /\ WF_vars(CrWorker /\ NoFault)
    /\ WF_vars(ArWorker /\ NoFault)
    /\ \A id \in 1..MaxSubmissions : WF_vars(AdcsDecides(id))
    /\ WF_vars(ConfigureIssuer)

FairSpec == Spec /\ Fairness
-----------------------------------------------------------------------------
TypeOK ==
    /\ KubeTypeOK /\ CrWorkTypeOK /\ ArWorkTypeOK
    /\ AdcsTypeOK(Names, Csrs \cup {NoCsr})
    /\ approvals \subseteq Names \X Nat \X (Csrs \cup {NoCsr})

(***************************************************************************)
(* A pending AdcsRequest has the id of a submission, in the store and in   *)
(* every copy: the branch of issuer.go:47 ("adcs id not set") is never     *)
(* taken, and the client never asks ADCS for the id "none".                *)
(***************************************************************************)
IdIsKnown(ar) ==
    /\ ar.id \in {0, IdNone} \cup DOMAIN adcs
    /\ ar.state = "Pending" => ar.id \in DOMAIN adcs

IdsAreKnown ==
    /\ \A n \in Names : IdIsKnown(ars[n]) /\ IdIsKnown(arCache[n])
    /\ IdIsKnown(arObj)
    /\ arPc = "fetch" => arId \in DOMAIN adcs

(***************************************************************************)
(* The lifecycle that the AdcsRequest type documents is what a reader of   *)
(* the API sees: final states stay, the id is set once, whatever stale     *)
(* copies, lost replies, restarts and reused names do to the controller.   *)
(* (types: "States 'ready' and 'rejected' are 'final'", "This field will   *)
(* be immutable after it is initially set".)                               *)
(***************************************************************************)
request == [n \in Names |-> [live |-> ars[n].live, state |-> ars[n].state, id |-> ars[n].id]]

Lifecycle == INSTANCE AdcsRequestLifecycle WITH Ids <- {IdNone} \cup 1..MaxSubmissions, Unset <- 0

LifecycleSpec == Lifecycle!Spec

(***************************************************************************)
(* The ADCS id in a stored AdcsRequest is the id of a submission of this   *)
(* very object, so what is fetched under it is for the same CSR.  At stake *)
(* when a worker still holds the deleted AdcsRequest of a reused name.     *)
(***************************************************************************)
IsOwn(k, n, ar) ==
    /\ k \in DOMAIN adcs
    /\ adcs[k].name = n /\ adcs[k].uid = ar.uid /\ adcs[k].csr = ar.csr

RecordedIdIsOwn == \A n \in Names : ars[n].id > 0 => IsOwn(ars[n].id, n, ars[n])

(***************************************************************************)
(* With the approval check, what ADCS gets is the CSR of a request that    *)
(* was approved, as it was approved: not of a later one of the same name,  *)
(* and not a CSR that another request of this name brought along.          *)
(***************************************************************************)
SubmittedWasApproved ==
    CheckApprovedCondition =>
        \A k \in DOMAIN adcs : <<adcs[k].name, adcs[k].owner, adcs[k].csr>> \in approvals

(***************************************************************************)
(* No copy is ahead of the store, and one with the version of the stored   *)
(* object has its contents: the caches, what the workers have read, and    *)
(* the spec of the AdcsRequest whose status Issue has changed in memory.   *)
(* All optimistic updates rest on this, also across the deletion and the   *)
(* new creation of a name.                                                 *)
(***************************************************************************)
Honest(copy, stored) == copy.rev <= stored.rev /\ (copy.rev = stored.rev => copy = stored)
SpecOf(ar) == [uid |-> ar.uid, owner |-> ar.owner, csr |-> ar.csr, ref |-> ar.ref, rev |-> ar.rev]
CopiesAreHonest ==
    /\ \A n \in Names : Honest(arCache[n], ars[n]) /\ Honest(crCache[n], crs[n])
    /\ arKey # NoName => Honest(SpecOf(arObj), SpecOf(ars[arKey]))
    /\ arPc = "setCR" => Honest(arCr, crs[arKey])
    /\ crKey # NoName => Honest(crObj, crs[crKey])

(***************************************************************************)
(* The verdict a reader finds in an AdcsRequest is the one its owner has:  *)
(* the CertificateRequest is written first, and a second submission after  *)
(* a lost write rewrites both.  Only a rejection, which leaves the Ready   *)
(* condition Pending, gives way to a denial that the reconciler sees later *)
(* (with the approval check off).                                          *)
(***************************************************************************)
OutcomeOf(state) ==
    CASE state = "Ready" -> "Issued" [] state = "Rejected" -> "Rejected" [] OTHER -> "Failed"

OutcomesAgree ==
    \A n \in Names :
        ars[n].live /\ Final(ars[n]) /\ crs[n].live /\ crs[n].uid = ars[n].owner =>
            \/ crs[n].ready = OutcomeOf(ars[n].state)
            \/ ars[n].state = "Rejected" /\ crs[n].ready = "Denied"

(***************************************************************************)
(* The CertificateRequest reconciler never takes back an answer that       *)
(* decides a request (Issued, Failed or Denied), although it marks the     *)
(* request Processing from a copy it has read before it created the        *)
(* AdcsRequest.                                                            *)
(***************************************************************************)
AnswersAreKept ==
    [][\A n \in Names : CrWorker /\ Decided(crs[n]) => crs'[n] = crs[n]]_vars

(***************************************************************************)
(* A rejection decides nothing for this reconciler, and yet it gives way   *)
(* to nothing but a denial while its name is not used again.  (A request   *)
(* that has come by the rejection of a predecessor, or has lost the        *)
(* AdcsRequest that was rejected, is submitted and marked Processing       *)
(* again.)                                                                 *)
(***************************************************************************)
RejectionsAreKept ==
    [][\A n \in Names : CrWorker /\ crs[n].ready = "Rejected" => crs'[n].ready \in {"Rejected", "Denied"}]_vars

(***************************************************************************)
(* An AdcsRequest without verdict is never forgotten: it is queued, or     *)
(* waits for a delay, or is being worked on, or the watch will queue it.   *)
(***************************************************************************)
UnfinishedIsWatched ==
    \A n \in Names : ars[n].live /\ ~Final(ars[n]) =>
        n \in arQueue \cup arTimer \/ arKey = n \/ arCache[n] # ars[n]

(***************************************************************************)
(* Likewise for an approved CertificateRequest that has no AdcsRequest.    *)
(***************************************************************************)
ApprovedIsWatched ==
    \A n \in Names : crs[n].approved /\ crs[n].ref # "foreign" /\ crs[n].ready = "None" /\ ~ars[n].live =>
        n \in crQueue \cup crTimer \/ crKey = n \/ crCache[n] # crs[n]

(***************************************************************************)
(* A request that the approver denied is never answered with a             *)
(* certificate, while the name is not used for another request.            *)
(***************************************************************************)
DeniedIsNotIssued ==
    \A n \in Names : crs[n].denied => crs[n].ready \notin {"Issued", "Rejected", "Failed"}

(***************************************************************************)
(* An answer in a CertificateRequest is what ADCS has decided about a      *)
(* submission that was made under its name: neither a failing exchange nor *)
(* a page without a disposition turns into one, and a certificate number   *)
(* is that of an issued submission.                                        *)
(***************************************************************************)
DispOf(ready) ==
    CASE ready = "Issued" -> "Issued" [] ready = "Rejected" -> "Denied" [] ready = "Failed" -> "Error"

AnswerIsFromAdcs ==
    \A n \in Names :
        /\ crs[n].ready \in {"Issued", "Rejected", "Failed"} =>
               \E k \in DOMAIN adcs : adcs[k].name = n /\ adcs[k].disp = DispOf(crs[n].ready)
        /\ crs[n].cert # 0 =>
               /\ crs[n].cert \in DOMAIN adcs
               /\ adcs[crs[n].cert].name = n /\ adcs[crs[n].cert].disp = "Issued"

(***************************************************************************)
(* Every approved request for an ADCS issuer is answered, unless it is     *)
(* deleted or its CSR is one that ADCS refuses whenever it is posted: such *)
(* a request is posted for ever, and holds up no other.                    *)
(* Every denied request is marked so.                                      *)
(***************************************************************************)
Answered(n) == crs[n].ready \in {"Issued", "Rejected", "Failed"} \/ ~crs[n].live
ApprovedIsAnswered ==
    \A n \in Names : (crs[n].approved /\ crs[n].ref = "adcs" /\ crs[n].csr \notin Refused) ~> Answered(n)
DeniedIsMarked ==
    \A n \in Names :
        (crs[n].denied /\ crs[n].ref # "foreign") ~> (crs[n].ready = "Denied" \/ ~crs[n].live)

(***************************************************************************)
(* With the approval check switched off every request for an ADCS issuer   *)
(* ends with an answer or marked Denied, in whatever order its submission, *)
(* its answer and its denial reach the two reconcilers.                    *)
(***************************************************************************)
EveryRequestIsSettled ==
    \A n \in Names :
        (crs[n].live /\ crs[n].ref = "adcs") ~> (Answered(n) \/ crs[n].ready = "Denied")
-----------------------------------------------------------------------------
(***************************************************************************)
(* What the comments and documents say and the code does not do.           *)
(***************************************************************************)
(* issuer.go:35, docs/OLD.md:144: a Ready request comes with its certificate. *)
IssuedHasCertificate == \A n \in Names : crs[n].ready = "Issued" => crs[n].cert # 0

(* adcsrequest_types.go:37: the id is in the AdcsRequest once ADCS has accepted it. *)
AcceptedIdRecorded ==
    arPc = "idle" => \A k \in DOMAIN adcs :
        LET ar == ars[adcs[k].name] IN ar.live /\ ar.uid = adcs[k].uid => ar.id # 0

(* adcsrequest_controller.go:77: the result goes to the original CertificateRequest. *)
IssuedForOwnRequest ==
    \A n \in Names : crs[n].cert # 0 => adcs[crs[n].cert].csr = crs[n].csr
=============================================================================
