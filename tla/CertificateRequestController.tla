--------------------- MODULE CertificateRequestController ---------------------
(***************************************************************************)
(* CertificateRequestReconciler                                            *)
(* (src/controllers/certificaterequest_controller.go): turns an approved   *)
(* CertificateRequest for an ADCS issuer into an AdcsRequest of the same   *)
(* name.  One worker; every call to the API server is a step of its own.   *)
(***************************************************************************)
EXTENDS KubeApi

CONSTANTS
    CheckApprovedCondition,     \* FALSE with -disable-approved-check
    MaxAdcsRequests             \* bound on AdcsRequests created under a name

ASSUME ControllerAssumption == CheckApprovedCondition \in BOOLEAN /\ MaxAdcsRequests \in Nat

VARIABLES
    crPc,       \* the next call of the running Reconcile, or "idle"
    crKey,      \* the name it is about
    crObj       \* the CertificateRequest it has read

crWork == <<crPc, crKey, crObj>>

CrWorkTypeOK ==
    /\ crPc \in {"idle", "deny", "lookup", "delete", "create", "pending"}
    /\ crKey \in Names \cup {NoName} /\ (crPc = "idle" <=> crKey = NoName)
    /\ crObj \in CertificateRequest

CrWorkInit == crPc = "idle" /\ crKey = NoName /\ crObj = NoCr
CrDone == crPc' = "idle" /\ crKey' = NoName /\ crObj' = NoCr
CrGoto(pc) == crPc' = pc /\ UNCHANGED <<crKey, crObj>>

(* Slip for the mutation runs: the error is logged and not returned. *)
CrFailQuietly == CrDone /\ UNCHANGED crTimer

(* Reconcile returns an error: the name is queued again after a back-off. *)
CrFail == CrDone /\ crTimer' = crTimer \cup {crKey}

(* The request has a verdict in its Ready condition: Issued, Failed or Denied. *)
Decided(cr) == cr.ready \in {"Issued", "Failed", "Denied"}

(* Slip for the mutation runs: the approval is not looked at. *)
IgnoredWithoutApproval(cr) ==
    ~cr.live \/ cr.ref = "foreign" \/ Decided(cr) \/ (~cr.denied /\ cr.cert # 0)

(***************************************************************************)
(* The early returns of Reconcile: gone, another issuer's, decided, not    *)
(* approved, or with a certificate.  A denied request is not ignored.      *)
(***************************************************************************)
Ignored(cr) ==
    \/ ~cr.live
    \/ cr.ref = "foreign"
    \/ Decided(cr)
    \/ ~cr.denied /\ CheckApprovedCondition /\ ~cr.approved
    \/ ~cr.denied /\ cr.cert # 0

CrTake(n) ==
    /\ crPc = "idle" /\ n \in crQueue
    /\ crQueue' = crQueue \ {n}
    /\ IF Ignored(GetCertificateRequest(n))
       THEN UNCHANGED crWork
       ELSE /\ crObj' = GetCertificateRequest(n)
            /\ crPc' = IF crObj'.denied THEN "deny" ELSE "lookup"
            /\ crKey' = n
    /\ UNCHANGED <<crs, crCache, crTimer, arVars, faults>>

(* SetStatus of the snapshot, which ends this Reconcile. *)
CrSetStatus(ready) ==
    /\ \/ UpdateCr(crKey, [crObj EXCEPT !.ready = ready], "ok") /\ CrDone /\ UNCHANGED crTimer
       \/ UpdateCr(crKey, [crObj EXCEPT !.ready = ready], "error") /\ CrFail
    /\ UNCHANGED <<crCache, crQueue, arVars>>

CrDeny == crPc = "deny" /\ CrSetStatus("Denied")

RequestDiffers(ar, cr) == ar.csr # cr.csr

(* The AdcsRequest of that name, as the cache has it. *)
CrLookup ==
    /\ crPc = "lookup"
    /\ LET ar == arCache[crKey] IN
       \/ ar.live /\ ~RequestDiffers(ar, crObj) /\ CrDone
       \/ ar.live /\ RequestDiffers(ar, crObj) /\ CrGoto("delete")
       \/ ~ar.live /\ CrGoto("create")
    /\ UNCHANGED kubeVars

(* Slip for the mutation runs: Reconcile ends after the deletion, as if its event came back here. *)
CrDeleteAndWait ==
    /\ crPc = "delete" /\ CrDone
    /\ ars' = [ars EXCEPT ![crKey] = IF @.live THEN DeletedAr(@) ELSE @]
    /\ UNCHANGED <<crVars, arCache, arQueue, arTimer, faults>>

(* Deletion by name, whatever object has the name by now; an error is only logged. *)
CrDelete ==
    /\ crPc = "delete" /\ CrGoto("create")
    /\ \/ /\ ars[crKey].live
          /\ ars' = [ars EXCEPT ![crKey] = DeletedAr(ars[crKey])]
          /\ UNCHANGED faults
       \/ ~ars[crKey].live /\ UNCHANGED <<ars, faults>>
       \/ Fault /\ UNCHANGED ars
    /\ UNCHANGED <<crVars, arCache, arQueue, arTimer>>

(* Slip for the mutation runs: the owner is looked up again by its name. *)
CreatedForName(n, cr) == [ars EXCEPT ![n] = NewAr(ars[n], [cr EXCEPT !.uid = crs[n].uid])]

(* createAdcsRequest: the new object has the CSR, the issuer and the owner of the snapshot. *)
Created(n, cr) == [ars EXCEPT ![n] = NewAr(ars[n], cr)]

(* The name is free, and the bound on objects is not reached. *)
CanCreate(n) == ~ars[n].live /\ ars[n].uid < MaxAdcsRequests

CrCreate ==
    /\ crPc = "create"
    /\ \/ /\ CanCreate(crKey)
          /\ ars' = Created(crKey, crObj)
          /\ CrGoto("pending")
          /\ UNCHANGED <<crTimer, faults>>
       \/ ~CanCreate(crKey) /\ CrFail /\ UNCHANGED <<ars, faults>>
       \/ CanCreate(crKey) /\ CrFail /\ Fault /\ ars' \in {ars, Created(crKey, crObj)}
    /\ UNCHANGED <<crs, crCache, crQueue, arCache, arQueue, arTimer>>

CrSetPending == crPc = "pending" /\ CrSetStatus("Processing")

CrCalls == CrDeny \/ CrLookup \/ CrDelete \/ CrCreate \/ CrSetPending
CrStep == CrCalls \/ \E n \in Names : CrTake(n)
=============================================================================
