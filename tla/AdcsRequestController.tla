------------------------ MODULE AdcsRequestController ------------------------
(***************************************************************************)
(* AdcsRequestReconciler (src/controllers/adcsrequest_controller.go) and   *)
(* Issuer.Issue (src/issuers/issuer.go): brings an AdcsRequest to ADCS,    *)
(* and the answer to the CertificateRequest of the same name.  One worker; *)
(* every call to the API server and every HTTP exchange is a step.  What   *)
(* Issue writes into the AdcsRequest stays in memory until the last call.  *)
(***************************************************************************)
EXTENDS KubeApi, AdcsServer

VARIABLES
    issuerReady,    \* the issuer and its Secret exist and are complete
    arPc,           \* the next call of the running Reconcile, or "idle"
    arKey,          \* the name it is about
    arObj,          \* the AdcsRequest it has read and changes in memory
    arId,           \* the ADCS request id it asks about, 0 when it does not
    arCert,         \* the submission whose certificate it has got, 0 for none
    arCr            \* the CertificateRequest it is about to change

arWork == <<arPc, arKey, arObj, arId, arCert, arCr>>

ArWorkTypeOK ==
    /\ arPc \in {"idle", "issuer", "submit", "fetch", "chain", "getCR", "setCR", "setAR"}
    /\ arKey \in Names \cup {NoName} /\ (arPc = "idle" <=> arKey = NoName)
    /\ arObj \in AdcsRequest /\ arId \in Int /\ arCert \in Nat /\ arCr \in CertificateRequest
    /\ issuerReady \in BOOLEAN

ArWorkInit ==
    arPc = "idle" /\ arKey = NoName /\ arObj = NoAr /\ arId = 0 /\ arCert = 0 /\ arCr = NoCr

ArDone ==
    arPc' = "idle" /\ arKey' = NoName /\ arObj' = NoAr /\ arId' = 0 /\ arCert' = 0 /\ arCr' = NoCr

(* Slip for the mutation runs: Reconcile tries again itself and does not return. *)
RetryInPlace == arPc' = "issuer" /\ UNCHANGED <<arKey, arObj, arId, arCert, arCr, arTimer>>

(* Again after RetryInterval, or after a back-off when Reconcile failed or panicked. *)
ArRetry == ArDone /\ arTimer' = arTimer \cup {arKey}

Final(ar) == ar.state \in {"Ready", "Errored", "Rejected"}

(***************************************************************************)
(* Reconcile up to GetIssuer: the AdcsRequest comes from the cache.        *)
(***************************************************************************)
ArTake(n) ==
    /\ arPc = "idle" /\ n \in arQueue
    /\ PromptWatch => arCache[n] = ars[n]
    /\ arQueue' = arQueue \ {n}
    /\ IF arCache[n].live
       THEN /\ arPc' = "issuer" /\ arKey' = n /\ arObj' = arCache[n]
            /\ UNCHANGED <<arId, arCert, arCr>>
       ELSE UNCHANGED arWork
    /\ UNCHANGED <<ars, arCache, arTimer, crVars, faults, adcs, issuerReady>>

(* Slips for the mutation runs: whatever is not final is submitted; only what is new is looked at. *)
IssueSubmits(ar) == IF Final(ar) THEN "getCR" ELSE "submit"
IssueOnce(ar) == IF ar.state = "Unknown" THEN "submit" ELSE "getCR"

(***************************************************************************)
(* The beginning of Issue: a new request is submitted, a pending one is    *)
(* asked for by its id, and a final one returns at once, with neither      *)
(* certificate nor chain.                                                  *)
(***************************************************************************)
IssueStart(ar) ==
    CASE ar.state = "Unknown"               -> "submit"
      [] ar.state = "Pending" /\ ar.id # 0  -> "fetch"
      [] ar.state = "Pending" /\ ar.id = 0  -> "retry"
      [] OTHER                              -> "getCR"

(* GetIssuer: a kind that it does not know, and a missing issuer, are errors. *)
ArGetIssuer ==
    /\ arPc = "issuer"
    /\ LET found == arObj.ref = "adcs" /\ issuerReady
           next  == IF found THEN IssueStart(arObj) ELSE "retry"
       IN  IF next = "retry"
           THEN ArRetry
           ELSE /\ arPc' = next
                /\ arId' = IF next = "fetch" THEN arObj.id ELSE 0
                /\ UNCHANGED <<arKey, arObj, arCert, arCr, arTimer>>
    /\ UNCHANGED <<ars, arCache, arQueue, crVars, faults, adcs, issuerReady>>

(* Issue stores the client's result in memory and goes on to the CA chain. *)
Issued(status, id, cert) ==
    /\ arPc' = "chain"
    /\ arObj' = [arObj EXCEPT !.state = status, !.id = id]
    /\ arCert' = cert
    /\ arId' = 0
    /\ UNCHANGED <<arKey, arCr, arTimer>>

(* RequestCertificate with the answer to its POST, which is about submission k. *)
Posted(post, k) ==
    \/ AnsweredAtOnce(post) /\ Issued("Ready", IdNone, k)
    \/ /\ CertId(post) # 0
       /\ arPc' = "fetch" /\ arId' = CertId(post)
       /\ UNCHANGED <<arKey, arObj, arCert, arCr, arTimer>>
    \/ ~AnsweredAtOnce(post) /\ CertId(post) = 0 /\ ArRetry

(* A POST fails before ADCS accepts it: not reached, or refused without an id. *)
SubmissionFails ==
    /\ \/ Fault
       \/ ~Accepts(arObj.csr) /\ UNCHANGED faults
    /\ ArRetry /\ UNCHANGED adcs

ArSubmit ==
    /\ arPc = "submit"
    /\ \/ SubmissionFails
       \/ \E disp \in Verdicts \cup {"Pending"} :
            /\ Submit(arKey, arObj, disp)
            /\ \/ /\ UNCHANGED faults
                  /\ \E post \in SubmissionAnswers(Len(adcs) + 1, disp) : Posted(post, Len(adcs) + 1)
               \/ Fault /\ \E post \in FaultReplies : Posted(post, Len(adcs) + 1)
    /\ UNCHANGED <<ars, arCache, arQueue, crVars, issuerReady>>

(* GetExistingCertificate, for a pending request or as the second half of a new one. *)
Fetched(reply) ==
    LET res == GetExistingCertificate(reply, arId) IN
    IF res.err = "none"
    THEN Issued(res.status, res.id, IF res.status = "Ready" THEN arId ELSE 0)
    ELSE ArRetry

ArFetch ==
    /\ arPc = "fetch"
    /\ \/ Fetched(DispositionPage(arId)) /\ UNCHANGED faults
       \/ Fault /\ \E reply \in FaultReplies : Fetched(reply)
    /\ UNCHANGED <<ars, arCache, arQueue, crVars, adcs, issuerReady>>

(* GetCaCertificateChain and parseCaCert, whatever the status was: a failure loses the result. *)
ArChain ==
    /\ arPc = "chain"
    /\ \/ arPc' = "getCR" /\ UNCHANGED <<arKey, arObj, arId, arCert, arCr, arTimer, faults>>
       \/ Fault /\ ArRetry
    /\ UNCHANGED <<ars, arCache, arQueue, crVars, adcs, issuerReady>>

(***************************************************************************)
(* GetCertificateRequest reads the cache by name.  Only a Pending result   *)
(* leaves the CertificateRequest alone.                                    *)
(***************************************************************************)
ArGetCr ==
    /\ arPc = "getCR"
    /\ IF GetCertificateRequest(arKey).live
       THEN /\ IF arObj.state = "Pending"
               THEN arPc' = "setAR" /\ UNCHANGED arCr
               ELSE arPc' = "setCR" /\ arCr' = GetCertificateRequest(arKey)
            /\ UNCHANGED <<arKey, arObj, arId, arCert, arTimer>>
       ELSE ArRetry
    /\ UNCHANGED <<ars, arCache, arQueue, crVars, faults, adcs, issuerReady>>

(* Slip for the mutation runs: the ADCS id in place of the certificate. *)
WithIdOutcome(cr, ar, cert) ==
    IF ar.state = "Ready" THEN [cr EXCEPT !.ready = "Issued", !.cert = ar.id]
    ELSE [cr EXCEPT !.ready = IF ar.state = "Rejected" THEN "Rejected" ELSE "Failed"]

(* The switch on the state: what is set in the CertificateRequest. *)
WithOutcome(cr, ar, cert) ==
    CASE ar.state = "Ready"    -> [cr EXCEPT !.ready = "Issued", !.cert = cert]
      [] ar.state = "Rejected" -> [cr EXCEPT !.ready = "Rejected"]
      [] ar.state = "Errored"  -> [cr EXCEPT !.ready = "Failed"]
      [] OTHER                 -> cr

CrSet ==
    /\ arPc' = "setAR" /\ arCert' = 0 /\ arCr' = NoCr
    /\ UNCHANGED <<arKey, arObj, arId, arTimer>>

(* Slip for the mutation runs: no return after the error of SetStatus. *)
NotSetGoesOn == CrSet
NotSet == ArRetry

ArSetCr ==
    /\ arPc = "setCR"
    /\ LET cr == WithOutcome(arCr, arObj, arCert) IN
       \/ UpdateCr(arKey, cr, "ok") /\ CrSet
       \/ UpdateCr(arKey, cr, "error") /\ NotSet
    /\ UNCHANGED <<crCache, crQueue, crTimer, ars, arCache, arQueue, adcs, issuerReady>>

(* The slip of forgetting the Requeue, and the end of Reconcile: a pending *)
(* request is looked at again after StatusCheckInterval.                   *)
Finished == ArDone /\ UNCHANGED arTimer
Saved == IF arObj.state = "Pending" THEN ArRetry ELSE Finished

ArSetAr ==
    /\ arPc = "setAR"
    /\ \/ UpdateAr(arKey, arObj, "ok") /\ Saved
       \/ UpdateAr(arKey, arObj, "error") /\ ArRetry
    /\ UNCHANGED <<arCache, arQueue, crVars, adcs, issuerReady>>

ArCalls == ArGetIssuer \/ ArSubmit \/ ArFetch \/ ArChain \/ ArGetCr \/ ArSetCr \/ ArSetAr
ArStep == ArCalls \/ \E n \in Names : ArTake(n)
=============================================================================
