------------------------- MODULE AdcsOperatorCopies -------------------------
(***************************************************************************)
(* Why optimistic updates are enough: every copy that is kept anywhere has *)
(* been the stored object, and whatever changes a stored object counts its *)
(* version up, also when the name is deleted and created again. So no      *)
(* reconciler takes back an answer.  What is kept of a request that is     *)
(* gone descends from it and from no later one: who may create, delete,    *)
(* decide about and write the two objects, step by step.                   *)
(***************************************************************************)
EXTENDS AdcsOperatorProofs

(* How a step may change a stored object. *)
Counted(old, new) == new = old \/ new.rev = old.rev + 1

CrsCounted == \A n \in Names : Counted(crs[n], crs'[n])
ArsCounted == \A n \in Names : Counted(ars[n], ars'[n])

LEMMA HonestStays ==
    ASSUME NEW copy, NEW old, NEW new, copy.rev \in Nat, old.rev \in Nat,
           Honest(copy, old), Counted(old, new)
    PROVE  Honest(copy, new)
BY DEF Honest, Counted

LEMMA SpecCounted ==
    ASSUME NEW old, NEW new, Counted(old, new)
    PROVE  Counted(SpecOf(old), SpecOf(new))
BY DEF Counted, SpecOf

(* What replaces a stored object has the next version. *)
LEMMA NewVersions ==
    /\ \A old \in CertificateRequest : \A csr, ref : NewCr(old, csr, ref).rev = old.rev + 1
    /\ \A old \in CertificateRequest : DeletedCr(old).rev = old.rev + 1
    /\ \A old, obj \in CertificateRequest : Counted(old, WrittenCr(old, obj))
    /\ \A old \in AdcsRequest : \A cr : NewAr(old, cr).rev = old.rev + 1
    /\ \A old \in AdcsRequest : DeletedAr(old).rev = old.rev + 1
    /\ \A old, obj \in AdcsRequest : Counted(old, WrittenAr(old, obj))
<1>1. /\ \A old \in CertificateRequest : \A csr, ref : NewCr(old, csr, ref).rev = old.rev + 1
      /\ \A old \in AdcsRequest : \A cr : NewAr(old, cr).rev = old.rev + 1
  BY DEF NewCr, NewAr
<1>2. /\ \A old \in CertificateRequest : DeletedCr(old).rev = old.rev + 1
      /\ \A old \in AdcsRequest : DeletedAr(old).rev = old.rev + 1
  BY DEF DeletedCr, DeletedAr, NoCr, NoAr
<1>3. \A old, obj \in CertificateRequest : Counted(old, WrittenCr(old, obj))
  BY DEF Counted, WrittenCr, Written, CertificateRequest
<1>4. \A old, obj \in AdcsRequest : Counted(old, WrittenAr(old, obj))
  BY DEF Counted, WrittenAr, Written, AdcsRequest
<1>5. QED
  BY <1>1, <1>2, <1>3, <1>4

LEMMA UpdateCounts ==
    ASSUME KubeTypeOK, NEW n \in Names, NEW reply
    PROVE  /\ \A obj \in CertificateRequest : UpdateCr(n, obj, reply) => CrsCounted
           /\ \A obj \in AdcsRequest : UpdateAr(n, obj, reply) => ArsCounted
<1>1. ASSUME NEW obj \in CertificateRequest, UpdateCr(n, obj, reply) PROVE CrsCounted
  <2>1. Counted(crs[n], WrittenCr(crs[n], obj))
    BY NewVersions DEF KubeTypeOK
  <2>2. crs' \in {crs, [crs EXCEPT ![n] = WrittenCr(crs[n], obj)]}
    BY <1>1 DEF UpdateCr
  <2>3. QED
    BY <2>1, <2>2 DEF CrsCounted, Counted, KubeTypeOK
<1>2. ASSUME NEW obj \in AdcsRequest, UpdateAr(n, obj, reply) PROVE ArsCounted
  <2>1. Counted(ars[n], WrittenAr(ars[n], obj))
    BY NewVersions DEF KubeTypeOK
  <2>2. ars' \in {ars, [ars EXCEPT ![n] = WrittenAr(ars[n], obj)]}
    BY <1>2 DEF UpdateAr
  <2>3. QED
    BY <2>1, <2>2 DEF ArsCounted, Counted, KubeTypeOK
<1>3. QED
  BY <1>1, <1>2

LEMMA UserCounts ==
    ASSUME TypeInv, User
    PROVE  CrsCounted /\ UNCHANGED <<ars, crCache, arCache, crWork, arWork>>
<1> USE DEF TypeInv, TypeOK
<1>1. ASSUME NEW n \in Names, NEW cr, StoreCr(n, cr), cr.rev = crs[n].rev + 1
      PROVE  CrsCounted /\ UNCHANGED <<ars, crCache, arCache, crWork, arWork>>
  BY <1>1 DEF StoreCr, CrsCounted, Counted, KubeTypeOK
<1>2. ASSUME NEW n \in Names, CreateRequest(n) \/ Approve(n) \/ Deny(n) \/ DeleteRequest(n)
      PROVE  \E cr : StoreCr(n, cr) /\ cr.rev = crs[n].rev + 1
  <2>1. crs[n] \in CertificateRequest
    BY DEF KubeTypeOK
  <2>2. CASE CreateRequest(n)
    BY <2>1, <2>2, NewVersions DEF CreateRequest
  <2>3. CASE Approve(n)
    <3> DEFINE cr == [crs[n] EXCEPT !.approved = TRUE, !.rev = @ + 1]
    <3>1. StoreCr(n, cr)
      BY <2>3 DEF Approve
    <3>2. cr.rev = crs[n].rev + 1
      BY <2>1 DEF CertificateRequest
    <3>3. QED
      BY <3>1, <3>2
  <2>4. CASE Deny(n)
    <3> DEFINE cr == [crs[n] EXCEPT !.denied = TRUE, !.rev = @ + 1]
    <3>1. StoreCr(n, cr)
      BY <2>4 DEF Deny
    <3>2. cr.rev = crs[n].rev + 1
      BY <2>1 DEF CertificateRequest
    <3>3. QED
      BY <3>1, <3>2
  <2>5. CASE DeleteRequest(n)
    BY <2>1, <2>5, NewVersions DEF DeleteRequest
  <2>6. QED
    BY <1>2, <2>2, <2>3, <2>4, <2>5
<1>3. CASE ConfigureIssuer \/ BreakIssuer
  BY <1>3 DEF ConfigureIssuer, BreakIssuer, kubeVars, CrsCounted, Counted
<1>4. QED
  BY <1>1, <1>2, <1>3 DEF User

LEMMA ClusterCounts ==
    ASSUME TypeInv, Cluster
    PROVE  /\ CrsCounted /\ ArsCounted /\ UNCHANGED <<crWork, arWork>>
           /\ \A n \in Names : arCache'[n] \in {arCache[n], ars'[n]} /\ crCache'[n] \in {crCache[n], crs'[n]}
<1> USE DEF TypeInv, TypeOK, crVars, arVars, storeVars, CrsCounted, ArsCounted, Counted
<1>1. UNCHANGED <<crWork, arWork>>
  BY DEF Cluster, Others
<1>2. CASE \E n \in Names : SyncCr(n)
  BY <1>1, <1>2 DEF SyncCr, KubeTypeOK
<1>3. CASE \E n \in Names : SyncAr(n)
  BY <1>1, <1>3 DEF SyncAr, KubeTypeOK
<1>4. CASE Resync \/ \E n \in Names : CrTimerFires(n) \/ ArTimerFires(n)
  BY <1>1, <1>4 DEF CrTimerFires, ArTimerFires, Resync
<1>5. ASSUME NEW n \in Names, GarbageCollect(n)
      PROVE  /\ UNCHANGED <<crs, crCache, arCache>>
             /\ \A m \in Names : Counted(ars[m], ars'[m])
  <2>1. DeletedAr(ars[n]).rev = ars[n].rev + 1
    BY NewVersions DEF KubeTypeOK
  <2>2. QED
    BY <1>5, <2>1 DEF GarbageCollect, KubeTypeOK
<1>6. QED
  BY <1>1, <1>2, <1>3, <1>4, <1>5 DEF Cluster

LEMMA CrWorkerCounts ==
    ASSUME TypeInv, CrWorker
    PROVE  /\ CrsCounted /\ ArsCounted /\ UNCHANGED <<crCache, arCache, arWork>>
           /\ \/ crKey' = NoName
              \/ UNCHANGED <<crKey, crObj>>
              \/ crKey' \in Names /\ crObj' = crCache[crKey'] /\ crObj'.live /\ crs' = crs
<1> USE DEF TypeInv, TypeOK, crVars, arVars, CrWorker
<1> DEFINE Kept == UNCHANGED <<crCache, arCache, arWork>> /\ (crKey' = NoName \/ UNCHANGED <<crKey, crObj>>)
<1>1. ASSUME NEW ready \in ReadyReason, CrSetStatus(ready), crPc # "idle"
      PROVE  CrsCounted /\ ArsCounted /\ Kept
  <2>1. [crObj EXCEPT !.ready = ready] \in CertificateRequest
    BY CrField DEF CrWorkTypeOK
  <2>2. crKey \in Names /\ \E reply : UpdateCr(crKey, [crObj EXCEPT !.ready = ready], reply)
    BY <1>1 DEF CrSetStatus, CrWorkTypeOK
  <2>3. CrsCounted
    BY <2>1, <2>2, UpdateCounts
  <2>4. QED
    BY <1>1, <2>3 DEF CrSetStatus, CrFail, CrDone, ArsCounted, Counted
<1>2. CASE CrDeny \/ CrSetPending
  BY <1>1, <1>2 DEF CrDeny, CrSetPending, ReadyReason
<1>3. CASE CrLookup
  BY <1>3 DEF CrLookup, CrDone, CrGoto, kubeVars, CrsCounted, ArsCounted, Counted
<1>4. CASE CrDelete \/ CrCreate
  <2>1. crKey \in Names /\ ars[crKey] \in AdcsRequest
    BY <1>4 DEF CrDelete, CrCreate, CrWorkTypeOK, KubeTypeOK
  <2>2. ars' \in {ars, [ars EXCEPT ![crKey] = DeletedAr(ars[crKey])],
                       [ars EXCEPT ![crKey] = NewAr(ars[crKey], crObj)]}
    BY <1>4 DEF CrDelete, CrCreate, Created
  <2>3. ArsCounted
    BY <2>1, <2>2, NewVersions DEF ArsCounted, Counted, KubeTypeOK
  <2>4. QED
    BY <1>4, <2>3 DEF CrDelete, CrCreate, CrGoto, CrFail, CrDone, CrsCounted, Counted
<1>5. CASE \E n \in Names : CrTake(n)
  BY <1>5 DEF CrTake, GetCertificateRequest, Ignored, crWork, CrsCounted, ArsCounted, Counted
<1>6. QED
  BY <1>2, <1>3, <1>4, <1>5 DEF CrStep, CrCalls

(* Issue changes the status in memory, and nothing that an update is checked against. *)
LEMMA ArWorkerCounts ==
    ASSUME TypeInv, ArWorker
    PROVE  /\ CrsCounted /\ ArsCounted /\ UNCHANGED <<crCache, arCache, crWork>>
           /\ \/ arKey' = NoName
              \/ arKey' = arKey /\ SpecOf(arObj') = SpecOf(arObj)
              \/ arKey' \in Names /\ arObj' = arCache[arKey'] /\ arObj'.live /\ ars' = ars
           /\ arPc' = "setCR" => \/ UNCHANGED <<arPc, arKey, arCr>>
                                 \/ arCr' = crCache[arKey] /\ arKey' = arKey /\ crs' = crs
<1> USE DEF TypeInv, TypeOK, crVars, arVars, ArWorker
<1> DEFINE Goal == /\ CrsCounted /\ ArsCounted /\ UNCHANGED <<crCache, arCache, crWork>>
                   /\ arKey' = NoName \/ (arKey' = arKey /\ SpecOf(arObj') = SpecOf(arObj))
                   /\ arPc' # "setCR"
<1>1. arObj \in AdcsRequest
  BY DEF ArWorkTypeOK
<1>2. ASSUME NEW status, NEW id, NEW cert, Issued(status, id, cert)
      PROVE  arKey' = arKey /\ SpecOf(arObj') = SpecOf(arObj) /\ arPc' = "chain"
  BY <1>1, <1>2 DEF Issued, SpecOf, AdcsRequest
<1>3. ASSUME ArRetry \/ ArDone
      PROVE  arKey' = NoName /\ arPc' = "idle"
  BY <1>3 DEF ArRetry, ArDone
<1>4. ASSUME UNCHANGED <<crs, ars>> PROVE CrsCounted /\ ArsCounted
  BY <1>4 DEF CrsCounted, ArsCounted, Counted
<1>5. CASE \E n \in Names : ArTake(n)
  BY <1>4, <1>5 DEF ArTake, arWork
<1>6. CASE ArGetIssuer
  <2>1. ArRetry \/ (arPc' \in {"submit", "fetch", "getCR"} /\ UNCHANGED <<arKey, arObj>>)
    BY <1>6 DEF ArGetIssuer, IssueStart
  <2>2. QED
    BY <1>3, <1>4, <1>6, <2>1 DEF ArGetIssuer
<1>7. CASE ArSubmit
  <2>1. \/ ArRetry
        \/ \E status, id, cert : Issued(status, id, cert)
        \/ arPc' = "fetch" /\ UNCHANGED <<arKey, arObj>>
    BY <1>7 DEF ArSubmit, SubmissionFails, Posted
  <2>2. QED
    BY <1>2, <1>3, <1>4, <1>7, <2>1 DEF ArSubmit
<1>8. CASE ArFetch
  <2>1. ArRetry \/ \E status, id, cert : Issued(status, id, cert)
    BY <1>8 DEF ArFetch, Fetched
  <2>2. QED
    BY <1>2, <1>3, <1>4, <1>8, <2>1 DEF ArFetch
<1>9. CASE ArChain
  BY <1>3, <1>4, <1>9 DEF ArChain
<1>10. CASE ArGetCr
  BY <1>3, <1>4, <1>10 DEF ArGetCr, GetCertificateRequest
<1>11. CASE ArSetCr
  <2> DEFINE cr == WithOutcome(arCr, arObj, arCert)
  <2>1. arKey \in Names /\ cr \in CertificateRequest
    BY <1>11, OutcomeType DEF ArSetCr, ArWorkTypeOK
  <2>2. PICK reply : UpdateCr(arKey, cr, reply)
    BY <1>11 DEF ArSetCr
  <2>3. CrsCounted /\ ArsCounted
    BY <1>11, <2>1, <2>2, UpdateCounts DEF ArSetCr, ArsCounted, Counted
  <2>4. ArRetry \/ (arPc' = "setAR" /\ UNCHANGED <<arKey, arObj>>)
    BY <1>11 DEF ArSetCr, NotSet, CrSet
  <2>5. QED
    BY <1>3, <1>11, <2>3, <2>4 DEF ArSetCr
<1>12. CASE ArSetAr
  <2>1. arKey \in Names
    BY <1>12 DEF ArSetAr, ArWorkTypeOK
  <2>2. CrsCounted /\ ArsCounted
    BY <1>1, <1>12, <2>1, UpdateCounts DEF ArSetAr, CrsCounted, Counted
  <2>3. ArDone
    BY <1>12 DEF ArSetAr, Saved, Finished, ArRetry
  <2>4. QED
    BY <1>3, <1>12, <2>2, <2>3 DEF ArSetAr
<1>13. QED
  BY <1>5, <1>6, <1>7, <1>8, <1>9, <1>10, <1>11, <1>12 DEF ArStep, ArCalls

(* The versions are numbers, so a counted one is a later one. *)
LEMMA Versions ==
    ASSUME TypeInv
    PROVE  /\ \A n \in Names : /\ crs[n].rev \in Nat /\ crCache[n].rev \in Nat
                              /\ ars[n].rev \in Nat /\ arCache[n].rev \in Nat
           /\ crObj.rev \in Nat /\ arObj.rev \in Nat /\ arCr.rev \in Nat
           /\ arKey # NoName => arKey \in Names
           /\ crKey # NoName => crKey \in Names
           /\ arPc = "setCR" => arKey # NoName
BY DEF TypeInv, TypeOK, KubeTypeOK, CrWorkTypeOK, ArWorkTypeOK, CertificateRequest, AdcsRequest

(* Honest copies of a counted store stay honest, the caches with them. *)
LEMMA CachesStay ==
    ASSUME TypeInv, CopiesAreHonest, CrsCounted, ArsCounted,
           \A n \in Names : arCache'[n] \in {arCache[n], ars'[n]} /\ crCache'[n] \in {crCache[n], crs'[n]}
    PROVE  \A n \in Names : Honest(arCache'[n], ars'[n]) /\ Honest(crCache'[n], crs'[n])
<1> SUFFICES ASSUME NEW n \in Names
             PROVE  Honest(arCache'[n], ars'[n]) /\ Honest(crCache'[n], crs'[n])
  OBVIOUS
<1>1. Honest(arCache[n], ars'[n]) /\ Honest(crCache[n], crs'[n])
  BY Versions, HonestStays DEF CopiesAreHonest, CrsCounted, ArsCounted
<1>2. Honest(arCache'[n], ars'[n])
  BY <1>1, Versions DEF Honest, ArsCounted, Counted
<1>3. Honest(crCache'[n], crs'[n])
  BY <1>1, Versions DEF Honest, CrsCounted, Counted
<1>4. QED
  BY <1>2, <1>3

(* So do the copies of a worker that does not move. *)
LEMMA WorkStays ==
    ASSUME TypeInv, CopiesAreHonest, CrsCounted, ArsCounted
    PROVE  /\ arKey # NoName => Honest(SpecOf(arObj), SpecOf(ars'[arKey]))
           /\ arPc = "setCR" => Honest(arCr, crs'[arKey])
           /\ crKey # NoName => Honest(crObj, crs'[crKey])
<1>1. ASSUME arKey # NoName PROVE Honest(SpecOf(arObj), SpecOf(ars'[arKey]))
  <2>1. arKey \in Names /\ Honest(SpecOf(arObj), SpecOf(ars[arKey]))
    BY <1>1, Versions DEF CopiesAreHonest
  <2>2. Counted(SpecOf(ars[arKey]), SpecOf(ars'[arKey]))
    BY <2>1, SpecCounted DEF ArsCounted
  <2>3. SpecOf(arObj).rev \in Nat /\ SpecOf(ars[arKey]).rev \in Nat
    BY <2>1, Versions DEF SpecOf
  <2>4. QED
    BY <2>1, <2>2, <2>3, HonestStays
<1>2. ASSUME arPc = "setCR" PROVE Honest(arCr, crs'[arKey])
  BY <1>2, Versions, HonestStays DEF CopiesAreHonest, CrsCounted
<1>3. ASSUME crKey # NoName PROVE Honest(crObj, crs'[crKey])
  BY <1>3, Versions, HonestStays DEF CopiesAreHonest, CrsCounted
<1>4. QED
  BY <1>1, <1>2, <1>3

LEMMA HonestSpec ==
    ASSUME NEW copy, NEW stored, Honest(copy, stored)
    PROVE  Honest(SpecOf(copy), SpecOf(stored))
BY DEF Honest, SpecOf

LEMMA CopiesNext == TypeInv /\ CopiesAreHonest /\ [Next]_vars => CopiesAreHonest'
<1> SUFFICES ASSUME TypeInv, CopiesAreHonest, [Next]_vars PROVE CopiesAreHonest'
  OBVIOUS
<1>1. ASSUME CrsCounted, ArsCounted, UNCHANGED <<crWork, arWork>>,
             \A n \in Names : arCache'[n] \in {arCache[n], ars'[n]} /\ crCache'[n] \in {crCache[n], crs'[n]}
      PROVE  CopiesAreHonest'
  BY <1>1, CachesStay, WorkStays DEF CopiesAreHonest, crWork, arWork
<1>2. CASE User
  BY <1>1, <1>2, UserCounts DEF ArsCounted, Counted
<1>3. CASE Cluster
  BY <1>1, <1>3, ClusterCounts
<1>4. CASE \E id \in DOMAIN adcs : AdcsDecides(id)
  BY <1>1, <1>4 DEF AdcsDecides, kubeVars, CrsCounted, ArsCounted, Counted
<1>5. CASE UNCHANGED vars
  BY <1>1, <1>5 DEF vars, kubeVars, CrsCounted, ArsCounted, Counted
<1>6. CASE CrWorker
  <2>1. \A n \in Names : Honest(arCache'[n], ars'[n]) /\ Honest(crCache'[n], crs'[n])
    BY <1>6, CrWorkerCounts, CachesStay
  <2>2. /\ (arKey # NoName)' => Honest(SpecOf(arObj), SpecOf(ars[arKey]))'
        /\ (arPc = "setCR")' => Honest(arCr, crs[arKey])'
    BY <1>6, CrWorkerCounts, WorkStays DEF arWork
  <2>3. (crKey # NoName)' => Honest(crObj, crs[crKey])'
    BY <1>6, CrWorkerCounts, WorkStays DEF CopiesAreHonest
  <2>4. QED
    BY <2>1, <2>2, <2>3 DEF CopiesAreHonest
<1>7. CASE ArWorker
  <2>1. \A n \in Names : Honest(arCache'[n], ars'[n]) /\ Honest(crCache'[n], crs'[n])
    BY <1>7, ArWorkerCounts, CachesStay
  <2>2. ASSUME arKey' # NoName PROVE Honest(SpecOf(arObj'), SpecOf(ars'[arKey']))
    <3>1. CASE arKey' = arKey /\ SpecOf(arObj') = SpecOf(arObj)
      BY <1>7, <2>2, <3>1, ArWorkerCounts, WorkStays
    <3>2. CASE arKey' \in Names /\ arObj' = arCache[arKey'] /\ ars' = ars
      BY <3>2, HonestSpec DEF CopiesAreHonest
    <3>3. QED
      BY <1>7, <2>2, <3>1, <3>2, ArWorkerCounts
  <2>3. ASSUME arPc' = "setCR" PROVE Honest(arCr', crs'[arKey'])
    <3>1. CASE UNCHANGED <<arPc, arKey, arCr>>
      BY <1>7, <2>3, <3>1, ArWorkerCounts, WorkStays
    <3>2. CASE arCr' = crCache[arKey] /\ arKey' = arKey /\ crs' = crs
      <4>1. TypeInv'
        BY <1>7, TypeArWorker
      <4>2. arKey \in Names
        BY <2>3, <3>2, <4>1 DEF TypeInv, TypeOK, ArWorkTypeOK
      <4>3. QED
        BY <3>2, <4>2 DEF CopiesAreHonest
    <3>3. QED
      BY <1>7, <2>3, <3>1, <3>2, ArWorkerCounts
  <2>4. (crKey # NoName)' => Honest(crObj, crs[crKey])'
    BY <1>7, ArWorkerCounts, WorkStays DEF crWork
  <2>5. QED
    BY <2>1, <2>2, <2>3, <2>4 DEF CopiesAreHonest
<1>8. CASE Restart
  <2>1. \A n \in Names : Honest(arCache'[n], ars'[n]) /\ Honest(crCache'[n], crs'[n])
    BY <1>8, Versions DEF Restart, storeVars, Honest
  <2>2. QED
    BY <1>8, <2>1 DEF Restart, ArDone, CopiesAreHonest
<1>9. QED
  BY <1>2, <1>3, <1>4, <1>5, <1>6, <1>7, <1>8 DEF Next

(***************************************************************************)
(* No copy is ahead of the store, and one with the version of the stored   *)
(* object has its contents, in every reachable state.                      *)
(***************************************************************************)
THEOREM Copies == Spec => []CopiesAreHonest
<1>1. Init => CopiesAreHonest
  <2> SUFFICES ASSUME Init PROVE CopiesAreHonest
    OBVIOUS
  <2>1. \A n \in Names : Honest(arCache[n], ars[n]) /\ Honest(crCache[n], crs[n])
    BY DEF Init, KubeInit, Honest, NoAr, NoCr
  <2>2. QED
    BY <2>1 DEF Init, CrWorkInit, ArWorkInit, CopiesAreHonest
<1>2. TypeInv /\ CopiesAreHonest /\ [Next]_vars => CopiesAreHonest'
  BY CopiesNext
<1>3. Spec => []TypeInv
  BY TypesAndIds, PTL DEF TypeInv
<1>4. QED
  BY <1>1, <1>2, <1>3, PTL DEF Spec
-----------------------------------------------------------------------------
(* What the CertificateRequest worker holds had no answer when it was read. *)
UndecidedInv == crPc # "idle" => ~Decided(crObj)

LEMMA UndecidedNext == TypeInv /\ UndecidedInv /\ [Next]_vars => UndecidedInv'
<1> SUFFICES ASSUME TypeInv, UndecidedInv, [Next]_vars PROVE UndecidedInv'
  OBVIOUS
<1>1. CASE CrWorker
  <2>1. CASE \E n \in Names : CrTake(n)
    BY <2>1 DEF CrTake, Ignored, UndecidedInv, crWork
  <2>2. CASE CrCalls
    <3>1. crPc # "idle" /\ (crPc' = "idle" \/ crObj' = crObj)
      BY <2>2 DEF CrCalls, CrDeny, CrSetPending, CrSetStatus, CrLookup, CrDelete, CrCreate,
         CrFail, CrDone, CrGoto
    <3>2. QED
      BY <3>1 DEF UndecidedInv
  <2>3. QED
    BY <1>1, <2>1, <2>2 DEF CrWorker, CrStep
<1>2. CASE User \/ Cluster \/ ArWorker
  BY <1>2, UserCounts, ClusterCounts, ArWorkerCounts DEF UndecidedInv, crWork
<1>3. CASE Restart
  BY <1>3 DEF Restart, UndecidedInv
<1>4. CASE (\E id \in DOMAIN adcs : AdcsDecides(id)) \/ UNCHANGED vars
  BY <1>4 DEF AdcsDecides, vars, kubeVars, crVars, crWork, UndecidedInv
<1>5. QED
  BY <1>1, <1>2, <1>3, <1>4 DEF Next

(* The only write of this worker is refused when there is an answer. *)
LEMMA AnswerStays ==
    ASSUME TypeInv, CopiesAreHonest, UndecidedInv, CrWorker, NEW n \in Names, Decided(crs[n])
    PROVE  crs'[n] = crs[n]
<1>1. ASSUME NEW ready \in ReadyReason, CrSetStatus(ready), crPc # "idle" PROVE crs'[n] = crs[n]
  <2>1. crKey \in Names /\ crKey # NoName /\ crObj \in CertificateRequest /\ ~Decided(crObj)
    BY <1>1 DEF TypeInv, TypeOK, CrWorkTypeOK, UndecidedInv
  <2>2. [crObj EXCEPT !.ready = ready].rev = crObj.rev
    BY <2>1 DEF CertificateRequest
  <2>3. CASE Current(crs[crKey], [crObj EXCEPT !.ready = ready])
    <3>1. crs[crKey] = crObj
      BY <2>1, <2>2, <2>3 DEF Current, CopiesAreHonest, Honest
    <3>2. n # crKey
      BY <2>1, <3>1
    <3>3. QED
      BY <1>1, <2>1, <3>2 DEF CrSetStatus, UpdateCr, TypeInv, TypeOK, KubeTypeOK
  <2>4. CASE ~Current(crs[crKey], [crObj EXCEPT !.ready = ready])
    BY <1>1, <2>4 DEF CrSetStatus, UpdateCr
  <2>5. QED
    BY <2>3, <2>4
<1>2. CASE CrDeny \/ CrSetPending
  BY <1>1, <1>2 DEF CrDeny, CrSetPending, ReadyReason
<1>3. CASE CrLookup \/ CrDelete \/ CrCreate \/ \E m \in Names : CrTake(m)
  BY <1>3 DEF CrLookup, CrDelete, CrCreate, CrTake, kubeVars, crVars
<1>4. QED
  BY <1>2, <1>3 DEF CrWorker, CrStep, CrCalls

(***************************************************************************)
(* The CertificateRequest reconciler never takes back an answer, whatever  *)
(* it has read before, for any number of names and faults.                 *)
(***************************************************************************)
THEOREM AnswersStay == Spec => AnswersAreKept
<1>1. Init => UndecidedInv
  BY DEF Init, CrWorkInit, UndecidedInv
<1>2. TypeInv /\ CopiesAreHonest /\ UndecidedInv =>
        [\A n \in Names : CrWorker /\ Decided(crs[n]) => crs'[n] = crs[n]]_vars
  BY AnswerStays
<1>3. Spec => []TypeInv
  BY TypesAndIds, PTL DEF TypeInv
<1>4. QED
  BY <1>1, <1>2, <1>3, Copies, UndecidedNext, PTL DEF Spec, AnswersAreKept
-----------------------------------------------------------------------------
(* The spec of a CertificateRequest and its decision. *)
SameRequest(old, new) ==
    /\ new.live = old.live /\ new.uid = old.uid /\ new.csr = old.csr /\ new.ref = old.ref
    /\ new.approved = old.approved /\ new.denied = old.denied

LEMMA UpdateSame ==
    ASSUME TypeInv, NEW m \in Names, NEW obj \in CertificateRequest, NEW reply, UpdateCr(m, obj, reply)
    PROVE  \A n \in Names : SameRequest(crs[n], crs'[n])
<1> DEFINE w == WrittenCr(crs[m], obj)
<1>1. crs \in [Names -> CertificateRequest]
  BY DEF TypeInv, TypeOK, KubeTypeOK
<1>2. SameRequest(crs[m], w)
  BY <1>1 DEF WrittenCr, Written, CertificateRequest, SameRequest
<1>3. crs' \in {crs, [crs EXCEPT ![m] = w]}
  BY DEF UpdateCr
<1> HIDE DEF w
<1>4. QED
  BY <1>1, <1>2, <1>3 DEF SameRequest

(* Nobody but the users of the API creates, deletes or decides about CertificateRequests. *)
LEMMA OnlyUsersDecide ==
    ASSUME TypeInv, [Next]_vars, ~User
    PROVE  approvals' = approvals /\ \A n \in Names : SameRequest(crs[n], crs'[n])
<1> USE DEF SameRequest
<1>1. CASE CrWorker
  <2>1. CASE CrDeny \/ CrSetPending
    <3>1. crKey \in Names /\ crObj \in CertificateRequest
      BY <2>1 DEF CrDeny, CrSetPending, TypeInv, TypeOK, CrWorkTypeOK
    <3>2. PICK ready \in ReadyReason : CrSetStatus(ready)
      BY <2>1 DEF CrDeny, CrSetPending, ReadyReason
    <3>3. [crObj EXCEPT !.ready = ready] \in CertificateRequest
      BY <3>1, CrField
    <3>4. QED
      BY <1>1, <3>1, <3>2, <3>3, UpdateSame DEF CrSetStatus, CrWorker
  <2>2. CASE UNCHANGED crs
    BY <1>1, <2>2 DEF CrWorker
  <2>3. QED
    BY <1>1, <2>1, <2>2 DEF CrWorker, CrStep, CrCalls, CrLookup, CrDelete, CrCreate, CrTake,
       kubeVars, crVars
<1>2. CASE ArWorker
  <2>1. CASE ArSetCr
    <3>1. arKey \in Names /\ WithOutcome(arCr, arObj, arCert) \in CertificateRequest
      BY <2>1, OutcomeType DEF ArSetCr, TypeInv, TypeOK, ArWorkTypeOK
    <3>2. QED
      BY <1>2, <2>1, <3>1, UpdateSame DEF ArSetCr, ArWorker
  <2>2. CASE UNCHANGED crs
    BY <1>2, <2>2 DEF ArWorker
  <2>3. QED
    BY <1>2, <2>1, <2>2 DEF ArWorker, ArStep, ArCalls, ArTake, ArGetIssuer, ArSubmit, ArFetch,
       ArChain, ArGetCr, ArSetAr, crVars
<1>3. CASE Cluster
  BY <1>3 DEF Cluster, Others, SyncCr, SyncAr, CrTimerFires, ArTimerFires, Resync, GarbageCollect,
     crVars, storeVars
<1>4. CASE Restart \/ (\E id \in DOMAIN adcs : AdcsDecides(id)) \/ UNCHANGED vars
  BY <1>4 DEF Restart, AdcsDecides, vars, kubeVars, storeVars
<1>5. QED
  BY <1>1, <1>2, <1>3, <1>4 DEF Next

(***************************************************************************)
(* A request is decided once: an approval under a name is of an earlier    *)
(* request of that name, or the present one is approved and not denied.    *)
(***************************************************************************)
DecisionInv ==
    \A n \in Names :
        /\ crs[n].uid <= MaxRequests
        /\ crs[n].live => crs[n].uid >= 1
        /\ crs[n].denied => crs[n].live /\ ~crs[n].approved
        /\ \A a \in approvals : a[1] = n =>
               /\ 1 <= a[2] /\ a[2] <= crs[n].uid
               /\ a[2] = crs[n].uid /\ crs[n].live => crs[n].approved

LEMMA DecisionNext == TypeInv /\ DecisionInv /\ [Next]_vars => DecisionInv'
<1> SUFFICES ASSUME TypeInv, DecisionInv, [Next]_vars PROVE DecisionInv'
  OBVIOUS
<1>1. CASE ~User
  BY <1>1, OnlyUsersDecide DEF DecisionInv, SameRequest
<1>2. /\ crs \in [Names -> CertificateRequest] /\ MaxRequests \in Nat
      /\ \A n \in Names : crs[n].uid \in Nat
      /\ \A a \in approvals : a[2] \in Nat
  BY UsersAssumption DEF TypeInv, TypeOK, KubeTypeOK, CertificateRequest
<1>3. ASSUME NEW n \in Names, CreateRequest(n) PROVE DecisionInv'
  <2>1. PICK csr, ref : StoreCr(n, NewCr(crs[n], csr, ref))
    BY <1>3 DEF CreateRequest
  <2> DEFINE cr == NewCr(crs[n], csr, ref)
  <2>2. cr.uid = crs[n].uid + 1 /\ cr.live /\ ~cr.denied /\ ~cr.approved
    BY DEF NewCr
  <2>3. crs' = [crs EXCEPT ![n] = cr] /\ approvals' = approvals /\ crs[n].uid < MaxRequests
    BY <1>3, <2>1 DEF StoreCr, CreateRequest
  <2> HIDE DEF cr
  <2>4. QED
    BY <1>2, <2>2, <2>3 DEF DecisionInv
<1>4. ASSUME NEW n \in Names, DeleteRequest(n) PROVE DecisionInv'
  <2> DEFINE cr == DeletedCr(crs[n])
  <2>1. cr.uid = crs[n].uid /\ ~cr.live /\ ~cr.denied /\ ~cr.approved
    BY DEF DeletedCr, NoCr
  <2>2. crs' = [crs EXCEPT ![n] = cr] /\ approvals' = approvals
    BY <1>4 DEF StoreCr, DeleteRequest
  <2> HIDE DEF cr
  <2>3. QED
    BY <1>2, <2>1, <2>2 DEF DecisionInv
<1>5. ASSUME NEW n \in Names, Approve(n) PROVE DecisionInv'
  <2> DEFINE cr == [crs[n] EXCEPT !.approved = TRUE, !.rev = @ + 1]
  <2>1. cr.uid = crs[n].uid /\ cr.live = crs[n].live /\ cr.denied = crs[n].denied /\ cr.approved
    BY <1>2 DEF CertificateRequest
  <2>2. crs' = [crs EXCEPT ![n] = cr] /\ crs[n].live /\ ~crs[n].denied
        /\ approvals' = approvals \cup {<<n, crs[n].uid, crs[n].csr>>}
    BY <1>5 DEF StoreCr, Approve, Undecided
  <2> HIDE DEF cr
  <2>3. QED
    BY <1>2, <2>1, <2>2 DEF DecisionInv
<1>6. ASSUME NEW n \in Names, Deny(n) PROVE DecisionInv'
  <2> DEFINE cr == [crs[n] EXCEPT !.denied = TRUE, !.rev = @ + 1]
  <2>1. cr.uid = crs[n].uid /\ cr.live = crs[n].live /\ cr.denied /\ cr.approved = crs[n].approved
    BY <1>2 DEF CertificateRequest
  <2>2. crs' = [crs EXCEPT ![n] = cr] /\ crs[n].live /\ ~crs[n].approved /\ approvals' = approvals
    BY <1>6 DEF StoreCr, Deny, Undecided
  <2> HIDE DEF cr
  <2>3. QED
    BY <1>2, <2>1, <2>2 DEF DecisionInv
<1>7. CASE ConfigureIssuer \/ BreakIssuer
  BY <1>7 DEF ConfigureIssuer, BreakIssuer, kubeVars, DecisionInv
<1>8. QED
  BY <1>1, <1>3, <1>4, <1>5, <1>6, <1>7 DEF User

(* Where copies come from, in any step. *)
LEMMA CopySteps ==
    ASSUME TypeInv, [Next]_vars
    PROVE  /\ CrsCounted /\ ArsCounted
           /\ \A n \in Names : arCache'[n] \in {arCache[n], ars'[n]} /\ crCache'[n] \in {crCache[n], crs'[n]}
           /\ \/ crKey' = NoName
              \/ UNCHANGED <<crKey, crObj>>
              \/ crKey' \in Names /\ crObj' = crCache[crKey'] /\ crObj'.live /\ crs' = crs
           /\ \/ arKey' = NoName
              \/ arKey' = arKey /\ SpecOf(arObj') = SpecOf(arObj)
              \/ arKey' \in Names /\ arObj' = arCache[arKey'] /\ arObj'.live /\ ars' = ars
<1>1. UNCHANGED <<crs, ars>> => CrsCounted /\ ArsCounted
  BY DEF CrsCounted, ArsCounted, Counted
<1>2. CASE User
  BY <1>2, UserCounts DEF crWork, arWork, ArsCounted, Counted
<1>3. CASE Cluster
  BY <1>3, ClusterCounts DEF crWork, arWork
<1>4. CASE CrWorker
  BY <1>4, CrWorkerCounts DEF arWork
<1>5. CASE ArWorker
  BY <1>5, ArWorkerCounts DEF crWork
<1>6. CASE Restart
  BY <1>1, <1>6 DEF Restart, ArDone, storeVars
<1>7. CASE (\E id \in DOMAIN adcs : AdcsDecides(id)) \/ UNCHANGED vars
  BY <1>1, <1>7 DEF AdcsDecides, vars, kubeVars, crWork, arWork
<1>8. QED
  BY <1>2, <1>3, <1>4, <1>5, <1>6, <1>7 DEF Next

(* A call after which the worker goes on has the same AdcsRequest before and after it. *)
LEMMA CallsKeep ==
    ASSUME TypeInv, ArCalls, arKey' # NoName
    PROVE  /\ arKey # NoName /\ arKey' = arKey /\ arObj'.rev = arObj.rev
           /\ ~ArRetry /\ ~ArDone
<1>1. ~ArRetry /\ ~ArDone
  BY DEF ArRetry, ArDone
<1>2. arKey # NoName
  BY DEF ArCalls, ArGetIssuer, ArSubmit, ArFetch, ArChain, ArGetCr, ArSetCr, ArSetAr,
     TypeInv, TypeOK, ArWorkTypeOK
<1>3. arKey' = arKey /\ (UNCHANGED arObj \/ \E status, id, cert : Issued(status, id, cert))
  <2>1. CASE ArSubmit \/ ArFetch
    BY <1>1, <2>1 DEF ArSubmit, SubmissionFails, Posted, ArFetch, Fetched, Issued
  <2>2. CASE ArGetIssuer \/ ArChain \/ ArGetCr \/ ArSetCr \/ ArSetAr
    BY <1>1, <2>2 DEF ArGetIssuer, ArChain, ArGetCr, ArSetCr, CrSet, NotSet, ArSetAr, Saved,
       Finished, ArRetry
  <2>3. QED
    BY <2>1, <2>2 DEF ArCalls
<1>4. arObj'.rev = arObj.rev
  BY <1>3 DEF Issued, TypeInv, TypeOK, ArWorkTypeOK, AdcsRequest
<1>5. QED
  BY <1>1, <1>2, <1>3, <1>4

(* The three ways in which a stored AdcsRequest changes. *)
Deletes(n) == ars[n].live /\ ars' = [ars EXCEPT ![n] = DeletedAr(ars[n])]
Creates(n) == ~ars[n].live /\ \E cr : ars' = [ars EXCEPT ![n] = NewAr(ars[n], cr)]
Writes(n) ==
    /\ ArSetAr /\ n = arKey /\ Current(ars[n], arObj)
    /\ ars' = [ars EXCEPT ![n] = WrittenAr(ars[n], arObj)]

LEMMA StoreSteps ==
    ASSUME TypeInv, [Next]_vars
    PROVE  ars' = ars \/ \E n \in Names : Deletes(n) \/ Creates(n) \/ Writes(n)
<1>1. CASE User \/ Restart \/ UNCHANGED vars \/ \E id \in DOMAIN adcs : AdcsDecides(id)
  BY <1>1, UserCounts DEF Restart, storeVars, vars, kubeVars, AdcsDecides
<1>2. CASE Cluster
  BY <1>2 DEF Cluster, SyncCr, SyncAr, CrTimerFires, ArTimerFires, Resync, GarbageCollect,
     arVars, storeVars, Deletes
<1>3. CASE CrWorker
  <2>1. CASE CrDelete
    BY <2>1 DEF CrDelete, Deletes, TypeInv, TypeOK, CrWorkTypeOK
  <2>2. CASE CrCreate
    BY <2>2 DEF CrCreate, Created, CanCreate, Creates, TypeInv, TypeOK, CrWorkTypeOK
  <2>3. CASE CrDeny \/ CrSetPending \/ CrLookup \/ \E n \in Names : CrTake(n)
    BY <2>3 DEF CrDeny, CrSetPending, CrSetStatus, CrLookup, CrTake, arVars, kubeVars
  <2>4. QED
    BY <1>3, <2>1, <2>2, <2>3 DEF CrWorker, CrStep, CrCalls
<1>4. CASE ArWorker
  <2>1. CASE ArSetAr
    BY <2>1 DEF ArSetAr, UpdateAr, Writes, TypeInv, TypeOK, ArWorkTypeOK
  <2>2. CASE ArGetIssuer \/ ArSubmit \/ ArFetch \/ ArChain \/ ArGetCr \/ ArSetCr \/ \E n \in Names : ArTake(n)
    BY <2>2 DEF ArGetIssuer, ArSubmit, ArFetch, ArChain, ArGetCr, ArSetCr, ArTake
  <2>3. QED
    BY <1>4, <2>1, <2>2 DEF ArWorker, ArStep, ArCalls
<1>5. QED
  BY <1>1, <1>2, <1>3, <1>4 DEF Next

(* What a deleted, a new and a written AdcsRequest look like. *)
LEMMA DeletedObject ==
    ASSUME NEW old
    PROVE  DeletedAr(old).live = FALSE /\ DeletedAr(old).state = "Unknown" /\ DeletedAr(old).id = 0
BY DEF DeletedAr, NoAr

LEMMA NewObject ==
    ASSUME NEW old, NEW cr
    PROVE  NewAr(old, cr).live = TRUE /\ NewAr(old, cr).state = "Unknown" /\ NewAr(old, cr).id = 0
BY DEF NewAr

LEMMA WrittenObject ==
    ASSUME NEW old \in AdcsRequest, NEW obj \in AdcsRequest
    PROVE  /\ WrittenAr(old, obj).live = old.live
           /\ WrittenAr(old, obj).state = obj.state /\ WrittenAr(old, obj).id = obj.id
BY DEF WrittenAr, Written, AdcsRequest

(* Who deletes and creates AdcsRequests. *)
Orphan(n) == ~(crs[n].live /\ crs[n].uid = ars[n].owner)
ArChange(n) ==
    \/ /\ ars'[n].live = ars[n].live /\ ars'[n].uid = ars[n].uid /\ ars'[n].owner = ars[n].owner
       /\ ars'[n].csr = ars[n].csr /\ ars'[n].ref = ars[n].ref
    \/ ~ars'[n].live /\ ars'[n].uid = ars[n].uid /\ UNCHANGED crs
       /\ (Orphan(n) \/ (crPc = "delete" /\ crKey = n))
    \/ crPc = "create" /\ crKey = n /\ ~ars[n].live /\ UNCHANGED crs /\ ars'[n] = NewAr(ars[n], crObj)

LEMMA ArSteps ==
    ASSUME TypeInv, [Next]_vars, NEW n \in Names
    PROVE  ArChange(n)
<1> USE DEF ArChange
<1>1. ars \in [Names -> AdcsRequest]
  BY DEF TypeInv, TypeOK, KubeTypeOK
<1>2. \A old : ~DeletedAr(old).live /\ DeletedAr(old).uid = old.uid
  BY DEF DeletedAr, NoAr
<1>3. CASE UNCHANGED ars
  BY <1>3
<1>4. CASE \E m \in Names : GarbageCollect(m)
  <2>1. PICK m \in Names : GarbageCollect(m)
    BY <1>4
  <2>2. ars' = [ars EXCEPT ![m] = DeletedAr(ars[m])] /\ UNCHANGED crs /\ Orphan(m)
    BY <2>1 DEF GarbageCollect, Orphan, crVars
  <2>3. QED
    BY <1>1, <1>2, <2>2
<1>5. CASE CrDelete
  <2>1. UNCHANGED crs /\ crPc = "delete" /\ ars' \in {ars, [ars EXCEPT ![crKey] = DeletedAr(ars[crKey])]}
    BY <1>5 DEF CrDelete, crVars
  <2>2. QED
    BY <1>1, <1>2, <2>1
<1>6. CASE CrCreate
  <2>1. /\ UNCHANGED crs /\ crPc = "create"
        /\ ars' = ars \/ (~ars[crKey].live /\ ars' = [ars EXCEPT ![crKey] = NewAr(ars[crKey], crObj)])
    BY <1>6 DEF CrCreate, Created, CanCreate
  <2>2. QED
    BY <1>1, <2>1
<1>7. CASE ArSetAr
  <2> DEFINE w == WrittenAr(ars[arKey], arObj)
  <2>1. arKey \in Names /\ arObj \in AdcsRequest
    BY <1>7 DEF ArSetAr, TypeInv, TypeOK, ArWorkTypeOK
  <2>2. w.live = ars[arKey].live /\ w.uid = ars[arKey].uid /\ w.owner = ars[arKey].owner
        /\ w.csr = ars[arKey].csr /\ w.ref = ars[arKey].ref
    BY <1>1, <2>1 DEF WrittenAr, Written, AdcsRequest
  <2>3. ars' \in {ars, [ars EXCEPT ![arKey] = w]}
    BY <1>7 DEF ArSetAr, UpdateAr
  <2> HIDE DEF w
  <2>4. QED
    BY <1>1, <2>2, <2>3
<1>8. CASE User \/ Restart \/ UNCHANGED vars \/ \E id \in DOMAIN adcs : AdcsDecides(id)
  BY <1>3, <1>8, UserCounts DEF Restart, storeVars, vars, kubeVars, AdcsDecides
<1>9. CASE Cluster
  BY <1>3, <1>4, <1>9 DEF Cluster, SyncCr, SyncAr, CrTimerFires, ArTimerFires, Resync, arVars, storeVars
<1>10. CASE CrWorker
  BY <1>3, <1>5, <1>6, <1>10 DEF CrWorker, CrStep, CrCalls, CrDeny, CrSetPending, CrSetStatus, CrLookup, CrTake,
     arVars, kubeVars
<1>11. CASE ArWorker
  BY <1>3, <1>7, <1>11 DEF ArWorker, ArStep, ArCalls, ArGetIssuer, ArSubmit, ArFetch, ArChain, ArGetCr,
     ArSetCr, ArTake
<1>12. QED
  BY <1>8, <1>9, <1>10, <1>11 DEF Next

(* What users make of the CertificateRequest of a name: the same, its successor, or none. *)
Succeeds(old, new) ==
    \/ SameRequest(old, new)
    \/ new.uid = old.uid + 1 /\ new.live /\ ~new.approved /\ new.ready = "None" /\ new.cert = 0
    \/ new.uid = old.uid /\ ~new.live /\ ~new.approved /\ new.ready = "None" /\ new.cert = 0
    \/ /\ new.live = old.live /\ new.uid = old.uid /\ new.csr = old.csr /\ new.ref = old.ref
       /\ new.ready = old.ready /\ new.cert = old.cert

LEMMA CrSteps ==
    ASSUME TypeInv, [Next]_vars, NEW n \in Names
    PROVE  Succeeds(crs[n], crs'[n])
<1> USE DEF Succeeds
<1>1. CASE ~User
  BY <1>1, OnlyUsersDecide
<1>2. crs \in [Names -> CertificateRequest]
  BY DEF TypeInv, TypeOK, KubeTypeOK
<1>3. ASSUME NEW m \in Names, NEW cr, StoreCr(m, cr), Succeeds(crs[m], cr)
      PROVE  Succeeds(crs[n], crs'[n])
  BY <1>2, <1>3 DEF StoreCr, SameRequest
<1>4. \A old, csr, ref : Succeeds(old, NewCr(old, csr, ref)) /\ Succeeds(old, DeletedCr(old))
  BY DEF NewCr, DeletedCr, NoCr
<1>5. \A old \in CertificateRequest :
        /\ Succeeds(old, [old EXCEPT !.approved = TRUE, !.rev = @ + 1])
        /\ Succeeds(old, [old EXCEPT !.denied = TRUE, !.rev = @ + 1])
  BY DEF CertificateRequest
<1>6. CASE \E m \in Names : CreateRequest(m) \/ DeleteRequest(m)
  BY <1>3, <1>4, <1>6 DEF CreateRequest, DeleteRequest
<1>7. CASE \E m \in Names : Approve(m) \/ Deny(m)
  BY <1>2, <1>3, <1>5, <1>7 DEF Approve, Deny
<1>8. CASE ConfigureIssuer \/ BreakIssuer
  BY <1>8 DEF ConfigureIssuer, BreakIssuer, kubeVars, SameRequest
<1>9. QED
  BY <1>1, <1>6, <1>7, <1>8 DEF User

(***************************************************************************)
(* Everything descends from a CertificateRequest that there is or has been *)
(* under its name, and has its CSR when that one is still there.           *)
(***************************************************************************)
Descends(cr, uid, csr) ==
    /\ 1 <= uid /\ uid <= cr.uid
    /\ cr.live /\ uid = cr.uid => csr = cr.csr

DescentInv ==
    /\ \A n \in Names :
         /\ crs[n].live => Descends(crs[n], crs[n].uid, crs[n].csr)
         /\ crCache[n].live => Descends(crs[n], crCache[n].uid, crCache[n].csr)
         /\ ars[n].live => Descends(crs[n], ars[n].owner, ars[n].csr)
         /\ arCache[n].live => Descends(crs[n], arCache[n].owner, arCache[n].csr)
    /\ crKey # NoName => Descends(crs[crKey], crObj.uid, crObj.csr)
    /\ arKey # NoName => Descends(crs[arKey], arObj.owner, arObj.csr)

LEMMA DescentStays ==
    ASSUME TypeInv, [Next]_vars, NEW n \in Names, NEW uid \in Nat, NEW csr, Descends(crs[n], uid, csr)
    PROVE  Descends(crs'[n], uid, csr)
<1>1. crs[n].uid \in Nat
  BY DEF TypeInv, TypeOK, KubeTypeOK, CertificateRequest
<1>2. QED
  BY <1>1, CrSteps DEF Succeeds, SameRequest, Descends

LEMMA DescentNext == TypeInv /\ DescentInv /\ [Next]_vars => DescentInv'
<1> SUFFICES ASSUME TypeInv, DescentInv, [Next]_vars PROVE DescentInv'
  OBVIOUS
<1>1. /\ \A n \in Names : /\ crs[n].uid \in Nat /\ crCache[n].uid \in Nat
                          /\ ars[n].owner \in Nat /\ arCache[n].owner \in Nat
      /\ crObj.uid \in Nat /\ arObj.owner \in Nat
      /\ arKey # NoName => arKey \in Names
      /\ crKey # NoName => crKey \in Names
  BY DEF TypeInv, TypeOK, KubeTypeOK, CrWorkTypeOK, ArWorkTypeOK, CertificateRequest, AdcsRequest
<1>2. ASSUME NEW n \in Names
      PROVE  /\ (crs[n].live => Descends(crs[n], crs[n].uid, crs[n].csr))'
             /\ (crCache[n].live => Descends(crs[n], crCache[n].uid, crCache[n].csr))'
             /\ (ars[n].live => Descends(crs[n], ars[n].owner, ars[n].csr))'
             /\ (arCache[n].live => Descends(crs[n], arCache[n].owner, arCache[n].csr))'
  <2>1. crs'[n].live => Descends(crs'[n], crs'[n].uid, crs'[n].csr)
    <3>1. crs'[n].live => 1 <= crs'[n].uid
      BY <1>1, CrSteps DEF Succeeds, SameRequest, DescentInv, Descends
    <3>2. TypeInv'
      BY TypeNext
    <3>3. crs'[n].uid \in Nat
      BY <3>2 DEF TypeInv, TypeOK, KubeTypeOK, CertificateRequest
    <3>4. QED
      BY <3>1, <3>3 DEF Descends
  <2>2. crCache[n].live => Descends(crs'[n], crCache[n].uid, crCache[n].csr)
    BY <1>1, DescentStays DEF DescentInv
  <2>3. arCache[n].live => Descends(crs'[n], arCache[n].owner, arCache[n].csr)
    BY <1>1, DescentStays DEF DescentInv
  <2>4. ars'[n].live => Descends(crs'[n], ars'[n].owner, ars'[n].csr)
    <3>1. ars[n].live => Descends(crs'[n], ars[n].owner, ars[n].csr)
      BY <1>1, DescentStays DEF DescentInv
    <3>2. CASE crKey = n /\ crPc = "create" /\ UNCHANGED crs /\ ars'[n] = NewAr(ars[n], crObj)
      <4>1. ars'[n].owner = crObj.uid /\ ars'[n].csr = crObj.csr
        BY <3>2 DEF NewAr
      <4>2. Descends(crs[n], crObj.uid, crObj.csr)
        BY <3>2, NamesAssumption DEF DescentInv
      <4>3. QED
        BY <3>2, <4>1, <4>2
    <3>3. QED
      BY <3>1, <3>2, ArSteps DEF ArChange
  <2>5. crCache'[n].live => Descends(crs'[n], crCache'[n].uid, crCache'[n].csr)
    BY <2>1, <2>2, CopySteps
  <2>6. arCache'[n].live => Descends(crs'[n], arCache'[n].owner, arCache'[n].csr)
    BY <2>3, <2>4, CopySteps
  <2>7. QED
    BY <2>1, <2>4, <2>5, <2>6
<1>3. ASSUME crKey' # NoName PROVE Descends(crs'[crKey'], crObj'.uid, crObj'.csr)
  <2>1. CASE UNCHANGED <<crKey, crObj>>
    BY <1>1, <1>3, <2>1, DescentStays DEF DescentInv
  <2>2. CASE crKey' \in Names /\ crObj' = crCache[crKey'] /\ crObj'.live /\ crs' = crs
    BY <2>2 DEF DescentInv
  <2>3. QED
    BY <1>3, <2>1, <2>2, CopySteps
<1>4. ASSUME arKey' # NoName PROVE Descends(crs'[arKey'], arObj'.owner, arObj'.csr)
  <2>1. CASE arKey' = arKey /\ SpecOf(arObj') = SpecOf(arObj)
    <3>1. arObj'.owner = arObj.owner /\ arObj'.csr = arObj.csr
      BY <2>1 DEF SpecOf
    <3>2. QED
      BY <1>1, <1>4, <2>1, <3>1, DescentStays DEF DescentInv
  <2>2. CASE arKey' \in Names /\ arObj' = arCache[arKey'] /\ arObj'.live /\ ars' = ars
    BY <1>1, <2>2, DescentStays DEF DescentInv
  <2>3. QED
    BY <1>4, <2>1, <2>2, CopySteps
<1>5. QED
  BY <1>2, <1>3, <1>4 DEF DescentInv

(* Both hold in every behaviour: what is kept of a CertificateRequest under a name never *)
(* belongs to a later one, and what is said about the present one is said about its CSR. *)
LEMMA Descent == Spec => [](DecisionInv /\ DescentInv)
<1>1. Init => DecisionInv
  BY UsersAssumption DEF Init, KubeInit, NoCr, DecisionInv
<1>2. Init => DescentInv
  BY DEF Init, KubeInit, CrWorkInit, ArWorkInit, NoCr, NoAr, DescentInv
<1>3. Spec => []TypeInv
  BY TypesAndIds, PTL DEF TypeInv
<1>4. QED
  BY <1>1, <1>2, <1>3, DecisionNext, DescentNext, PTL DEF Spec
=============================================================================
