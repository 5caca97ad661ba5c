------------------------ MODULE AdcsOperatorOrigins ------------------------
(***************************************************************************)
(* Where things come from: the id in an AdcsRequest from a submission of   *)
(* that AdcsRequest, a submission from a request that was approved, an     *)
(* answer from what ADCS has decided.                                      *)
(***************************************************************************)
EXTENDS AdcsOperatorCopies

(* Submissions keep their number and what they are for. *)
AdcsKept ==
    \A k \in DOMAIN adcs :
        /\ k \in DOMAIN adcs'
        /\ adcs'[k].name = adcs[k].name /\ adcs'[k].uid = adcs[k].uid
        /\ adcs'[k].owner = adcs[k].owner /\ adcs'[k].csr = adcs[k].csr

LEMMA KeptByAppend ==
    ASSUME TypeInv, NEW n, NEW ar, NEW disp, Submit(n, ar, disp)
    PROVE  /\ AdcsKept
           /\ Len(adcs) + 1 \in DOMAIN adcs'
           /\ \A k \in DOMAIN adcs' : k \in DOMAIN adcs \/ k = Len(adcs) + 1
           /\ adcs'[Len(adcs) + 1] = [name |-> n, uid |-> ar.uid, owner |-> ar.owner,
                                      csr |-> ar.csr, disp |-> disp]
<1> DEFINE new == [name |-> n, uid |-> ar.uid, owner |-> ar.owner, csr |-> ar.csr, disp |-> disp]
<1>1. adcs \in Seq(Submission(Names, Csrs \cup {NoCsr})) /\ adcs' = Append(adcs, new)
  BY DEF TypeInv, TypeOK, AdcsTypeOK, Submit
<1> HIDE DEF new
<1>2. /\ Len(adcs') = Len(adcs) + 1 /\ Len(adcs) \in Nat
      /\ DOMAIN adcs' = 1..Len(adcs') /\ DOMAIN adcs = 1..Len(adcs)
      /\ \A k \in 1..Len(adcs) : adcs'[k] = adcs[k]
      /\ adcs'[Len(adcs) + 1] = new
  BY <1>1
<1>3. QED
  BY <1>2 DEF AdcsKept, new

LEMMA KeptByDecision ==
    ASSUME TypeInv, NEW k, Decide(k)
    PROVE  AdcsKept /\ DOMAIN adcs' = DOMAIN adcs
<1>1. PICK v \in Verdicts : adcs' = [adcs EXCEPT ![k].disp = v]
  BY DEF Decide
<1>2. \A i \in DOMAIN adcs : adcs[i] \in Submission(Names, Csrs \cup {NoCsr})
  BY DEF TypeInv, TypeOK, AdcsTypeOK
<1>3. QED
  BY <1>1, <1>2 DEF AdcsKept, Submission

LEMMA OwnStays ==
    ASSUME AdcsKept, NEW k, NEW n, NEW ar, NEW br, IsOwn(k, n, ar), ar.uid = br.uid, ar.csr = br.csr
    PROVE  /\ k \in DOMAIN adcs'
           /\ adcs'[k].name = n /\ adcs'[k].uid = br.uid /\ adcs'[k].csr = br.csr
BY DEF AdcsKept, IsOwn

(***************************************************************************)
(* The invariant behind RecordedIdIsOwn: the same holds of every copy, and *)
(* the id that a worker asks for is of the AdcsRequest it holds.           *)
(***************************************************************************)
OwnId(n, ar) == ar.id > 0 => IsOwn(ar.id, n, ar)

OwnInv ==
    /\ \A n \in Names : OwnId(n, ars[n]) /\ OwnId(n, arCache[n])
    /\ arKey # NoName => OwnId(arKey, arObj)
    /\ arPc = "fetch" => IsOwn(arId, arKey, arObj)

(* What a step does to a stored AdcsRequest, as far as its id is concerned. *)
OwnWrite(n) ==
    \/ ars'[n] = ars[n]
    \/ ars'[n].id = 0
    \/ /\ n = arKey /\ ars'[n].id = arObj.id
       /\ arObj.uid = ars'[n].uid /\ arObj.csr = ars'[n].csr

LEMMA OwnStore ==
    ASSUME TypeInv, OwnInv, AdcsKept, \A n \in Names : OwnWrite(n),
           \A n \in Names : arCache'[n] \in {arCache[n], ars'[n]}
    PROVE  (\A n \in Names : OwnId(n, ars[n]) /\ OwnId(n, arCache[n]))'
<1>1. ASSUME NEW n \in Names PROVE OwnId(n, ars[n])' /\ OwnId(n, arCache[n])'
  <2>1. OwnId(n, ars[n])'
    <3>1. CASE ars'[n] = ars[n]
      BY <3>1, OwnStays DEF OwnInv, OwnId, IsOwn
    <3>2. CASE ars'[n].id = 0
      BY <3>2 DEF OwnId
    <3>3. CASE /\ n = arKey /\ ars'[n].id = arObj.id
               /\ arObj.uid = ars'[n].uid /\ arObj.csr = ars'[n].csr
      BY <3>3, OwnStays, NamesAssumption DEF OwnInv, OwnId, IsOwn
    <3>4. QED
      BY <3>1, <3>2, <3>3 DEF OwnWrite
  <2>2. CASE arCache'[n] = arCache[n]
    BY <2>1, <2>2, OwnStays DEF OwnInv, OwnId, IsOwn
  <2>3. CASE arCache'[n] = ars'[n]
    BY <2>1, <2>3 DEF OwnId, IsOwn
  <2>4. QED
    BY <2>1, <2>2, <2>3
<1>2. QED
  BY <1>1

LEMMA OwnWork ==
    ASSUME OwnInv, AdcsKept, arKey' = arKey, UNCHANGED arObj,
           arPc' = "fetch" => UNCHANGED <<arPc, arId>>
    PROVE  /\ (arKey # NoName => OwnId(arKey, arObj))'
           /\ (arPc = "fetch" => IsOwn(arId, arKey, arObj))'
BY OwnStays DEF OwnInv, OwnId, IsOwn

(* Steps of everyone but the AdcsRequest worker. *)
LEMMA OwnOthers ==
    ASSUME TypeInv, OwnInv, User \/ Cluster \/ CrWorker \/ UNCHANGED vars
    PROVE  OwnInv'
<1>1. AdcsKept /\ UNCHANGED arWork
  <2>1. CASE User
    BY <2>1 DEF User, CreateRequest, Approve, Deny, DeleteRequest, ConfigureIssuer, BreakIssuer, StoreCr,
       AdcsKept
  <2>2. CASE Cluster \/ CrWorker \/ UNCHANGED vars
    BY <2>2 DEF Cluster, Others, CrWorker, vars, AdcsKept
  <2>3. QED
    BY <2>1, <2>2
<1>2. \A n \in Names : arCache'[n] \in {arCache[n], ars'[n]}
  BY UserCounts, ClusterCounts, CrWorkerCounts DEF vars, kubeVars
<1>3. \A n \in Names : OwnWrite(n)
  <2>1. CASE User \/ UNCHANGED vars
    BY <2>1, UserCounts DEF vars, kubeVars, OwnWrite
  <2>2. CASE Cluster
    <3>1. ars' = ars \/ \E n \in Names : ars' = [ars EXCEPT ![n] = DeletedAr(ars[n])]
      BY <2>2 DEF Cluster, SyncCr, SyncAr, CrTimerFires, ArTimerFires, Resync, GarbageCollect,
         arVars, storeVars
    <3>2. QED
      BY <3>1 DEF OwnWrite, DeletedAr, NoAr, TypeInv, TypeOK, KubeTypeOK
  <2>3. CASE CrWorker
    <3>1. \/ ars' = ars
          \/ ars' = [ars EXCEPT ![crKey] = DeletedAr(ars[crKey])]
          \/ ars' = [ars EXCEPT ![crKey] = NewAr(ars[crKey], crObj)]
      BY <2>3 DEF CrWorker, CrStep, CrCalls, CrDeny, CrSetPending, CrSetStatus, CrLookup, CrDelete,
         CrCreate, CrTake, Created, arVars, kubeVars
    <3>2. DeletedAr(ars[crKey]).id = 0 /\ NewAr(ars[crKey], crObj).id = 0
      BY DEF DeletedAr, NewAr, NoAr
    <3>3. QED
      BY <3>1, <3>2 DEF OwnWrite, TypeInv, TypeOK, KubeTypeOK
  <2>4. QED
    BY <2>1, <2>2, <2>3
<1>4. (\A n \in Names : OwnId(n, ars[n]) /\ OwnId(n, arCache[n]))'
  BY <1>1, <1>2, <1>3, OwnStore
<1>5. QED
  BY <1>1, <1>4, OwnWork DEF OwnInv, arWork

(* What Issue has in memory after a result with the id it asked for, or with none. *)
LEMMA OwnIssued ==
    ASSUME TypeInv, OwnInv, NEW status, NEW id \in Int, NEW cert, Issued(status, id, cert),
           UNCHANGED adcs \/ id = IdNone, id = IdNone \/ IsOwn(id, arKey, arObj)
    PROVE  /\ (arKey # NoName => OwnId(arKey, arObj))'
           /\ (arPc = "fetch" => IsOwn(arId, arKey, arObj))'
<1>1. arObj \in AdcsRequest
  BY DEF TypeInv, TypeOK, ArWorkTypeOK
<1>2. /\ arObj'.id = id /\ arObj'.uid = arObj.uid /\ arObj'.csr = arObj.csr
      /\ arKey' = arKey /\ arPc' = "chain"
  BY <1>1 DEF Issued, AdcsRequest
<1>3. QED
  BY <1>2 DEF OwnId, IsOwn, IdNone

LEMMA OwnIdle ==
    ASSUME ArRetry \/ ArDone
    PROVE  /\ (arKey # NoName => OwnId(arKey, arObj))'
           /\ (arPc = "fetch" => IsOwn(arId, arKey, arObj))'
BY DEF ArRetry, ArDone

LEMMA OwnSubmit ==
    ASSUME TypeInv, OwnInv, ArSubmit
    PROVE  /\ AdcsKept
           /\ (arKey # NoName => OwnId(arKey, arObj))'
           /\ (arPc = "fetch" => IsOwn(arId, arKey, arObj))'
<1>1. CASE SubmissionFails
  BY <1>1, OwnIdle DEF SubmissionFails, AdcsKept
<1>2. CASE ~SubmissionFails
  <2> DEFINE k == Len(adcs) + 1
  <2>1. PICK disp \in Verdicts \cup {"Pending"} :
          /\ Submit(arKey, arObj, disp)
          /\ \E post \in SubmissionAnswers(k, disp) \cup FaultReplies : Posted(post, k)
    BY <1>2 DEF ArSubmit
  <2>2. PICK post \in SubmissionAnswers(k, disp) \cup FaultReplies : Posted(post, k)
    BY <2>1
  <2>3. k \in Nat /\ CertId(post) \in {0, k}
    BY PostedId DEF TypeInv, TypeOK, AdcsTypeOK
  <2>4. /\ AdcsKept /\ k \in DOMAIN adcs'
        /\ adcs'[k].name = arKey /\ adcs'[k].uid = arObj.uid /\ adcs'[k].csr = arObj.csr
    <3>1. /\ AdcsKept /\ k \in DOMAIN adcs'
          /\ adcs'[k] = [name |-> arKey, uid |-> arObj.uid, owner |-> arObj.owner,
                         csr |-> arObj.csr, disp |-> disp]
      BY <2>1, KeptByAppend
    <3> HIDE DEF k
    <3>2. QED
      BY <3>1
  <2> HIDE DEF k
  <2>5. CASE Issued("Ready", IdNone, k)
    BY <2>4, <2>5, OwnIssued DEF IdNone
  <2>6. CASE ArRetry
    BY <2>4, <2>6, OwnIdle
  <2>7. CASE /\ CertId(post) # 0 /\ arPc' = "fetch" /\ arId' = CertId(post)
             /\ UNCHANGED <<arKey, arObj, arCert, arCr, arTimer>>
    BY <2>3, <2>4, <2>7, OwnStays DEF OwnInv, OwnId, IsOwn
  <2>8. QED
    BY <2>2, <2>4, <2>5, <2>6, <2>7 DEF Posted
<1>3. QED
  BY <1>1, <1>2

LEMMA OwnArWorker ==
    ASSUME TypeInv, CopiesAreHonest, OwnInv, ArWorker
    PROVE  OwnInv'
<1> DEFINE Work == /\ (arKey # NoName => OwnId(arKey, arObj))'
                   /\ (arPc = "fetch" => IsOwn(arId, arKey, arObj))'
           Store == AdcsKept /\ \A n \in Names : OwnWrite(n)
<1>1. ASSUME UNCHANGED <<adcs, ars>> PROVE Store
  BY <1>1 DEF AdcsKept, OwnWrite
<1>2. ASSUME \E n \in Names : ArTake(n) PROVE Store /\ Work
  <2>1. PICK n \in Names : ArTake(n)
    BY <1>2
  <2>2. Work
    BY <2>1 DEF ArTake, arWork, OwnInv, OwnId, IsOwn
  <2>3. QED
    BY <1>1, <2>1, <2>2 DEF ArTake
<1>3. ASSUME ArGetIssuer PROVE Store /\ Work
  <2>1. arKey # NoName /\ OwnId(arKey, arObj) /\ IdIsKnown(arObj)
    BY <1>3 DEF ArGetIssuer, TypeInv, TypeOK, ArWorkTypeOK, IdsAreKnown, OwnInv
  <2>2. \A k \in DOMAIN adcs : k > 0
    BY DEF TypeInv, TypeOK, AdcsTypeOK
  <2>3. CASE ArRetry
    BY <1>1, <1>3, <2>3, OwnIdle DEF ArGetIssuer
  <2>4. CASE ~ArRetry
    <3>1. /\ arPc' = IssueStart(arObj) /\ UNCHANGED <<arKey, arObj, adcs, ars>>
          /\ arPc' = "fetch" => arId' = arObj.id
      BY <1>3, <2>4 DEF ArGetIssuer
    <3>2. IssueStart(arObj) = "fetch" => IsOwn(arObj.id, arKey, arObj)
      BY <2>1, <2>2 DEF IssueStart, IdIsKnown, OwnId
    <3>3. QED
      BY <1>1, <2>1, <3>1, <3>2 DEF OwnId, IsOwn
  <2>5. QED
    BY <2>3, <2>4
<1>4. ASSUME ArSubmit PROVE Store /\ Work
  BY <1>4, OwnSubmit DEF ArSubmit, OwnWrite
<1>5. ASSUME ArFetch PROVE Store /\ Work
  <2>1. PICK reply : Fetched(reply)
    BY <1>5 DEF ArFetch
  <2> DEFINE res == GetExistingCertificate(reply, arId)
  <2>2. arId \in Int /\ IsOwn(arId, arKey, arObj)
    BY <1>5 DEF ArFetch, OwnInv, TypeInv, TypeOK, ArWorkTypeOK
  <2>3. CASE res.err = "none"
    <3>1. res.id = arId
      BY <2>3, FetchedResult
    <3>2. \E cert : Issued(res.status, arId, cert)
      BY <2>1, <2>3, <3>1 DEF Fetched
    <3>3. Work
      BY <1>5, <2>2, <3>2, OwnIssued DEF ArFetch
    <3>4. QED
      BY <1>1, <1>5, <3>3 DEF ArFetch
  <2>4. CASE res.err # "none"
    BY <1>1, <1>5, <2>1, <2>4, OwnIdle DEF Fetched, ArFetch
  <2>5. QED
    BY <2>3, <2>4
<1>6. ASSUME ArChain \/ ArGetCr \/ ArSetCr PROVE Store /\ Work
  <2>1. Store
    BY <1>1, <1>6 DEF ArChain, ArGetCr, ArSetCr
  <2>2. ArRetry \/ (UNCHANGED <<arKey, arObj>> /\ arPc' # "fetch")
    BY <1>6 DEF ArChain, ArGetCr, ArSetCr, NotSet, CrSet
  <2>3. Work
    BY <2>1, <2>2, OwnIdle, OwnWork
  <2>4. QED
    BY <2>1, <2>3
<1>7. ASSUME ArSetAr PROVE Store /\ Work
  <2>1. arKey \in Names /\ arObj \in AdcsRequest /\ ars[arKey] \in AdcsRequest
    BY <1>7 DEF ArSetAr, TypeInv, TypeOK, ArWorkTypeOK, KubeTypeOK
  <2>2. \/ ars' = ars
        \/ ars' = [ars EXCEPT ![arKey] = WrittenAr(ars[arKey], arObj)] /\ arObj.rev = ars[arKey].rev
    BY <1>7 DEF ArSetAr, UpdateAr, Current
  <2>3. LET w == WrittenAr(ars[arKey], arObj) IN
        w.id = arObj.id /\ w.uid = ars[arKey].uid /\ w.csr = ars[arKey].csr
    BY <2>1 DEF WrittenAr, Written, AdcsRequest
  <2>4. arObj.rev = ars[arKey].rev => arObj.uid = ars[arKey].uid /\ arObj.csr = ars[arKey].csr
    BY <2>1, NamesAssumption DEF CopiesAreHonest, Honest, SpecOf
  <2>5. \A n \in Names : OwnWrite(n)
    BY <2>2, <2>3, <2>4 DEF OwnWrite, TypeInv, TypeOK, KubeTypeOK
  <2>6. Work
    BY <1>7, OwnIdle DEF ArSetAr, Saved, Finished, ArRetry
  <2>7. QED
    BY <1>7, <2>5, <2>6 DEF ArSetAr, AdcsKept
<1>8. Store /\ Work
  BY <1>2, <1>3, <1>4, <1>5, <1>6, <1>7 DEF ArWorker, ArStep, ArCalls
<1>9. \A n \in Names : arCache'[n] \in {arCache[n], ars'[n]}
  BY ArWorkerCounts
<1>10. QED
  BY <1>8, <1>9, OwnStore DEF OwnInv

LEMMA OwnNext == TypeInv /\ CopiesAreHonest /\ OwnInv /\ [Next]_vars => OwnInv'
<1> SUFFICES ASSUME TypeInv, CopiesAreHonest, OwnInv, [Next]_vars PROVE OwnInv'
  OBVIOUS
<1>1. CASE Restart
  <2>1. AdcsKept /\ \A n \in Names : OwnWrite(n) /\ arCache'[n] \in {arCache[n], ars'[n]}
    BY <1>1 DEF Restart, storeVars, AdcsKept, OwnWrite
  <2>2. QED
    BY <1>1, <2>1, OwnStore, OwnIdle DEF Restart, OwnInv
<1>2. CASE \E k \in DOMAIN adcs : AdcsDecides(k)
  <2>1. AdcsKept /\ UNCHANGED <<kubeVars, arWork>>
    BY <1>2, KeptByDecision DEF AdcsDecides
  <2>2. \A n \in Names : OwnWrite(n) /\ arCache'[n] \in {arCache[n], ars'[n]}
    BY <2>1 DEF kubeVars, OwnWrite
  <2>3. QED
    BY <2>1, <2>2, OwnStore, OwnWork DEF OwnInv, arWork
<1>3. QED
  BY <1>1, <1>2, OwnOthers, OwnArWorker DEF Next

(***************************************************************************)
(* The ADCS id in a stored AdcsRequest is the id of a submission of this   *)
(* very object: no worker writes the id of a deleted AdcsRequest into its  *)
(* successor of the same name.                                             *)
(***************************************************************************)
THEOREM RecordedIds == Spec => []RecordedIdIsOwn
<1>1. Init => OwnInv
  BY NamesAssumption DEF Init, KubeInit, ArWorkInit, OwnInv, OwnId, NoAr
<1>2. TypeInv /\ CopiesAreHonest /\ OwnInv /\ [Next]_vars => OwnInv'
  BY OwnNext
<1>3. OwnInv => RecordedIdIsOwn
  BY DEF OwnInv, OwnId, RecordedIdIsOwn
<1>4. Spec => []TypeInv
  BY TypesAndIds, PTL DEF TypeInv
<1>5. QED
  BY <1>1, <1>2, <1>3, <1>4, Copies, PTL DEF Spec

(***************************************************************************)
(* The invariant behind SubmittedWasApproved: what is on its way to ADCS   *)
(* descends from an approved request, in the stores, in the caches and in  *)
(* the hands of the workers.                                               *)
(***************************************************************************)
CrApproved(n, cr) == cr.approved => <<n, cr.uid, cr.csr>> \in approvals
ArApproved(n, ar) == ar.live => <<n, ar.owner, ar.csr>> \in approvals

StoreApproved ==
    \A n \in Names :
        /\ CrApproved(n, crs[n]) /\ CrApproved(n, crCache[n])
        /\ ArApproved(n, ars[n]) /\ ArApproved(n, arCache[n])
CrWorkApproved ==
    crPc \in {"lookup", "delete", "create", "pending"} => <<crKey, crObj.uid, crObj.csr>> \in approvals
ArWorkApproved == arPc # "idle" => <<arKey, arObj.owner, arObj.csr>> \in approvals
AdcsApproved == \A k \in DOMAIN adcs : <<adcs[k].name, adcs[k].owner, adcs[k].csr>> \in approvals

ApprovedInv ==
    CheckApprovedCondition => StoreApproved /\ CrWorkApproved /\ ArWorkApproved /\ AdcsApproved

(* Where a stored object that a step leaves behind comes from. *)
CrOrigin(n) ==
    \/ ~crs'[n].approved
    \/ crs[n].approved /\ crs'[n].uid = crs[n].uid /\ crs'[n].csr = crs[n].csr
    \/ <<n, crs'[n].uid, crs'[n].csr>> \in approvals'
ArOrigin(n) ==
    \/ ~ars'[n].live
    \/ ars[n].live /\ ars'[n].owner = ars[n].owner /\ ars'[n].csr = ars[n].csr
    \/ <<n, ars'[n].owner, ars'[n].csr>> \in approvals'
Origins == approvals \subseteq approvals' /\ \A n \in Names : CrOrigin(n) /\ ArOrigin(n)

LEMMA StoreStaysApproved ==
    ASSUME StoreApproved, Origins,
           \A n \in Names : arCache'[n] \in {arCache[n], ars'[n]} /\ crCache'[n] \in {crCache[n], crs'[n]}
    PROVE  StoreApproved'
<1> SUFFICES ASSUME NEW n \in Names
             PROVE  /\ CrApproved(n, crs[n])' /\ CrApproved(n, crCache[n])'
                    /\ ArApproved(n, ars[n])' /\ ArApproved(n, arCache[n])'
  BY DEF StoreApproved
<1>1. CrApproved(n, crs[n])' /\ ArApproved(n, ars[n])'
  BY DEF StoreApproved, Origins, CrOrigin, ArOrigin, CrApproved, ArApproved
<1>2. CrApproved(n, crCache[n])' /\ ArApproved(n, arCache[n])'
  BY <1>1 DEF StoreApproved, Origins, CrApproved, ArApproved
<1>3. QED
  BY <1>1, <1>2

LEMMA UserOrigins ==
    ASSUME TypeInv, User
    PROVE  Origins /\ UNCHANGED <<adcs, crWork, arWork>>
<1> USE DEF TypeInv, TypeOK, KubeTypeOK
<1>1. ASSUME NEW n \in Names, CreateRequest(n) \/ DeleteRequest(n)
      PROVE  Origins /\ UNCHANGED <<adcs, crWork, arWork>>
  <2>1. ~DeletedCr(crs[n]).approved /\ \A csr, ref : ~NewCr(crs[n], csr, ref).approved
    BY DEF NewCr, DeletedCr, NoCr
  <2>2. PICK cr : StoreCr(n, cr) /\ ~cr.approved
    BY <1>1, <2>1 DEF CreateRequest, DeleteRequest
  <2>3. QED
    BY <1>1, <2>2 DEF StoreCr, CreateRequest, DeleteRequest, Origins, CrOrigin, ArOrigin
<1>2. ASSUME NEW n \in Names, Deny(n)
      PROVE  Origins /\ UNCHANGED <<adcs, crWork, arWork>>
  <2> DEFINE cr == [crs[n] EXCEPT !.denied = TRUE, !.rev = @ + 1]
  <2>1. StoreCr(n, cr) /\ UNCHANGED approvals
    BY <1>2 DEF Deny
  <2>2. cr.approved = crs[n].approved /\ cr.uid = crs[n].uid /\ cr.csr = crs[n].csr
    BY DEF CertificateRequest
  <2> HIDE DEF cr
  <2>3. QED
    BY <2>1, <2>2 DEF StoreCr, Origins, CrOrigin, ArOrigin
<1>3. ASSUME NEW n \in Names, Approve(n)
      PROVE  Origins /\ UNCHANGED <<adcs, crWork, arWork>>
  <2> DEFINE cr == [crs[n] EXCEPT !.approved = TRUE, !.rev = @ + 1]
  <2>1. StoreCr(n, cr) /\ approvals' = approvals \cup {<<n, crs[n].uid, crs[n].csr>>}
    BY <1>3 DEF Approve
  <2>2. cr.uid = crs[n].uid /\ cr.csr = crs[n].csr
    BY DEF CertificateRequest
  <2> HIDE DEF cr
  <2>3. QED
    BY <2>1, <2>2 DEF StoreCr, Origins, CrOrigin, ArOrigin
<1>4. ASSUME ConfigureIssuer \/ BreakIssuer
      PROVE  Origins /\ UNCHANGED <<adcs, crWork, arWork>>
  BY <1>4 DEF ConfigureIssuer, BreakIssuer, kubeVars, Origins, CrOrigin, ArOrigin
<1>5. QED
  BY <1>1, <1>2, <1>3, <1>4 DEF User

(* Status updates leave alone what an approval is about. *)
LEMMA UpdateOrigins ==
    ASSUME TypeInv, NEW n \in Names, NEW reply, UNCHANGED approvals
    PROVE  /\ \A obj \in CertificateRequest : UpdateCr(n, obj, reply) => \A m \in Names : CrOrigin(m)
           /\ \A obj \in AdcsRequest : UpdateAr(n, obj, reply) => \A m \in Names : ArOrigin(m)
<1> USE DEF TypeInv, TypeOK, KubeTypeOK
<1>1. ASSUME NEW obj \in CertificateRequest, UpdateCr(n, obj, reply) PROVE \A m \in Names : CrOrigin(m)
  <2> DEFINE w == WrittenCr(crs[n], obj)
  <2>1. w.approved = crs[n].approved /\ w.uid = crs[n].uid /\ w.csr = crs[n].csr
    BY DEF WrittenCr, Written, CertificateRequest
  <2>2. crs' \in {crs, [crs EXCEPT ![n] = w]}
    BY <1>1 DEF UpdateCr
  <2> HIDE DEF w
  <2>3. QED
    BY <2>1, <2>2 DEF CrOrigin
<1>2. ASSUME NEW obj \in AdcsRequest, UpdateAr(n, obj, reply) PROVE \A m \in Names : ArOrigin(m)
  <2> DEFINE w == WrittenAr(ars[n], obj)
  <2>1. w.live = ars[n].live /\ w.owner = ars[n].owner /\ w.csr = ars[n].csr
    BY DEF WrittenAr, Written, AdcsRequest
  <2>2. ars' \in {ars, [ars EXCEPT ![n] = w]}
    BY <1>2 DEF UpdateAr
  <2> HIDE DEF w
  <2>3. QED
    BY <2>1, <2>2 DEF ArOrigin
<1>3. QED
  BY <1>1, <1>2

LEMMA ClusterOrigins ==
    ASSUME TypeInv, Cluster
    PROVE  Origins
<1>1. /\ UNCHANGED <<crs, approvals>>
      /\ ars' = ars \/ \E n \in Names : ars' = [ars EXCEPT ![n] = DeletedAr(ars[n])]
  BY DEF Cluster, Others, SyncCr, SyncAr, CrTimerFires, ArTimerFires, Resync, GarbageCollect,
     crVars, arVars, storeVars
<1>2. QED
  BY <1>1 DEF Origins, CrOrigin, ArOrigin, DeletedAr, NoAr, TypeInv, TypeOK, KubeTypeOK

LEMMA CrWorkerOrigins ==
    ASSUME TypeInv, CrWorker, StoreApproved, CrWorkApproved, CheckApprovedCondition
    PROVE  Origins /\ CrWorkApproved'
<1> USE DEF TypeInv, TypeOK, KubeTypeOK, CrWorker, crVars, arVars
<1>1. ASSUME NEW ready \in ReadyReason, CrSetStatus(ready), crPc # "idle"
      PROVE  Origins /\ CrWorkApproved'
  <2>1. [crObj EXCEPT !.ready = ready] \in CertificateRequest /\ crKey \in Names
    BY <1>1, CrField DEF CrWorkTypeOK
  <2>2. PICK reply : UpdateCr(crKey, [crObj EXCEPT !.ready = ready], reply)
    BY <1>1 DEF CrSetStatus
  <2>3. \A m \in Names : CrOrigin(m)
    BY <2>1, <2>2, UpdateOrigins
  <2>4. QED
    BY <1>1, <2>3 DEF CrSetStatus, CrFail, CrDone, Origins, ArOrigin, CrWorkApproved
<1>2. CASE CrDeny \/ CrSetPending
  BY <1>1, <1>2 DEF CrDeny, CrSetPending, ReadyReason
<1>3. CASE CrLookup
  BY <1>3 DEF CrLookup, CrDone, CrGoto, kubeVars, Origins, CrOrigin, ArOrigin, CrWorkApproved
<1>4. CASE CrDelete
  <2>1. ars' = ars \/ (crKey \in Names /\ ars' = [ars EXCEPT ![crKey] = DeletedAr(ars[crKey])])
    BY <1>4 DEF CrDelete, CrWorkTypeOK
  <2>2. ~DeletedAr(ars[crKey]).live
    BY DEF DeletedAr, NoAr
  <2>3. QED
    BY <1>4, <2>1, <2>2 DEF CrDelete, CrGoto, Origins, CrOrigin, ArOrigin, CrWorkApproved
<1>5. CASE CrCreate
  <2>1. <<crKey, crObj.uid, crObj.csr>> \in approvals
    BY <1>5 DEF CrCreate, CrWorkApproved
  <2>2. ars' = ars \/ (crKey \in Names /\ ars' = [ars EXCEPT ![crKey] = NewAr(ars[crKey], crObj)])
    BY <1>5 DEF CrCreate, Created, CrWorkTypeOK
  <2>3. NewAr(ars[crKey], crObj).owner = crObj.uid /\ NewAr(ars[crKey], crObj).csr = crObj.csr
    BY DEF NewAr
  <2>4. CrWorkApproved'
    BY <1>5, <2>1 DEF CrCreate, CrGoto, CrFail, CrDone, CrWorkApproved
  <2>5. QED
    BY <1>5, <2>1, <2>2, <2>3, <2>4 DEF CrCreate, Origins, CrOrigin, ArOrigin
<1>6. ASSUME NEW n \in Names, CrTake(n)
      PROVE  Origins /\ CrWorkApproved'
  <2>1. Origins
    BY <1>6 DEF CrTake, Origins, CrOrigin, ArOrigin
  <2>2. ~Ignored(crCache[n]) /\ ~crCache[n].denied => <<n, crCache[n].uid, crCache[n].csr>> \in approvals
    BY DEF Ignored, StoreApproved, CrApproved
  <2>3. CrWorkApproved'
    BY <1>6, <2>2 DEF CrTake, GetCertificateRequest, crWork, CrWorkApproved
  <2>4. QED
    BY <2>1, <2>3
<1>7. QED
  BY <1>2, <1>3, <1>4, <1>5, <1>6 DEF CrStep, CrCalls

LEMMA SubmitApproved ==
    ASSUME TypeInv, AdcsApproved, UNCHANGED approvals, NEW n, NEW ar, NEW disp, Submit(n, ar, disp),
           <<n, ar.owner, ar.csr>> \in approvals
    PROVE  AdcsApproved'
<1> DEFINE k == Len(adcs) + 1
<1>1. /\ AdcsKept /\ \A j \in DOMAIN adcs' : j \in DOMAIN adcs \/ j = k
      /\ adcs'[k] = [name |-> n, uid |-> ar.uid, owner |-> ar.owner, csr |-> ar.csr, disp |-> disp]
  BY KeptByAppend
<1> HIDE DEF k
<1>2. adcs'[k].name = n /\ adcs'[k].owner = ar.owner /\ adcs'[k].csr = ar.csr
  BY <1>1
<1>3. ASSUME NEW j \in DOMAIN adcs'
      PROVE  <<adcs'[j].name, adcs'[j].owner, adcs'[j].csr>> \in approvals
  <2>1. CASE j \in DOMAIN adcs
    BY <1>1, <2>1 DEF AdcsApproved, AdcsKept
  <2>2. CASE j = k
    BY <1>2, <2>2
  <2>3. QED
    BY <1>1, <1>3, <2>1, <2>2
<1>4. QED
  BY <1>3 DEF AdcsApproved

LEMMA ArWorkerOrigins ==
    ASSUME TypeInv, ArWorker, StoreApproved, ArWorkApproved, AdcsApproved
    PROVE  Origins /\ ArWorkApproved' /\ AdcsApproved'
<1> USE DEF TypeInv, TypeOK, KubeTypeOK, ArWorker, crVars
<1>1. Origins
  <2>1. CASE ArSetAr
    <3>1. arKey \in Names /\ arObj \in AdcsRequest
      BY <2>1 DEF ArSetAr, ArWorkTypeOK
    <3>2. QED
      BY <2>1, <3>1, UpdateOrigins DEF ArSetAr, Origins, CrOrigin
  <2>2. CASE ArSetCr
    <3>1. arKey \in Names /\ WithOutcome(arCr, arObj, arCert) \in CertificateRequest
      BY <2>2, OutcomeType DEF ArSetCr, ArWorkTypeOK
    <3>2. QED
      BY <2>2, <3>1, UpdateOrigins DEF ArSetCr, Origins, ArOrigin
  <2>3. CASE UNCHANGED <<crs, ars>>
    BY <2>3 DEF Origins, CrOrigin, ArOrigin
  <2>4. QED
    BY <2>1, <2>2, <2>3 DEF ArStep, ArCalls, ArTake, ArGetIssuer, ArSubmit, ArFetch, ArChain, ArGetCr
<1>2. ArWorkApproved'
  <2>1. CASE arKey' = NoName
    BY <2>1, TypeArWorker DEF ArWorkApproved, ArWorkTypeOK
  <2>2. CASE arKey' = arKey /\ SpecOf(arObj') = SpecOf(arObj)
    <3>1. arObj'.owner = arObj.owner /\ arObj'.csr = arObj.csr
      BY <2>2 DEF SpecOf
    <3>2. arPc' # "idle" => arPc # "idle"
      BY <2>2, TypeArWorker DEF ArWorkTypeOK
    <3>3. QED
      BY <2>2, <3>1, <3>2 DEF ArWorkApproved
  <2>3. CASE arKey' \in Names /\ arObj' = arCache[arKey'] /\ arObj'.live
    BY <2>3 DEF ArWorkApproved, StoreApproved, ArApproved
  <2>4. QED
    BY <2>1, <2>2, <2>3, ArWorkerCounts
<1>3. AdcsApproved'
  <2>1. CASE \E disp : Submit(arKey, arObj, disp) /\ ArSubmit
    <3>1. PICK disp : Submit(arKey, arObj, disp)
      BY <2>1
    <3>2. <<arKey, arObj.owner, arObj.csr>> \in approvals
      BY <2>1 DEF ArSubmit, ArWorkApproved
    <3>3. QED
      BY <3>1, <3>2, SubmitApproved
  <2>2. CASE UNCHANGED adcs
    BY <2>2 DEF AdcsApproved
  <2>3. QED
    BY <2>1, <2>2 DEF ArStep, ArCalls, ArTake, ArGetIssuer, ArSubmit, SubmissionFails, ArFetch, ArChain,
       ArGetCr, ArSetCr, ArSetAr
<1>4. QED
  BY <1>1, <1>2, <1>3

LEMMA ApprovedNext == TypeInv /\ ApprovedInv /\ [Next]_vars => ApprovedInv'
<1> SUFFICES ASSUME TypeInv, [Next]_vars, CheckApprovedCondition,
                    StoreApproved, CrWorkApproved, ArWorkApproved, AdcsApproved
             PROVE  StoreApproved' /\ CrWorkApproved' /\ ArWorkApproved' /\ AdcsApproved'
  BY DEF ApprovedInv
<1>1. ASSUME Origins, UNCHANGED adcs
      PROVE  /\ UNCHANGED crWork => CrWorkApproved'
             /\ UNCHANGED arWork => ArWorkApproved'
             /\ AdcsApproved'
  BY <1>1 DEF Origins, crWork, arWork, CrWorkApproved, ArWorkApproved, AdcsApproved
<1>2. CASE User
  BY <1>1, <1>2, UserOrigins, UserCounts, StoreStaysApproved
<1>3. CASE Cluster
  <2>1. Origins /\ UNCHANGED <<adcs, crWork, arWork>>
    BY <1>3, ClusterOrigins DEF Cluster, Others
  <2>2. QED
    BY <1>1, <1>3, <2>1, ClusterCounts, StoreStaysApproved
<1>4. CASE CrWorker
  BY <1>1, <1>4, CrWorkerOrigins, CrWorkerCounts, StoreStaysApproved DEF CrWorker
<1>5. CASE ArWorker
  BY <1>5, ArWorkerOrigins, ArWorkerCounts, StoreStaysApproved
     DEF ArWorker, crWork, CrWorkApproved
<1>6. CASE Restart
  <2>1. Origins /\ UNCHANGED adcs
    BY <1>6 DEF Restart, storeVars, Origins, CrOrigin, ArOrigin
  <2>2. \A n \in Names : arCache'[n] \in {arCache[n], ars'[n]} /\ crCache'[n] \in {crCache[n], crs'[n]}
    BY <1>6 DEF Restart, storeVars
  <2>3. CrWorkApproved' /\ ArWorkApproved'
    BY <1>6 DEF Restart, ArDone, CrWorkApproved, ArWorkApproved
  <2>4. QED
    BY <1>1, <2>1, <2>2, <2>3, StoreStaysApproved
<1>7. CASE \E k \in DOMAIN adcs : AdcsDecides(k)
  <2>1. /\ AdcsKept /\ DOMAIN adcs' = DOMAIN adcs
        /\ UNCHANGED <<kubeVars, crWork, arWork, approvals>>
    BY <1>7, KeptByDecision DEF AdcsDecides
  <2>2. AdcsApproved'
    BY <2>1 DEF AdcsApproved, AdcsKept
  <2>3. StoreApproved'
    BY <2>1 DEF kubeVars, StoreApproved, CrApproved, ArApproved
  <2>4. QED
    BY <2>1, <2>2, <2>3 DEF crWork, arWork, CrWorkApproved, ArWorkApproved
<1>8. CASE UNCHANGED vars
  BY <1>8 DEF vars, kubeVars, crWork, arWork, StoreApproved, CrApproved, ArApproved,
     CrWorkApproved, ArWorkApproved, AdcsApproved
<1>9. QED
  BY <1>2, <1>3, <1>4, <1>5, <1>6, <1>7, <1>8 DEF Next

(***************************************************************************)
(* With the approval check, ADCS gets nothing but the CSRs of approved     *)
(* requests, as they were approved.                                        *)
(***************************************************************************)
THEOREM OnlyApproved == Spec => []SubmittedWasApproved
<1>1. Init => ApprovedInv
  BY DEF Init, KubeInit, CrWorkInit, ArWorkInit, ApprovedInv, StoreApproved, CrApproved, ArApproved,
     CrWorkApproved, ArWorkApproved, AdcsApproved, NoCr, NoAr
<1>2. TypeInv /\ ApprovedInv /\ [Next]_vars => ApprovedInv'
  BY ApprovedNext
<1>3. ApprovedInv => SubmittedWasApproved
  BY DEF ApprovedInv, AdcsApproved, SubmittedWasApproved
<1>4. Spec => []TypeInv
  BY TypesAndIds, PTL DEF TypeInv
<1>5. QED
  BY <1>1, <1>2, <1>3, <1>4, PTL DEF Spec
-----------------------------------------------------------------------------
(***************************************************************************)
(* The invariant behind AnswerIsFromAdcs: what the copies of the two       *)
(* objects and the workers say was decided in ADCS too.  The operators     *)
(* have the submissions as an argument, so that they can be compared       *)
(* before and after a step.                                                *)
(***************************************************************************)
Answer == {"Issued", "Rejected", "Failed"}
DecidedAs(subs, n, disp) == \E k \in DOMAIN subs : subs[k].name = n /\ subs[k].disp = disp
CertOf(subs, n, k) == k \in DOMAIN subs /\ subs[k].name = n /\ subs[k].disp = "Issued"

CrBacked(subs, n, cr) ==
    /\ cr.ready \in Answer => DecidedAs(subs, n, DispOf(cr.ready))
    /\ cr.cert # 0 => CertOf(subs, n, cr.cert)
ArBacked(subs, n, ar) == Final(ar) => DecidedAs(subs, n, DispOf(OutcomeOf(ar.state)))

StoreBacked ==
    \A n \in Names :
        /\ CrBacked(adcs, n, crs[n]) /\ CrBacked(adcs, n, crCache[n])
        /\ ArBacked(adcs, n, ars[n]) /\ ArBacked(adcs, n, arCache[n])
CrWorkBacked == crKey # NoName => CrBacked(adcs, crKey, crObj)
ArWorkBacked ==
    /\ arKey # NoName => ArBacked(adcs, arKey, arObj)
    /\ arCert # 0 => arKey # NoName /\ CertOf(adcs, arKey, arCert)
    /\ arPc = "setCR" => CrBacked(adcs, arKey, arCr)

BackedInv == StoreBacked /\ CrWorkBacked /\ ArWorkBacked

(* Submissions keep their name and what was decided about them. *)
Grown(old, new) ==
    \A k \in DOMAIN old :
        /\ k \in DOMAIN new /\ new[k].name = old[k].name
        /\ old[k].disp # "Pending" => new[k].disp = old[k].disp

LEMMA BackedStays ==
    ASSUME NEW old, NEW new, Grown(old, new), NEW n
    PROVE  /\ \A cr : CrBacked(old, n, cr) => CrBacked(new, n, cr)
           /\ \A ar : ArBacked(old, n, ar) => ArBacked(new, n, ar)
           /\ \A k : CertOf(old, n, k) => CertOf(new, n, k)
<1>1. ASSUME NEW disp, disp # "Pending", DecidedAs(old, n, disp) PROVE DecidedAs(new, n, disp)
  BY <1>1 DEF DecidedAs, Grown
<1>2. \A k : CertOf(old, n, k) => CertOf(new, n, k)
  BY DEF CertOf, Grown
<1>3. \A ready \in Answer : DispOf(ready) # "Pending"
  BY DEF Answer, DispOf
<1>4. \A ar : OutcomeOf(ar.state) \in Answer
  BY DEF OutcomeOf, Answer
<1>5. QED
  BY <1>1, <1>2, <1>3, <1>4 DEF CrBacked, ArBacked

(* The page of a submission gives its verdict; an exchange that goes wrong gives none. *)
Verdict(status, disp) ==
    status \in {"Ready", "Rejected", "Errored"} => disp = DispOf(OutcomeOf(status))

LEMMA PageVerdict ==
    ASSUME NEW k, NEW res, res = GetExistingCertificate(DispositionPage(k), k),
           adcs[k].disp \in {"Issued", "Denied", "Error", "Pending"}
    PROVE  Verdict(res.status, adcs[k].disp)
<1> USE DEF Verdict, DispOf, OutcomeOf
<1>1. CASE adcs[k].disp = "Issued"
  <2>1. DispositionPage(k) = CertificatePage
    BY <1>1 DEF DispositionPage
  <2>2. GetExistingCertificate(CertificatePage, k).status = "Ready"
    BY DEF GetExistingCertificate, CertificatePage, Served, Obtained
  <2>3. QED
    BY <1>1, <2>1, <2>2
<1>2. CASE adcs[k].disp = "Denied"
  <2>1. DispositionPage(k) = HtmlPage({"Disposition message", "Denied by"}, k)
    BY <1>2 DEF DispositionPage
  <2>2. GetExistingCertificate(HtmlPage({"Disposition message", "Denied by"}, k), k).status = "Rejected"
    BY DEF GetExistingCertificate, HtmlPage, Served, Disposition, Classified
  <2>3. QED
    BY <1>2, <2>1, <2>2
<1>3. CASE adcs[k].disp = "Error"
  <2>1. DispositionPage(k) = HtmlPage({"Disposition message"}, k)
    BY <1>3 DEF DispositionPage
  <2>2. GetExistingCertificate(HtmlPage({"Disposition message"}, k), k).status = "Errored"
    BY DEF GetExistingCertificate, HtmlPage, Served, Disposition, Classified
  <2>3. QED
    BY <1>3, <2>1, <2>2
<1>4. CASE adcs[k].disp = "Pending"
  <2>1. DispositionPage(k) = HtmlPage({"Disposition message", "Taken Under Submission"}, k)
    BY <1>4 DEF DispositionPage
  <2>2. GetExistingCertificate(HtmlPage({"Disposition message", "Taken Under Submission"}, k), k).status
          = "Pending"
    BY DEF GetExistingCertificate, HtmlPage, Served, Disposition, Classified
  <2>3. QED
    BY <1>4, <2>1, <2>2
<1>5. QED
  BY <1>1, <1>2, <1>3, <1>4

LEMMA FaultsDecideNothing ==
    \A reply \in FaultReplies :
        /\ ~AnsweredAtOnce(reply)
        /\ \A k : GetExistingCertificate(reply, k).err # "none"
<1>1. /\ GetExistingCertificate(NoReply, 0).err # "none" /\ ~AnsweredAtOnce(NoReply)
      /\ ~AnsweredAtOnce(ServerError) /\ ~AnsweredAtOnce(HtmlPage({}, 0))
  BY DEF GetExistingCertificate, NoReply, ServerError, HtmlPage, Served, Failed, AnsweredAtOnce
<1>2. ASSUME NEW k PROVE GetExistingCertificate(NoReply, k).err # "none"
  BY DEF GetExistingCertificate, NoReply, Served, Failed
<1>3. ASSUME NEW k PROVE GetExistingCertificate(ServerError, k).err # "none"
  BY DEF GetExistingCertificate, ServerError, HtmlPage, Served, Failed
<1>4. ASSUME NEW k PROVE GetExistingCertificate(HtmlPage({}, 0), k).err # "none"
  BY DEF GetExistingCertificate, HtmlPage, Served, Disposition, Failed
<1>5. QED
  BY <1>1, <1>2, <1>3, <1>4 DEF FaultReplies

(* Stores and caches stay backed when what is written is. *)
BackedWrites ==
    \A n \in Names :
        /\ crs'[n] = crs[n] \/ CrBacked(adcs', n, crs'[n])
        /\ ars'[n] = ars[n] \/ ArBacked(adcs', n, ars'[n])
Delivered ==
    \A n \in Names : arCache'[n] \in {arCache[n], ars'[n]} /\ crCache'[n] \in {crCache[n], crs'[n]}

LEMMA StoreStaysBacked ==
    ASSUME StoreBacked, Grown(adcs, adcs'), BackedWrites, Delivered
    PROVE  StoreBacked'
<1> SUFFICES ASSUME NEW n \in Names
             PROVE  /\ CrBacked(adcs', n, crs'[n]) /\ CrBacked(adcs', n, crCache'[n])
                    /\ ArBacked(adcs', n, ars'[n]) /\ ArBacked(adcs', n, arCache'[n])
  BY DEF StoreBacked
<1>1. /\ CrBacked(adcs', n, crs[n]) /\ CrBacked(adcs', n, crCache[n])
      /\ ArBacked(adcs', n, ars[n]) /\ ArBacked(adcs', n, arCache[n])
  BY BackedStays DEF StoreBacked
<1>2. CrBacked(adcs', n, crs'[n]) /\ ArBacked(adcs', n, ars'[n])
  BY <1>1 DEF BackedWrites
<1>3. QED
  BY <1>1, <1>2 DEF Delivered

LEMMA WorkersStayBacked ==
    ASSUME CrWorkBacked, ArWorkBacked, Grown(adcs, adcs')
    PROVE  /\ UNCHANGED crWork => CrWorkBacked'
           /\ UNCHANGED arWork => ArWorkBacked'
BY BackedStays DEF CrWorkBacked, ArWorkBacked, crWork, arWork

(* New and deleted objects say nothing, and a status update says what it is given. *)
LEMMA BackedObjects ==
    ASSUME NEW subs, NEW n
    PROVE  /\ CrBacked(subs, n, NoCr) /\ ArBacked(subs, n, NoAr)
           /\ \A old, csr, ref : CrBacked(subs, n, NewCr(old, csr, ref))
           /\ \A old : CrBacked(subs, n, DeletedCr(old)) /\ ArBacked(subs, n, DeletedAr(old))
           /\ \A old, cr : ArBacked(subs, n, NewAr(old, cr))
           /\ \A old, obj \in CertificateRequest :
                  CrBacked(subs, n, obj) => CrBacked(subs, n, WrittenCr(old, obj))
           /\ \A old, obj \in AdcsRequest :
                  ArBacked(subs, n, obj) => ArBacked(subs, n, WrittenAr(old, obj))
<1> USE DEF CrBacked, ArBacked, Answer, Final
<1>1. CrBacked(subs, n, NoCr) /\ ArBacked(subs, n, NoAr)
  BY DEF NoCr, NoAr
<1>2. \A old, csr, ref : CrBacked(subs, n, NewCr(old, csr, ref))
  BY DEF NewCr
<1>3. \A old : CrBacked(subs, n, DeletedCr(old)) /\ ArBacked(subs, n, DeletedAr(old))
  BY DEF DeletedCr, DeletedAr, NoCr, NoAr
<1>4. \A old, cr : ArBacked(subs, n, NewAr(old, cr))
  BY DEF NewAr
<1>5. ASSUME NEW old \in CertificateRequest, NEW obj \in CertificateRequest
      PROVE  WrittenCr(old, obj).ready = obj.ready /\ WrittenCr(old, obj).cert = obj.cert
  BY DEF WrittenCr, Written, CertificateRequest
<1>6. ASSUME NEW old \in AdcsRequest, NEW obj \in AdcsRequest
      PROVE  WrittenAr(old, obj).state = obj.state
  BY DEF WrittenAr, Written, AdcsRequest
<1>7. QED
  BY <1>1, <1>2, <1>3, <1>4, <1>5, <1>6

LEMMA UpdateBacked ==
    ASSUME TypeInv, NEW n \in Names, NEW reply
    PROVE  /\ \A obj \in CertificateRequest :
                  UpdateCr(n, obj, reply) /\ CrBacked(adcs', n, obj) =>
                      \A m \in Names : crs'[m] = crs[m] \/ CrBacked(adcs', m, crs'[m])
           /\ \A obj \in AdcsRequest :
                  UpdateAr(n, obj, reply) /\ ArBacked(adcs', n, obj) =>
                      \A m \in Names : ars'[m] = ars[m] \/ ArBacked(adcs', m, ars'[m])
<1> USE DEF TypeInv, TypeOK, KubeTypeOK
<1>1. ASSUME NEW obj \in CertificateRequest, UpdateCr(n, obj, reply), CrBacked(adcs', n, obj)
      PROVE  \A m \in Names : crs'[m] = crs[m] \/ CrBacked(adcs', m, crs'[m])
  <2>1. CrBacked(adcs', n, WrittenCr(crs[n], obj))
    BY <1>1, BackedObjects
  <2>2. crs' \in {crs, [crs EXCEPT ![n] = WrittenCr(crs[n], obj)]}
    BY <1>1 DEF UpdateCr
  <2>3. QED
    BY <2>1, <2>2
<1>2. ASSUME NEW obj \in AdcsRequest, UpdateAr(n, obj, reply), ArBacked(adcs', n, obj)
      PROVE  \A m \in Names : ars'[m] = ars[m] \/ ArBacked(adcs', m, ars'[m])
  <2>1. ArBacked(adcs', n, WrittenAr(ars[n], obj))
    BY <1>2, BackedObjects
  <2>2. ars' \in {ars, [ars EXCEPT ![n] = WrittenAr(ars[n], obj)]}
    BY <1>2 DEF UpdateAr
  <2>3. QED
    BY <2>1, <2>2
<1>3. QED
  BY <1>1, <1>2

LEMMA UserBacked ==
    ASSUME TypeInv, BackedInv, User
    PROVE  BackedWrites /\ UNCHANGED <<adcs, crWork, arWork>>
<1> USE DEF TypeInv, TypeOK, KubeTypeOK
<1>1. ASSUME NEW n \in Names, NEW cr, StoreCr(n, cr), CrBacked(adcs, n, cr)
      PROVE  BackedWrites /\ UNCHANGED <<adcs, crWork, arWork>>
  BY <1>1 DEF StoreCr, BackedWrites
<1>2. ASSUME NEW n \in Names, CreateRequest(n) \/ DeleteRequest(n)
      PROVE  BackedWrites /\ UNCHANGED <<adcs, crWork, arWork>>
  BY <1>1, <1>2, BackedObjects DEF CreateRequest, DeleteRequest
<1>3. ASSUME NEW n \in Names, Approve(n) \/ Deny(n)
      PROVE  BackedWrites /\ UNCHANGED <<adcs, crWork, arWork>>
  <2>1. PICK cr : StoreCr(n, cr) /\ cr.ready = crs[n].ready /\ cr.cert = crs[n].cert
    <3>1. crs[n] \in CertificateRequest
      OBVIOUS
    <3> DEFINE a == [crs[n] EXCEPT !.approved = TRUE, !.rev = @ + 1]
               d == [crs[n] EXCEPT !.denied = TRUE, !.rev = @ + 1]
    <3>2. a.ready = crs[n].ready /\ a.cert = crs[n].cert /\ d.ready = crs[n].ready /\ d.cert = crs[n].cert
      BY <3>1 DEF CertificateRequest
    <3>3. StoreCr(n, a) \/ StoreCr(n, d)
      BY <1>3 DEF Approve, Deny
    <3> HIDE DEF a, d
    <3>4. QED
      BY <3>2, <3>3
  <2>2. CrBacked(adcs, n, crs[n])
    BY DEF BackedInv, StoreBacked
  <2>3. QED
    BY <1>1, <2>1, <2>2 DEF CrBacked
<1>4. ASSUME ConfigureIssuer \/ BreakIssuer
      PROVE  BackedWrites /\ UNCHANGED <<adcs, crWork, arWork>>
  BY <1>4 DEF ConfigureIssuer, BreakIssuer, kubeVars, BackedWrites
<1>5. QED
  BY <1>2, <1>3, <1>4 DEF User

LEMMA CrWorkerBacked ==
    ASSUME TypeInv, BackedInv, CrWorker
    PROVE  BackedWrites /\ CrWorkBacked'
<1> USE DEF TypeInv, TypeOK, KubeTypeOK, CrWorker, crVars, arVars
<1>1. ASSUME NEW ready \in {"Denied", "Processing"}, CrSetStatus(ready), crPc # "idle"
      PROVE  BackedWrites /\ CrWorkBacked'
  <2> DEFINE obj == [crObj EXCEPT !.ready = ready]
  <2>1. obj \in CertificateRequest /\ crKey \in Names /\ crObj \in CertificateRequest
    BY <1>1, CrField DEF CrWorkTypeOK, ReadyReason
  <2>2. obj.ready = ready /\ obj.cert = crObj.cert
    BY <2>1 DEF CertificateRequest
  <2>3. PICK reply : UpdateCr(crKey, obj, reply)
    BY <1>1 DEF CrSetStatus
  <2> HIDE DEF obj
  <2>4. CrBacked(adcs', crKey, obj)
    BY <2>1, <2>2, NamesAssumption DEF BackedInv, CrWorkBacked, CrBacked, Answer
  <2>5. \A m \in Names : crs'[m] = crs[m] \/ CrBacked(adcs', m, crs'[m])
    BY <2>1, <2>3, <2>4, UpdateBacked
  <2>6. QED
    BY <1>1, <2>5 DEF CrSetStatus, CrFail, CrDone, BackedWrites, CrWorkBacked
<1>2. CASE CrDeny \/ CrSetPending
  BY <1>1, <1>2 DEF CrDeny, CrSetPending
<1>3. CASE CrLookup \/ CrDelete \/ CrCreate
  <2>1. CrWorkBacked'
    BY <1>3 DEF CrLookup, CrDelete, CrCreate, CrDone, CrGoto, CrFail, BackedInv, CrWorkBacked
  <2>2. crs' = crs
    BY <1>3 DEF CrLookup, CrDelete, CrCreate, kubeVars
  <2>3. \/ ars' = ars
        \/ ars' = [ars EXCEPT ![crKey] = DeletedAr(ars[crKey])]
        \/ ars' = [ars EXCEPT ![crKey] = NewAr(ars[crKey], crObj)]
    BY <1>3 DEF CrLookup, CrDelete, CrCreate, kubeVars, Created
  <2>4. ASSUME NEW m \in Names PROVE ars'[m] = ars[m] \/ ArBacked(adcs', m, ars'[m])
    <3>1. /\ ArBacked(adcs', m, DeletedAr(ars[crKey]))
          /\ ArBacked(adcs', m, NewAr(ars[crKey], crObj))
      BY BackedObjects
    <3>2. QED
      BY <2>3, <3>1
  <2>5. QED
    BY <2>1, <2>2, <2>4 DEF BackedWrites
<1>4. ASSUME NEW n \in Names, CrTake(n) PROVE BackedWrites /\ CrWorkBacked'
  <2>1. UNCHANGED crWork \/ (crKey' = n /\ crObj' = crCache[n])
    BY <1>4 DEF CrTake, GetCertificateRequest
  <2>2. CrWorkBacked'
    BY <1>4, <2>1 DEF BackedInv, StoreBacked, CrWorkBacked, crWork
  <2>3. QED
    BY <1>4, <2>2 DEF CrTake, BackedWrites
<1>5. QED
  BY <1>2, <1>3, <1>4 DEF CrStep, CrCalls

(* What Issue has in memory after a result. *)
LEMMA BackedIssued ==
    ASSUME TypeInv, BackedInv, arKey # NoName, Grown(adcs, adcs'), NEW status, NEW id, NEW cert,
           Issued(status, id, cert),
           status \in {"Ready", "Rejected", "Errored"} => DecidedAs(adcs', arKey, DispOf(OutcomeOf(status))),
           cert # 0 => CertOf(adcs', arKey, cert)
    PROVE  ArWorkBacked'
<1>1. arObj'.state = status /\ arKey' = arKey /\ arPc' = "chain" /\ arCert' = cert
  BY DEF Issued, TypeInv, TypeOK, ArWorkTypeOK, AdcsRequest
<1>2. QED
  BY <1>1 DEF ArWorkBacked, ArBacked, Final

LEMMA BackedSubmit ==
    ASSUME TypeInv, BackedInv, ArSubmit
    PROVE  Grown(adcs, adcs') /\ ArWorkBacked'
<1> arKey # NoName
  BY DEF ArSubmit, TypeInv, TypeOK, ArWorkTypeOK
<1>1. CASE SubmissionFails
  BY <1>1 DEF SubmissionFails, ArRetry, ArDone, Grown, ArWorkBacked
<1>2. CASE ~SubmissionFails
  <2> DEFINE k == Len(adcs) + 1
  <2>1. PICK disp \in Verdicts \cup {"Pending"} :
          /\ Submit(arKey, arObj, disp)
          /\ \/ \E post \in SubmissionAnswers(k, disp) : Posted(post, k)
             \/ \E post \in FaultReplies : Posted(post, k)
    BY <1>2 DEF ArSubmit
  <2>2. /\ Grown(adcs, adcs') /\ k \in DOMAIN adcs'
        /\ adcs'[k].name = arKey /\ adcs'[k].disp = disp
    <3> DEFINE new == [name |-> arKey, uid |-> arObj.uid, owner |-> arObj.owner,
                       csr |-> arObj.csr, disp |-> disp]
    <3>1. adcs \in Seq(Submission(Names, Csrs \cup {NoCsr})) /\ adcs' = Append(adcs, new)
      BY <2>1 DEF TypeInv, TypeOK, AdcsTypeOK, Submit
    <3>2. new.name = arKey /\ new.disp = disp
      OBVIOUS
    <3> HIDE DEF new
    <3>3. \A i \in DOMAIN adcs : i \in DOMAIN adcs' /\ adcs'[i] = adcs[i]
      BY <3>1
    <3>4. k \in DOMAIN adcs' /\ adcs'[k] = new
      BY <3>1
    <3>5. QED
      BY <3>2, <3>3, <3>4 DEF Grown
  <2> HIDE DEF k
  <2>3. k # 0
    BY DEF k, TypeInv, TypeOK, AdcsTypeOK
  <2>4. PICK post : Posted(post, k) /\ (AnsweredAtOnce(post) => disp = "Issued")
    <3>1. ~AnsweredAtOnce(HtmlPage({}, k))
      BY DEF AnsweredAtOnce, HtmlPage
    <3>2. QED
      BY <2>1, <3>1, FaultsDecideNothing DEF SubmissionAnswers
  <2>5. CASE AnsweredAtOnce(post) /\ Issued("Ready", IdNone, k)
    <3>1. CertOf(adcs', arKey, k) /\ DecidedAs(adcs', arKey, "Issued")
      BY <2>2, <2>4, <2>5 DEF CertOf, DecidedAs
    <3>2. DispOf(OutcomeOf("Ready")) = "Issued"
      BY DEF DispOf, OutcomeOf
    <3>3. QED
      BY <2>2, <2>5, <3>1, <3>2, BackedIssued
  <2>6. CASE arPc' = "fetch" /\ UNCHANGED <<arKey, arObj, arCert>>
    BY <2>2, <2>6, BackedStays DEF BackedInv, ArWorkBacked
  <2>7. CASE ArRetry
    BY <2>2, <2>7 DEF ArRetry, ArDone, ArWorkBacked
  <2>8. QED
    BY <2>4, <2>5, <2>6, <2>7 DEF Posted
<1>3. QED
  BY <1>1, <1>2

LEMMA BackedFetch ==
    ASSUME TypeInv, OwnInv, BackedInv, ArFetch
    PROVE  ArWorkBacked'
<1> DEFINE page == DispositionPage(arId)
<1>1. arKey # NoName /\ arId \in DOMAIN adcs /\ adcs[arId].name = arKey
  BY DEF ArFetch, OwnInv, IsOwn, TypeInv, TypeOK, ArWorkTypeOK
<1>2. adcs[arId].disp \in {"Issued", "Denied", "Error", "Pending"}
  <2>1. adcs[arId] \in Submission(Names, Csrs \cup {NoCsr})
    BY <1>1 DEF TypeInv, TypeOK, AdcsTypeOK
  <2>2. QED
    BY <2>1, SubmissionsAssumption DEF Submission
<1>3. Grown(adcs, adcs')
  BY DEF ArFetch, Grown
<1>4. CASE ArRetry
  BY <1>4 DEF ArRetry, ArDone, ArWorkBacked
<1>5. CASE ~ArRetry
  <2>1. PICK reply : Fetched(reply) /\ (reply = page \/ reply \in FaultReplies)
    BY DEF ArFetch
  <2>2. PICK res : /\ res = GetExistingCertificate(reply, arId)
                   /\ res.err = "none"
                   /\ Issued(res.status, res.id, IF res.status = "Ready" THEN arId ELSE 0)
    BY <1>5, <2>1 DEF Fetched
  <2>3. reply = page
    BY <2>1, <2>2, FaultsDecideNothing
  <2>4. Verdict(res.status, adcs[arId].disp)
    BY <1>2, <2>2, <2>3, PageVerdict
  <2>5. res.status \in {"Ready", "Rejected", "Errored"} =>
          DecidedAs(adcs', arKey, DispOf(OutcomeOf(res.status)))
    BY <1>1, <2>4 DEF Verdict, DecidedAs, ArFetch
  <2>6. res.status = "Ready" => CertOf(adcs', arKey, arId)
    BY <1>1, <2>4 DEF Verdict, CertOf, ArFetch, DispOf, OutcomeOf
  <2> DEFINE cert == IF res.status = "Ready" THEN arId ELSE 0
  <2>7. cert # 0 => CertOf(adcs', arKey, cert)
    BY <2>6
  <2>8. Issued(res.status, res.id, cert)
    BY <2>2
  <2> HIDE DEF cert
  <2>9. QED
    BY <1>1, <1>3, <2>5, <2>7, <2>8, BackedIssued
<1>6. QED
  BY <1>4, <1>5

LEMMA BackedArWorker ==
    ASSUME TypeInv, OwnInv, BackedInv, ArWorker
    PROVE  Grown(adcs, adcs') /\ BackedWrites /\ ArWorkBacked'
<1> USE DEF TypeInv, TypeOK, KubeTypeOK, ArWorker, crVars
<1>1. UNCHANGED adcs => Grown(adcs, adcs')
  BY DEF Grown
<1>2. UNCHANGED <<crs, ars>> => BackedWrites
  BY DEF BackedWrites
<1>3. ArRetry \/ ArDone => ArWorkBacked'
  BY DEF ArRetry, ArDone, ArWorkBacked
<1>4. CASE ArSubmit
  BY <1>2, <1>4, BackedSubmit DEF ArSubmit
<1>5. CASE ArFetch
  BY <1>1, <1>2, <1>5, BackedFetch DEF ArFetch
<1>6. ASSUME NEW n \in Names, ArTake(n) PROVE ArWorkBacked' /\ UNCHANGED <<adcs, crs, ars>>
  <2>1. \/ UNCHANGED arWork
        \/ arKey' = n /\ arObj' = arCache[n] /\ arCert' = arCert /\ arPc' = "issuer" /\ arPc = "idle"
    BY <1>6 DEF ArTake
  <2>2. CASE UNCHANGED arWork
    BY <1>6, <2>2 DEF ArTake, arWork, BackedInv, ArWorkBacked
  <2>3. CASE arKey' = n /\ arObj' = arCache[n] /\ arCert' = arCert /\ arPc' = "issuer"
    <3>1. arKey = NoName
      BY <1>6 DEF ArTake, ArWorkTypeOK
    <3>2. QED
      BY <1>6, <2>3, <3>1 DEF ArTake, BackedInv, StoreBacked, ArWorkBacked
  <2>4. QED
    BY <1>6, <2>1, <2>2, <2>3 DEF ArTake
<1>7. CASE ArGetIssuer \/ ArChain
  <2>1. UNCHANGED <<adcs, crs, ars>>
    BY <1>7 DEF ArGetIssuer, ArChain
  <2>2. ArRetry \/ (UNCHANGED <<arKey, arObj, arCert, arCr>> /\ arPc' # "setCR")
    BY <1>7 DEF ArGetIssuer, ArChain, IssueStart
  <2>3. QED
    BY <1>1, <1>2, <1>3, <2>1, <2>2 DEF BackedInv, ArWorkBacked
<1>8. CASE ArGetCr
  <2>1. UNCHANGED <<adcs, crs, ars>>
    BY <1>8 DEF ArGetCr
  <2>2. \/ ArRetry
        \/ UNCHANGED <<arKey, arObj, arCert>> /\ (arPc' = "setCR" => arCr' = crCache[arKey])
    BY <1>8 DEF ArGetCr, GetCertificateRequest
  <2>3. arKey \in Names
    BY <1>8 DEF ArGetCr, ArWorkTypeOK
  <2>4. QED
    BY <1>1, <1>2, <1>3, <2>1, <2>2, <2>3 DEF BackedInv, StoreBacked, ArWorkBacked
<1>9. CASE ArSetCr
  <2> DEFINE cr == WithOutcome(arCr, arObj, arCert)
  <2>1. arKey \in Names /\ arKey # NoName /\ arCr \in CertificateRequest /\ cr \in CertificateRequest
    BY <1>9, OutcomeType, NamesAssumption DEF ArSetCr, ArWorkTypeOK
  <2>2. CrBacked(adcs, arKey, cr)
    <3>1. CrBacked(adcs, arKey, arCr) /\ ArBacked(adcs, arKey, arObj)
          /\ (arCert # 0 => CertOf(adcs, arKey, arCert))
      BY <1>9, <2>1 DEF ArSetCr, BackedInv, ArWorkBacked
    <3>2. CASE arObj.state \in {"Ready", "Rejected", "Errored"}
      <4>1. cr.ready = OutcomeOf(arObj.state)
        BY <2>1, <3>2 DEF WithOutcome, OutcomeOf, CertificateRequest
      <4>2. cr.cert = arCr.cert \/ cr.cert = arCert
        BY <2>1, <3>2 DEF WithOutcome, CertificateRequest
      <4> HIDE DEF cr
      <4>3. QED
        BY <3>1, <3>2, <4>1, <4>2 DEF CrBacked, ArBacked, Final
    <3>3. CASE arObj.state \notin {"Ready", "Rejected", "Errored"}
      BY <3>1, <3>3 DEF WithOutcome
    <3>4. QED
      BY <3>2, <3>3
  <2>3. PICK reply : UpdateCr(arKey, cr, reply)
    BY <1>9 DEF ArSetCr
  <2>4. UNCHANGED <<adcs, ars>> /\ (ArRetry \/ CrSet)
    BY <1>9 DEF ArSetCr, NotSet
  <2> HIDE DEF cr
  <2>5. \A m \in Names : crs'[m] = crs[m] \/ CrBacked(adcs', m, crs'[m])
    BY <2>1, <2>2, <2>3, <2>4, UpdateBacked
  <2>6. CrSet => ArWorkBacked'
    BY <2>4 DEF CrSet, BackedInv, ArWorkBacked
  <2>7. QED
    BY <1>1, <1>3, <2>4, <2>5, <2>6 DEF BackedWrites
<1>10. CASE ArSetAr
  <2>1. arKey \in Names /\ arKey # NoName /\ arObj \in AdcsRequest
    BY <1>10, NamesAssumption DEF ArSetAr, ArWorkTypeOK
  <2>2. PICK reply : UpdateAr(arKey, arObj, reply)
    BY <1>10 DEF ArSetAr
  <2>3. UNCHANGED <<adcs, crs>> /\ ArDone
    BY <1>10 DEF ArSetAr, Saved, Finished, ArRetry
  <2>4. ArBacked(adcs', arKey, arObj)
    BY <2>1, <2>3 DEF BackedInv, ArWorkBacked
  <2>5. \A m \in Names : ars'[m] = ars[m] \/ ArBacked(adcs', m, ars'[m])
    BY <2>1, <2>2, <2>4, UpdateBacked
  <2>6. QED
    BY <1>1, <1>3, <2>3, <2>5 DEF BackedWrites
<1>11. QED
  BY <1>1, <1>2, <1>4, <1>5, <1>6, <1>7, <1>8, <1>9, <1>10 DEF ArStep, ArCalls

LEMMA BackedNext == TypeInv /\ OwnInv /\ BackedInv /\ [Next]_vars => BackedInv'
<1> SUFFICES ASSUME TypeInv, OwnInv, BackedInv, [Next]_vars PROVE BackedInv'
  OBVIOUS
<1>1. ASSUME Grown(adcs, adcs'), BackedWrites, Delivered,
             UNCHANGED crWork \/ CrWorkBacked', UNCHANGED arWork \/ ArWorkBacked'
      PROVE  BackedInv'
  BY <1>1, StoreStaysBacked, WorkersStayBacked DEF BackedInv
<1>2. UNCHANGED adcs => Grown(adcs, adcs')
  BY DEF Grown
<1>3. UNCHANGED <<crs, ars>> => BackedWrites
  BY DEF BackedWrites
<1>4. CASE User
  BY <1>1, <1>2, <1>4, UserBacked, UserCounts DEF Delivered
<1>5. CASE Cluster
  <2>1. crs' = crs /\ UNCHANGED <<adcs, crWork, arWork>>
    BY <1>5 DEF Cluster, Others, SyncCr, SyncAr, CrTimerFires, ArTimerFires, Resync, GarbageCollect,
       crVars, storeVars
  <2>2. ars' = ars \/ \E n \in Names : ars' = [ars EXCEPT ![n] = DeletedAr(ars[n])]
    BY <1>5 DEF Cluster, SyncCr, SyncAr, CrTimerFires, ArTimerFires, Resync, GarbageCollect,
       arVars, storeVars
  <2>3. BackedWrites
    <3>1. ASSUME NEW m \in Names PROVE ars'[m] = ars[m] \/ ArBacked(adcs', m, ars'[m])
      <4>1. \A old : ArBacked(adcs', m, DeletedAr(old))
        BY BackedObjects
      <4>2. QED
        BY <2>2, <4>1 DEF TypeInv, TypeOK, KubeTypeOK
    <3>2. QED
      BY <2>1, <3>1 DEF BackedWrites
  <2>4. QED
    BY <1>1, <1>2, <1>5, <2>1, <2>3, ClusterCounts DEF Delivered
<1>6. CASE CrWorker
  BY <1>1, <1>2, <1>6, CrWorkerBacked, CrWorkerCounts DEF CrWorker, Delivered
<1>7. CASE ArWorker
  BY <1>1, <1>7, BackedArWorker, ArWorkerCounts DEF Delivered
<1>8. CASE Restart
  <2>1. UNCHANGED <<adcs, crs, ars>> /\ Delivered
    BY <1>8 DEF Restart, storeVars, Delivered
  <2>2. CrWorkBacked' /\ ArWorkBacked'
    BY <1>8 DEF Restart, ArDone, CrWorkBacked, ArWorkBacked
  <2>3. QED
    BY <1>1, <1>2, <1>3, <2>1, <2>2
<1>9. CASE \E k \in DOMAIN adcs : AdcsDecides(k)
  <2>1. PICK k \in DOMAIN adcs : AdcsDecides(k)
    BY <1>9
  <2>2. UNCHANGED <<crs, ars, crCache, arCache, crWork, arWork>>
    BY <2>1 DEF AdcsDecides, kubeVars
  <2>3. Grown(adcs, adcs')
    <3>1. PICK v \in Verdicts : adcs' = [adcs EXCEPT ![k].disp = v] /\ adcs[k].disp = "Pending"
      BY <2>1 DEF AdcsDecides, Decide
    <3>2. \A i \in DOMAIN adcs : adcs[i] \in Submission(Names, Csrs \cup {NoCsr})
      BY DEF TypeInv, TypeOK, AdcsTypeOK
    <3>3. QED
      BY <3>1, <3>2 DEF Grown, Submission
  <2>4. QED
    BY <1>1, <1>3, <2>2, <2>3 DEF Delivered
<1>10. CASE UNCHANGED vars
  BY <1>1, <1>2, <1>3, <1>10 DEF vars, kubeVars, Delivered
<1>11. QED
  BY <1>4, <1>5, <1>6, <1>7, <1>8, <1>9, <1>10 DEF Next

(***************************************************************************)
(* What a CertificateRequest says is what ADCS has decided about a         *)
(* submission under its name, and the certificate it gets is that of an    *)
(* issued one: for any number of names, requests, faults and restarts, and *)
(* with caches that lag as they like.                                      *)
(***************************************************************************)
THEOREM AnswersAreFromAdcs == Spec => []AnswerIsFromAdcs
<1>1. Init => OwnInv
  BY NamesAssumption DEF Init, KubeInit, ArWorkInit, OwnInv, OwnId, NoAr
<1>2. Init => BackedInv
  BY BackedObjects DEF Init, KubeInit, CrWorkInit, ArWorkInit,
     BackedInv, StoreBacked, CrWorkBacked, ArWorkBacked
<1>3. BackedInv => AnswerIsFromAdcs
  BY DEF BackedInv, StoreBacked, CrBacked, DecidedAs, CertOf, Answer, AnswerIsFromAdcs
<1>4. Spec => []TypeInv
  BY TypesAndIds, PTL DEF TypeInv
<1>5. QED
  BY <1>1, <1>2, <1>3, <1>4, Copies, OwnNext, BackedNext, PTL DEF Spec
-----------------------------------------------------------------------------
(***************************************************************************)
(* With the approval check on, ADCS gets nothing of a denied request: what *)
(* is submitted under its name was submitted for an earlier request of     *)
(* that name, and an answer that the denied request has nevertheless       *)
(* (AdcsRequestReconciler looks it up by name) is what ADCS has decided    *)
(* about such a submission.                                                *)
(***************************************************************************)
DeniedOnlyInherits ==
    \A n \in Names : crs[n].denied =>
        LET Inherited(k) == adcs[k].name = n /\ adcs[k].owner < crs[n].uid IN
        /\ \A k \in DOMAIN adcs : adcs[k].name = n => Inherited(k)
        /\ crs[n].ready \in Answer =>
               \E k \in DOMAIN adcs : Inherited(k) /\ adcs[k].disp = DispOf(crs[n].ready)
        /\ crs[n].cert # 0 => Inherited(crs[n].cert)

LEMMA ApprovedEarlier ==
    ASSUME TypeInv, DecisionInv, SubmittedWasApproved, CheckApprovedCondition,
           NEW n \in Names, crs[n].denied, NEW k \in DOMAIN adcs, adcs[k].name = n
    PROVE  1 <= adcs[k].owner /\ adcs[k].owner < crs[n].uid
<1>1. <<n, adcs[k].owner, adcs[k].csr>> \in approvals
  BY DEF SubmittedWasApproved
<1>2. crs[n].live /\ ~crs[n].approved
  BY DEF DecisionInv
<1>3. 1 <= adcs[k].owner /\ adcs[k].owner <= crs[n].uid /\ adcs[k].owner # crs[n].uid
  BY <1>1, <1>2 DEF DecisionInv
<1>4. crs[n].uid \in Nat /\ adcs[k].owner \in Nat
  <2>1. adcs[k] \in Submission(Names, Csrs \cup {NoCsr})
    BY DEF TypeInv, TypeOK, AdcsTypeOK
  <2>2. QED
    BY <2>1 DEF TypeInv, TypeOK, KubeTypeOK, CertificateRequest, Submission
<1>5. QED
  BY <1>3, <1>4

(* In any number of names, requests, faults and restarts, with caches that lag as they like. *)
THEOREM DeniedInherits == ASSUME CheckApprovedCondition PROVE Spec => []DeniedOnlyInherits
<1>1. Init => DecisionInv
  BY UsersAssumption DEF Init, KubeInit, DecisionInv, NoCr
<1>2. TypeInv /\ DecisionInv /\ SubmittedWasApproved /\ AnswerIsFromAdcs => DeniedOnlyInherits
  <2> SUFFICES ASSUME TypeInv, DecisionInv, SubmittedWasApproved, AnswerIsFromAdcs,
                      NEW n \in Names, crs[n].denied
               PROVE  /\ \A k \in DOMAIN adcs : adcs[k].name = n => adcs[k].owner < crs[n].uid
                      /\ crs[n].ready \in Answer =>
                             \E k \in DOMAIN adcs : adcs[k].name = n /\ adcs[k].disp = DispOf(crs[n].ready)
                      /\ crs[n].cert # 0 => crs[n].cert \in DOMAIN adcs /\ adcs[crs[n].cert].name = n
    BY DEF DeniedOnlyInherits
  <2>1. \A k \in DOMAIN adcs : adcs[k].name = n => adcs[k].owner < crs[n].uid
    BY ApprovedEarlier
  <2>2. QED
    BY <2>1 DEF AnswerIsFromAdcs, Answer
<1>3. Spec => []TypeInv
  BY TypesAndIds, PTL DEF TypeInv
<1>4. QED
  BY <1>1, <1>2, <1>3, DecisionNext, OnlyApproved, AnswersAreFromAdcs, PTL DEF Spec

(***************************************************************************)
(* So it has no answer while its name is not used again.                   *)
(***************************************************************************)
THEOREM DeniedStays ==
    ASSUME CheckApprovedCondition, MaxRequests <= 1
    PROVE  Spec => []DeniedIsNotIssued
<1>1. Init => DecisionInv
  BY UsersAssumption DEF Init, KubeInit, DecisionInv, NoCr
<1>2. TypeInv /\ DecisionInv /\ SubmittedWasApproved /\ AnswerIsFromAdcs => DeniedIsNotIssued
  <2> SUFFICES ASSUME TypeInv, DecisionInv, SubmittedWasApproved, AnswerIsFromAdcs,
                      NEW n \in Names, crs[n].denied, crs[n].ready \in Answer
               PROVE  FALSE
    BY DEF DeniedIsNotIssued, Answer
  <2>1. PICK k \in DOMAIN adcs : adcs[k].name = n
    BY DEF AnswerIsFromAdcs, Answer
  <2>2. 1 <= adcs[k].owner /\ adcs[k].owner < crs[n].uid
    BY <2>1, ApprovedEarlier
  <2>3. crs[n].uid <= MaxRequests /\ crs[n].uid \in Nat /\ adcs[k].owner \in Nat /\ MaxRequests \in Nat
    <3>1. adcs[k] \in Submission(Names, Csrs \cup {NoCsr})
      BY DEF TypeInv, TypeOK, AdcsTypeOK
    <3>2. QED
      BY <3>1, UsersAssumption DEF DecisionInv, TypeInv, TypeOK, KubeTypeOK, CertificateRequest, Submission
  <2>4. QED
    BY <2>2, <2>3
<1>3. Spec => []TypeInv
  BY TypesAndIds, PTL DEF TypeInv
<1>4. QED
  BY <1>1, <1>2, <1>3, DecisionNext, OnlyApproved, AnswersAreFromAdcs, PTL DEF Spec
=============================================================================
