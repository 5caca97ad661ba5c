------------------------- MODULE AdcsOperatorProofs -------------------------
(***************************************************************************)
(* Theorems about AdcsOperator, for any names, CSRs and bounds.            *)
(***************************************************************************)
EXTENDS AdcsOperator, TLAPS

(* Objects whose fields are changed one by one, as the provers see EXCEPT. *)
LEMMA CrField ==
    ASSUME NEW r \in CertificateRequest
    PROVE  /\ \A v \in Nat : [r EXCEPT !.uid = v] \in CertificateRequest
           /\ \A v \in Nat : [r EXCEPT !.rev = v] \in CertificateRequest
           /\ \A v \in Nat : [r EXCEPT !.cert = v] \in CertificateRequest
           /\ \A v \in BOOLEAN : [r EXCEPT !.approved = v] \in CertificateRequest
           /\ \A v \in BOOLEAN : [r EXCEPT !.denied = v] \in CertificateRequest
           /\ \A v \in ReadyReason : [r EXCEPT !.ready = v] \in CertificateRequest
BY DEF CertificateRequest

LEMMA ArField ==
    ASSUME NEW r \in AdcsRequest
    PROVE  /\ \A v \in Nat : [r EXCEPT !.uid = v] \in AdcsRequest
           /\ \A v \in Nat : [r EXCEPT !.rev = v] \in AdcsRequest
           /\ \A v \in Int : [r EXCEPT !.id = v] \in AdcsRequest
           /\ \A v \in State : [r EXCEPT !.state = v] \in AdcsRequest
BY DEF AdcsRequest

LEMMA CrTypes ==
    /\ NoCr \in CertificateRequest
    /\ \A old \in CertificateRequest, csr \in Csrs, ref \in IssuerRef :
         NewCr(old, csr, ref) \in CertificateRequest
    /\ \A old \in CertificateRequest : DeletedCr(old) \in CertificateRequest
    /\ \A old, obj \in CertificateRequest : WrittenCr(old, obj) \in CertificateRequest
<1>1. NoCr \in CertificateRequest
  BY DEF NoCr, CertificateRequest, IssuerRef, ReadyReason
<1>2. ASSUME NEW old \in CertificateRequest, NEW csr \in Csrs, NEW ref \in IssuerRef
      PROVE  NewCr(old, csr, ref) \in CertificateRequest
  BY DEF NewCr, CertificateRequest, ReadyReason
<1>3. ASSUME NEW old \in CertificateRequest
      PROVE  DeletedCr(old) \in CertificateRequest
  <2>1. old.uid \in Nat /\ old.rev + 1 \in Nat
    BY DEF CertificateRequest
  <2>2. QED
    BY <1>1, <2>1, CrField DEF DeletedCr
<1>4. ASSUME NEW old \in CertificateRequest, NEW obj \in CertificateRequest
      PROVE  WrittenCr(old, obj) \in CertificateRequest
  <2>1. obj.ready \in ReadyReason /\ obj.cert \in Nat /\ old.rev + 1 \in Nat
    BY DEF CertificateRequest
  <2>2. QED
    BY <2>1, CrField DEF WrittenCr, Written
<1>5. QED
  BY <1>1, <1>2, <1>3, <1>4

LEMMA ArTypes ==
    /\ NoAr \in AdcsRequest
    /\ \A old \in AdcsRequest, cr \in CertificateRequest : NewAr(old, cr) \in AdcsRequest
    /\ \A old \in AdcsRequest : DeletedAr(old) \in AdcsRequest
    /\ \A old, obj \in AdcsRequest : WrittenAr(old, obj) \in AdcsRequest
<1>1. NoAr \in AdcsRequest
  BY DEF NoAr, AdcsRequest, IssuerRef, State
<1>2. ASSUME NEW old \in AdcsRequest, NEW cr \in CertificateRequest
      PROVE  NewAr(old, cr) \in AdcsRequest
  BY DEF NewAr, AdcsRequest, CertificateRequest, State
<1>3. ASSUME NEW old \in AdcsRequest
      PROVE  DeletedAr(old) \in AdcsRequest
  <2>1. old.uid \in Nat /\ old.rev + 1 \in Nat
    BY DEF AdcsRequest
  <2>2. QED
    BY <1>1, <2>1, ArField DEF DeletedAr
<1>4. ASSUME NEW old \in AdcsRequest, NEW obj \in AdcsRequest
      PROVE  WrittenAr(old, obj) \in AdcsRequest
  <2>1. obj.state \in State /\ obj.id \in Int /\ old.rev + 1 \in Nat
    BY DEF AdcsRequest
  <2>2. QED
    BY <2>1, ArField DEF WrittenAr, Written
<1>5. QED
  BY <1>1, <1>2, <1>3, <1>4

(***************************************************************************)
(* Type correctness rests on what the AdcsRequest worker may ask for: the  *)
(* certificate number it gets is the id it has asked for.                  *)
(***************************************************************************)
TypeInv == TypeOK /\ IdsAreKnown

(* An update of a CertificateRequest keeps the types of the store. *)
LEMMA UpdateCrTypes ==
    ASSUME KubeTypeOK, NEW n \in Names, NEW obj \in CertificateRequest, NEW reply,
           UpdateCr(n, obj, reply)
    PROVE  crs' \in [Names -> CertificateRequest] /\ faults' \in 0..MaxFaults
<1>1. WrittenCr(crs[n], obj) \in CertificateRequest
  BY CrTypes DEF KubeTypeOK
<1>2. QED
  BY <1>1, BoundsAssumption DEF UpdateCr, KubeTypeOK, Fault

LEMMA UpdateArTypes ==
    ASSUME KubeTypeOK, NEW n \in Names, NEW obj \in AdcsRequest, NEW reply,
           UpdateAr(n, obj, reply)
    PROVE  /\ ars' \in [Names -> AdcsRequest] /\ faults' \in 0..MaxFaults
           /\ ars' = ars \/ ars' = [ars EXCEPT ![n] = WrittenAr(ars[n], obj)]
<1>1. WrittenAr(ars[n], obj) \in AdcsRequest
  BY ArTypes DEF KubeTypeOK
<1>2. QED
  BY <1>1, BoundsAssumption DEF UpdateAr, KubeTypeOK, Fault

LEMMA TypeInit == Init => TypeInv
<1> SUFFICES ASSUME Init PROVE TypeInv
  OBVIOUS
<1>1. KubeTypeOK
  BY CrTypes, ArTypes, BoundsAssumption DEF Init, KubeInit, KubeTypeOK
<1>2. CrWorkTypeOK
  BY CrTypes DEF Init, CrWorkInit, CrWorkTypeOK
<1>3. ArWorkTypeOK
  BY CrTypes, ArTypes, UsersAssumption DEF Init, ArWorkInit, ArWorkTypeOK
<1>4. AdcsTypeOK(Names, Csrs \cup {NoCsr}) /\ approvals \subseteq Names \X Nat \X (Csrs \cup {NoCsr})
  BY SubmissionsAssumption DEF Init, AdcsTypeOK
<1>5. IdIsKnown(NoAr)
  BY DEF IdIsKnown, NoAr
<1>6. IdsAreKnown
  BY <1>5 DEF IdsAreKnown, Init, KubeInit, ArWorkInit
<1>7. QED
  BY <1>1, <1>2, <1>3, <1>4, <1>6 DEF TypeInv, TypeOK

(***************************************************************************)
(* Steps of the users of the API write well-formed CertificateRequests,    *)
(* and touch neither the workers nor ADCS.                                 *)
(***************************************************************************)
LEMMA TypeStoreCr ==
    ASSUME TypeInv, NEW n \in Names, NEW cr \in CertificateRequest, StoreCr(n, cr),
           approvals' \subseteq Names \X Nat \X (Csrs \cup {NoCsr})
    PROVE  TypeInv'
<1>1. KubeTypeOK'
  BY DEF StoreCr, KubeTypeOK, TypeInv, TypeOK
<1>2. QED
  BY <1>1 DEF TypeInv, TypeOK, StoreCr, crWork, arWork, CrWorkTypeOK, ArWorkTypeOK,
     AdcsTypeOK, IdsAreKnown, IdIsKnown

LEMMA TypeUser == TypeInv /\ User => TypeInv'
<1> SUFFICES ASSUME TypeInv, User PROVE TypeInv'
  OBVIOUS
<1> USE DEF TypeInv, TypeOK
<1>1. ASSUME NEW n \in Names, CreateRequest(n) PROVE TypeInv'
  <2>1. PICK csr \in Csrs, ref \in Refs : StoreCr(n, NewCr(crs[n], csr, ref))
    BY <1>1 DEF CreateRequest
  <2>2. NewCr(crs[n], csr, ref) \in CertificateRequest
    BY CrTypes, UsersAssumption DEF KubeTypeOK
  <2>3. QED
    BY <1>1, <2>1, <2>2, TypeStoreCr DEF CreateRequest
<1>2. ASSUME NEW n \in Names, Approve(n) PROVE TypeInv'
  <2>1. crs[n] \in CertificateRequest
    BY DEF KubeTypeOK
  <2>2. crs[n].rev + 1 \in Nat /\ crs[n].uid \in Nat /\ crs[n].csr \in Csrs \cup {NoCsr}
    BY <2>1 DEF CertificateRequest
  <2>3. [crs[n] EXCEPT !.approved = TRUE] \in CertificateRequest
    BY <2>1, CrField
  <2>4. [crs[n] EXCEPT !.approved = TRUE, !.rev = @ + 1] \in CertificateRequest
    BY <2>2, <2>3, CrField
  <2>5. approvals' \subseteq Names \X Nat \X (Csrs \cup {NoCsr})
    BY <1>2, <2>2 DEF Approve
  <2>6. QED
    BY <1>2, <2>4, <2>5, TypeStoreCr DEF Approve
<1>3. ASSUME NEW n \in Names, Deny(n) PROVE TypeInv'
  <2>1. crs[n] \in CertificateRequest
    BY DEF KubeTypeOK
  <2>2. crs[n].rev + 1 \in Nat
    BY <2>1 DEF CertificateRequest
  <2>3. [crs[n] EXCEPT !.denied = TRUE] \in CertificateRequest
    BY <2>1, CrField
  <2>4. [crs[n] EXCEPT !.denied = TRUE, !.rev = @ + 1] \in CertificateRequest
    BY <2>2, <2>3, CrField
  <2>5. QED
    BY <1>3, <2>4, TypeStoreCr DEF Deny
<1>4. ASSUME NEW n \in Names, DeleteRequest(n) PROVE TypeInv'
  <2>1. DeletedCr(crs[n]) \in CertificateRequest
    BY CrTypes DEF KubeTypeOK
  <2>2. QED
    BY <1>4, <2>1, TypeStoreCr DEF DeleteRequest
<1>5. ASSUME ConfigureIssuer PROVE TypeInv'
  BY <1>5 DEF ConfigureIssuer, kubeVars, crWork, arWork, KubeTypeOK, CrWorkTypeOK, ArWorkTypeOK,
     AdcsTypeOK, IdsAreKnown, IdIsKnown
<1>6. ASSUME BreakIssuer PROVE TypeInv'
  <2>1. faults' \in 0..MaxFaults
    BY <1>6, BoundsAssumption DEF BreakIssuer, Fault, KubeTypeOK
  <2>2. QED
    BY <1>6, <2>1 DEF BreakIssuer, crWork, arWork, KubeTypeOK, CrWorkTypeOK, ArWorkTypeOK,
       AdcsTypeOK, IdsAreKnown, IdIsKnown
<1>7. QED
  BY <1>1, <1>2, <1>3, <1>4, <1>5, <1>6 DEF User

(***************************************************************************)
(* The cluster copies stored objects into the caches, moves names between  *)
(* timers and queues, and deletes AdcsRequests.                            *)
(***************************************************************************)
LEMMA TypeCluster == TypeInv /\ Cluster => TypeInv'
<1> SUFFICES ASSUME TypeInv, Cluster PROVE TypeInv'
  OBVIOUS
<1> USE DEF TypeInv, TypeOK, crVars, arVars, storeVars
<1>1. UNCHANGED Others
  BY DEF Cluster
<1>2. CrWorkTypeOK' /\ ArWorkTypeOK' /\ AdcsTypeOK(Names, Csrs \cup {NoCsr})'
      /\ (approvals \subseteq Names \X Nat \X (Csrs \cup {NoCsr}))'
  BY <1>1 DEF Others, crWork, arWork, CrWorkTypeOK, ArWorkTypeOK, AdcsTypeOK
<1>3. IdIsKnown(arObj)' /\ (arPc = "fetch" => arId \in DOMAIN adcs)'
  BY <1>1 DEF Others, arWork, IdsAreKnown, IdIsKnown
<1>4. ASSUME KubeTypeOK', \A n \in Names : IdIsKnown(ars[n])' /\ IdIsKnown(arCache[n])'
      PROVE  TypeInv'
  BY <1>2, <1>3, <1>4 DEF IdsAreKnown
<1>5. ASSUME NEW n \in Names, SyncCr(n) PROVE TypeInv'
  <2>1. KubeTypeOK'
    BY <1>5 DEF SyncCr, KubeTypeOK
  <2>2. QED
    BY <1>1, <1>4, <1>5, <2>1 DEF SyncCr, IdsAreKnown, IdIsKnown, Others
<1>6. ASSUME NEW n \in Names, SyncAr(n) PROVE TypeInv'
  <2>1. KubeTypeOK'
    BY <1>6 DEF SyncAr, KubeTypeOK
  <2>2. \A m \in Names : IdIsKnown(ars[m])' /\ IdIsKnown(arCache[m])'
    BY <1>1, <1>6 DEF SyncAr, IdsAreKnown, IdIsKnown, Others, KubeTypeOK
  <2>3. QED
    BY <1>4, <2>1, <2>2
<1>7. ASSUME NEW n \in Names, CrTimerFires(n) \/ ArTimerFires(n) PROVE TypeInv'
  <2>1. KubeTypeOK'
    BY <1>7 DEF CrTimerFires, ArTimerFires, KubeTypeOK
  <2>2. QED
    BY <1>1, <1>4, <1>7, <2>1 DEF CrTimerFires, ArTimerFires, IdsAreKnown, IdIsKnown, Others
<1>8. ASSUME NEW n \in Names, GarbageCollect(n) PROVE TypeInv'
  <2>1. KubeTypeOK'
    BY <1>8, ArTypes DEF GarbageCollect, KubeTypeOK
  <2>2. DeletedAr(ars[n]).id = 0 /\ DeletedAr(ars[n]).state = "Unknown"
    BY DEF DeletedAr, NoAr
  <2>3. \A m \in Names : IdIsKnown(ars[m])' /\ IdIsKnown(arCache[m])'
    BY <1>1, <1>8, <2>2 DEF GarbageCollect, IdsAreKnown, IdIsKnown, Others, KubeTypeOK
  <2>4. QED
    BY <1>4, <2>1, <2>3
<1>9. ASSUME Resync PROVE TypeInv'
  <2>1. KubeTypeOK'
    BY <1>9 DEF Resync, KubeTypeOK
  <2>2. QED
    BY <1>1, <1>4, <1>9, <2>1 DEF Resync, IdsAreKnown, IdIsKnown, Others
<1>10. QED
  BY <1>5, <1>6, <1>7, <1>8, <1>9 DEF Cluster

(***************************************************************************)
(* Steps of the CertificateRequest reconciler: every call is about a name, *)
(* with an object read before.                                             *)
(***************************************************************************)
LEMMA TypeCrSetStatus ==
    ASSUME TypeInv, NEW ready \in ReadyReason, CrSetStatus(ready), crPc # "idle"
    PROVE  KubeTypeOK' /\ CrWorkTypeOK'
<1> USE DEF TypeInv, TypeOK
<1>1. crKey \in Names /\ crObj \in CertificateRequest
  BY DEF CrWorkTypeOK
<1>2. [crObj EXCEPT !.ready = ready] \in CertificateRequest
  BY <1>1, CrField
<1>3. PICK reply \in {"ok", "error"} :
        UpdateCr(crKey, [crObj EXCEPT !.ready = ready], reply)
  BY DEF CrSetStatus
<1>4. crs' \in [Names -> CertificateRequest] /\ faults' \in 0..MaxFaults
  BY <1>1, <1>2, <1>3, UpdateCrTypes
<1>5. CrDone /\ crTimer' \subseteq Names
  BY <1>1 DEF CrSetStatus, CrFail, KubeTypeOK
<1>6. KubeTypeOK'
  BY <1>4, <1>5 DEF CrSetStatus, KubeTypeOK, arVars
<1>7. QED
  BY <1>5, <1>6, CrTypes DEF CrDone, CrWorkTypeOK

LEMMA TypeCrStep == TypeInv /\ CrStep => KubeTypeOK' /\ CrWorkTypeOK'
<1> SUFFICES ASSUME TypeInv, CrStep PROVE KubeTypeOK' /\ CrWorkTypeOK'
  OBVIOUS
<1> USE DEF TypeInv, TypeOK, crVars, arVars
<1>1. CASE CrDeny
  BY <1>1, TypeCrSetStatus DEF CrDeny, ReadyReason
<1>2. CASE CrLookup
  BY <1>2, CrTypes DEF CrLookup, CrDone, CrGoto, kubeVars, KubeTypeOK, CrWorkTypeOK
<1>3. CASE CrDelete
  <2>1. crKey \in Names /\ CrWorkTypeOK'
    BY <1>3 DEF CrDelete, CrGoto, CrWorkTypeOK
  <2>2. DeletedAr(ars[crKey]) \in AdcsRequest
    BY <2>1, ArTypes DEF KubeTypeOK
  <2>3. ars' \in [Names -> AdcsRequest]
    BY <1>3, <2>2 DEF CrDelete, KubeTypeOK
  <2>4. faults' \in 0..MaxFaults
    BY <1>3, BoundsAssumption DEF CrDelete, Fault, KubeTypeOK
  <2>5. QED
    BY <1>3, <2>1, <2>3, <2>4 DEF CrDelete, KubeTypeOK
<1>4. CASE CrCreate
  <2>1. crKey \in Names /\ CrWorkTypeOK'
    BY <1>4, CrTypes DEF CrCreate, CrGoto, CrFail, CrDone, CrWorkTypeOK
  <2>2. NewAr(ars[crKey], crObj) \in AdcsRequest
    BY <2>1, ArTypes DEF KubeTypeOK, CrWorkTypeOK
  <2>3. ars' \in [Names -> AdcsRequest] /\ faults' \in 0..MaxFaults
    BY <1>4, <2>2, BoundsAssumption DEF CrCreate, Created, Fault, KubeTypeOK
  <2>4. crTimer' \subseteq Names
    BY <1>4, <2>1 DEF CrCreate, CrFail, KubeTypeOK
  <2>5. QED
    BY <1>4, <2>1, <2>3, <2>4 DEF CrCreate, KubeTypeOK
<1>5. CASE CrSetPending
  BY <1>5, TypeCrSetStatus DEF CrSetPending, ReadyReason
<1>6. ASSUME NEW n \in Names, CrTake(n) PROVE KubeTypeOK' /\ CrWorkTypeOK'
  <2>1. KubeTypeOK'
    BY <1>6 DEF CrTake, KubeTypeOK
  <2>2. crCache[n] \in CertificateRequest
    BY DEF KubeTypeOK
  <2>3. CrWorkTypeOK'
    BY <1>6, <2>2, NamesAssumption DEF CrTake, GetCertificateRequest, crWork, CrWorkTypeOK
  <2>4. QED
    BY <2>1, <2>3
<1>7. QED
  BY <1>1, <1>2, <1>3, <1>4, <1>5, <1>6 DEF CrStep, CrCalls

(* New and deleted AdcsRequests have no id; the others keep theirs. *)
LEMMA IdsCrStep ==
    ASSUME TypeInv, CrStep, UNCHANGED <<arWork, adcs>>
    PROVE  IdsAreKnown'
<1> USE DEF TypeInv, TypeOK, crVars, arVars
<1>1. \/ ars' = ars
      \/ crKey \in Names /\ ars' = [ars EXCEPT ![crKey] = DeletedAr(ars[crKey])]
      \/ crKey \in Names /\ ars' = [ars EXCEPT ![crKey] = NewAr(ars[crKey], crObj)]
  <2>1. CASE CrDelete
    BY <2>1 DEF CrDelete, CrWorkTypeOK
  <2>2. CASE CrCreate
    BY <2>2 DEF CrCreate, Created, CrWorkTypeOK
  <2>3. CASE CrDeny \/ CrSetPending \/ CrLookup \/ \E n \in Names : CrTake(n)
    BY <2>3 DEF CrDeny, CrSetPending, CrSetStatus, CrLookup, CrTake, kubeVars
  <2>4. QED
    BY <2>1, <2>2, <2>3 DEF CrStep, CrCalls
<1>2. arCache' = arCache
  BY DEF CrStep, CrCalls, CrDeny, CrSetPending, CrSetStatus, CrLookup, CrTake, CrDelete, CrCreate,
     kubeVars
<1>3. \A ar, cr : /\ DeletedAr(ar).id = 0 /\ DeletedAr(ar).state = "Unknown"
                  /\ NewAr(ar, cr).id = 0 /\ NewAr(ar, cr).state = "Unknown"
  BY DEF DeletedAr, NewAr, NoAr
<1>4. QED
  BY <1>1, <1>2, <1>3 DEF IdsAreKnown, IdIsKnown, arWork, KubeTypeOK

LEMMA TypeCrWorker == TypeInv /\ CrWorker => TypeInv'
BY TypeCrStep, IdsCrStep DEF CrWorker, TypeInv, TypeOK, arWork, ArWorkTypeOK, AdcsTypeOK

(***************************************************************************)
(* What the client makes of the replies: a result without an error has a   *)
(* status of its own and the id that was asked for, and the id on a page   *)
(* that answers a submission is the number of that submission.             *)
(***************************************************************************)
LEMMA FetchedResult ==
    ASSUME NEW reply, NEW id, GetExistingCertificate(reply, id).err = "none"
    PROVE  /\ GetExistingCertificate(reply, id).id = id
           /\ GetExistingCertificate(reply, id).status \in {"Pending", "Ready", "Errored", "Rejected"}
BY DEF GetExistingCertificate, Failed, Classified, Obtained, Disposition

LEMMA PostedId ==
    ASSUME NEW id \in Nat, NEW disp,
           NEW post \in SubmissionAnswers(id, disp) \cup FaultReplies
    PROVE  CertId(post) \in {0, id}
<1>1. CertId(HtmlPage({}, id)) \in {0, id}
  BY DEF CertId, HtmlPage
<1>2. CertId(CertificatePage) = 0
  BY DEF CertId, AnsweredAtOnce, CertificatePage
<1>3. CertId(NoReply) = 0
  BY DEF CertId, NoReply
<1>4. CertId(ServerError) = 0
  BY DEF CertId, ServerError, HtmlPage
<1>5. CertId(HtmlPage({}, 0)) = 0
  BY DEF CertId, HtmlPage
<1>6. QED
  BY <1>1, <1>2, <1>3, <1>4, <1>5 DEF SubmissionAnswers, FaultReplies

(* What Issue stores is an AdcsRequest with a known id. *)
LEMMA TypeIssued ==
    ASSUME TypeInv, arKey # NoName,
           NEW status \in {"Pending", "Ready", "Errored", "Rejected"}, NEW id, NEW cert,
           Issued(status, id, cert),
           adcs' \in Seq(Submission(Names, Csrs \cup {NoCsr})),
           id \in (DOMAIN adcs)' \/ (id = IdNone /\ status = "Ready"),
           cert \in Nat, UNCHANGED issuerReady
    PROVE  ArWorkTypeOK' /\ IdIsKnown(arObj)' /\ arPc' # "fetch" /\ arTimer' = arTimer
<1> USE DEF TypeInv, TypeOK
<1>1. id \in Int
  BY DEF IdNone
<1>2. arObj \in AdcsRequest /\ status \in State
  BY DEF ArWorkTypeOK, State
<1>3. [arObj EXCEPT !.state = status] \in AdcsRequest
  BY <1>2, ArField
<1>4. [arObj EXCEPT !.state = status, !.id = id] \in AdcsRequest
  BY <1>1, <1>3, ArField
<1>5. ArWorkTypeOK'
  BY <1>4 DEF Issued, ArWorkTypeOK
<1>6. arObj'.state = status /\ arObj'.id = id
  BY <1>2 DEF Issued, AdcsRequest
<1>7. IdIsKnown(arObj)'
  BY <1>6 DEF IdIsKnown, IdNone
<1>8. QED
  BY <1>5, <1>7 DEF Issued

LEMMA TypeRetry ==
    ASSUME TypeInv, arKey \in Names, ArRetry, UNCHANGED issuerReady
    PROVE  ArWorkTypeOK' /\ IdIsKnown(arObj)' /\ arPc' # "fetch" /\ arTimer' \subseteq Names
BY ArTypes, CrTypes DEF TypeInv, TypeOK, ArRetry, ArDone, ArWorkTypeOK, IdIsKnown, NoAr, KubeTypeOK

(***************************************************************************)
(* Steps of the AdcsRequest reconciler.  Each of them leaves its own       *)
(* variables well-typed with known ids, and the stores well-typed.         *)
(***************************************************************************)
ArTyped ==
    /\ KubeTypeOK' /\ ArWorkTypeOK' /\ AdcsTypeOK(Names, Csrs \cup {NoCsr})'
    /\ \A n \in Names : IdIsKnown(ars[n])' /\ IdIsKnown(arCache[n])'
    /\ IdIsKnown(arObj)' /\ (arPc = "fetch" => arId \in DOMAIN adcs)'

LEMMA TypeArTake ==
    ASSUME TypeInv, NEW n \in Names, ArTake(n)
    PROVE  ArTyped
<1> USE DEF TypeInv, TypeOK, crVars
<1>1. KubeTypeOK' /\ AdcsTypeOK(Names, Csrs \cup {NoCsr})'
  BY DEF ArTake, KubeTypeOK, AdcsTypeOK
<1>2. arCache[n] \in AdcsRequest
  BY DEF KubeTypeOK
<1>3. ArWorkTypeOK'
  BY <1>2, NamesAssumption DEF ArTake, arWork, ArWorkTypeOK
<1>4. \A m \in Names : IdIsKnown(ars[m])' /\ IdIsKnown(arCache[m])'
  BY DEF ArTake, IdsAreKnown, IdIsKnown
<1>5. IdIsKnown(arObj)' /\ (arPc = "fetch" => arId \in DOMAIN adcs)'
  BY DEF ArTake, arWork, IdsAreKnown, IdIsKnown
<1>6. QED
  BY <1>1, <1>3, <1>4, <1>5 DEF ArTyped

LEMMA TypeArGetIssuer == TypeInv /\ ArGetIssuer => ArTyped
<1> SUFFICES ASSUME TypeInv, ArGetIssuer PROVE ArTyped
  OBVIOUS
<1> USE DEF TypeInv, TypeOK, crVars
<1>1. arKey \in Names /\ arObj \in AdcsRequest /\ IdIsKnown(arObj)
  BY DEF ArGetIssuer, ArWorkTypeOK, IdsAreKnown
<1>2. \A n \in Names : IdIsKnown(ars[n])' /\ IdIsKnown(arCache[n])'
  BY DEF ArGetIssuer, IdsAreKnown, IdIsKnown
<1>3. CASE ArRetry
  <2>1. ArWorkTypeOK' /\ IdIsKnown(arObj)' /\ arPc' # "fetch" /\ arTimer' \subseteq Names
    BY <1>1, <1>3, TypeRetry DEF ArGetIssuer
  <2>2. QED
    BY <1>2, <2>1 DEF ArTyped, ArGetIssuer, KubeTypeOK, AdcsTypeOK
<1>4. CASE ~ArRetry
  <2>1. /\ IssueStart(arObj) \in {"submit", "fetch", "getCR"}
        /\ arPc' = IssueStart(arObj)
        /\ arId' = IF IssueStart(arObj) = "fetch" THEN arObj.id ELSE 0
        /\ UNCHANGED <<arKey, arObj, arCert, arCr, arTimer>>
    BY <1>4 DEF ArGetIssuer, IssueStart
  <2>2. IssueStart(arObj) = "fetch" => arObj.id \in DOMAIN adcs
    BY <1>1 DEF IssueStart, IdIsKnown
  <2>3. arObj.id \in Int
    BY <1>1 DEF AdcsRequest
  <2>4. ArWorkTypeOK' /\ (arPc = "fetch" => arId \in DOMAIN adcs)'
    BY <1>1, <2>1, <2>2, <2>3, NamesAssumption DEF ArWorkTypeOK, ArGetIssuer
  <2>5. IdIsKnown(arObj)'
    BY <1>1, <2>1 DEF ArGetIssuer, IdIsKnown
  <2>6. QED
    BY <1>2, <2>1, <2>4, <2>5 DEF ArTyped, ArGetIssuer, KubeTypeOK, AdcsTypeOK
<1>5. QED
  BY <1>3, <1>4

(* The answer to a POST, about a submission that has just been appended, or about none. *)
LEMMA TypePosted ==
    ASSUME TypeInv, arKey \in Names, UNCHANGED issuerReady,
           adcs' \in Seq(Submission(Names, Csrs \cup {NoCsr})),
           NEW k \in (DOMAIN adcs)', NEW disp,
           NEW post \in SubmissionAnswers(k, disp) \cup FaultReplies, Posted(post, k),
           DOMAIN adcs \subseteq (DOMAIN adcs)'
    PROVE  /\ ArWorkTypeOK' /\ IdIsKnown(arObj)' /\ (arPc = "fetch" => arId \in DOMAIN adcs)'
           /\ arTimer' \subseteq Names
<1> USE DEF TypeInv, TypeOK
<1>1. k \in Nat /\ arKey # NoName
  BY NamesAssumption
<1>2. CertId(post) \in {0, k}
  BY <1>1, PostedId
<1>3. CASE Issued("Ready", IdNone, k)
  BY <1>1, <1>3, TypeIssued DEF KubeTypeOK
<1>4. CASE ArRetry
  BY <1>4, TypeRetry
<1>5. CASE /\ CertId(post) # 0 /\ arPc' = "fetch" /\ arId' = CertId(post)
           /\ UNCHANGED <<arKey, arObj, arCert, arCr, arTimer>>
  <2>1. IdIsKnown(arObj)'
    BY <1>5 DEF IdsAreKnown, IdIsKnown
  <2>2. ArWorkTypeOK'
    BY <1>1, <1>2, <1>5 DEF ArWorkTypeOK
  <2>3. QED
    BY <1>2, <1>5, <2>1, <2>2 DEF KubeTypeOK
<1>6. QED
  BY <1>3, <1>4, <1>5 DEF Posted

LEMMA TypeArSubmit == TypeInv /\ ArSubmit => ArTyped
<1> SUFFICES ASSUME TypeInv, ArSubmit PROVE ArTyped
  OBVIOUS
<1> USE DEF TypeInv, TypeOK, crVars
<1>1. arKey \in Names /\ arObj \in AdcsRequest
  BY DEF ArSubmit, ArWorkTypeOK
<1>2. faults' \in 0..MaxFaults
  BY BoundsAssumption DEF ArSubmit, SubmissionFails, Fault, KubeTypeOK
<1>3. CASE SubmissionFails
  <2>1. ArWorkTypeOK' /\ IdIsKnown(arObj)' /\ arPc' # "fetch" /\ arTimer' \subseteq Names
    BY <1>1, <1>3, TypeRetry DEF ArSubmit, SubmissionFails
  <2>2. \A n \in Names : IdIsKnown(ars[n])' /\ IdIsKnown(arCache[n])'
    BY <1>3 DEF ArSubmit, SubmissionFails, IdsAreKnown, IdIsKnown
  <2>3. QED
    BY <1>2, <1>3, <2>1, <2>2 DEF ArTyped, ArSubmit, SubmissionFails, KubeTypeOK, AdcsTypeOK
<1>4. CASE ~SubmissionFails
  <2>1. PICK disp \in Verdicts \cup {"Pending"} :
          /\ Submit(arKey, arObj, disp)
          /\ \E post \in SubmissionAnswers(Len(adcs) + 1, disp) \cup FaultReplies :
               Posted(post, Len(adcs) + 1)
    BY <1>4 DEF ArSubmit
  <2>2. PICK post \in SubmissionAnswers(Len(adcs) + 1, disp) \cup FaultReplies :
          Posted(post, Len(adcs) + 1)
    BY <2>1
  <2>3. [name |-> arKey, uid |-> arObj.uid, owner |-> arObj.owner, csr |-> arObj.csr, disp |-> disp]
          \in Submission(Names, Csrs \cup {NoCsr})
    BY <1>1 DEF Submission, AdcsRequest
  <2>4. /\ adcs' \in Seq(Submission(Names, Csrs \cup {NoCsr})) /\ Len(adcs') = Len(adcs) + 1
        /\ Len(adcs') <= MaxSubmissions
    BY <2>1, <2>3, SubmissionsAssumption DEF Submit, Accepts, AdcsTypeOK
  <2>5. DOMAIN adcs \subseteq (DOMAIN adcs)' /\ Len(adcs) + 1 \in (DOMAIN adcs)'
    BY <2>4 DEF AdcsTypeOK
  <2>6. /\ ArWorkTypeOK' /\ IdIsKnown(arObj)' /\ (arPc = "fetch" => arId \in DOMAIN adcs)'
        /\ arTimer' \subseteq Names
    BY <1>1, <2>2, <2>4, <2>5, TypePosted DEF ArSubmit
  <2>7. \A n \in Names : IdIsKnown(ars[n])' /\ IdIsKnown(arCache[n])'
    BY <2>5 DEF ArSubmit, IdsAreKnown, IdIsKnown
  <2>8. QED
    BY <1>2, <2>4, <2>6, <2>7 DEF ArTyped, ArSubmit, KubeTypeOK, AdcsTypeOK
<1>5. QED
  BY <1>3, <1>4

(* Steps that change neither ADCS nor a stored or cached AdcsRequest. *)
LEMMA TypeArLocal ==
    ASSUME TypeInv, UNCHANGED <<adcs, ars, arCache>>, KubeTypeOK', ArWorkTypeOK',
           IdIsKnown(arObj)', (arPc = "fetch" => arId \in DOMAIN adcs)'
    PROVE  ArTyped
BY DEF TypeInv, TypeOK, ArTyped, IdsAreKnown, IdIsKnown, AdcsTypeOK

LEMMA TypeArFetch == TypeInv /\ ArFetch => ArTyped
<1> SUFFICES ASSUME TypeInv, ArFetch PROVE ArTyped
  OBVIOUS
<1> USE DEF TypeInv, TypeOK, crVars
<1>1. arKey \in Names /\ arKey # NoName /\ arId \in DOMAIN adcs
  BY NamesAssumption DEF ArFetch, ArWorkTypeOK, IdsAreKnown
<1>2. faults' \in 0..MaxFaults
  BY BoundsAssumption DEF ArFetch, Fault, KubeTypeOK
<1>3. PICK reply : Fetched(reply)
  BY DEF ArFetch
<1>4. ArWorkTypeOK' /\ IdIsKnown(arObj)' /\ arPc' # "fetch" /\ arTimer' \subseteq Names
  <2>1. CASE GetExistingCertificate(reply, arId).err = "none"
    <3> DEFINE res == GetExistingCertificate(reply, arId)
               cert == IF res.status = "Ready" THEN arId ELSE 0
    <3>1. /\ res.id = arId
          /\ res.status \in {"Pending", "Ready", "Errored", "Rejected"}
      BY <2>1, FetchedResult
    <3>2. Issued(res.status, arId, cert)
      BY <1>3, <2>1, <3>1 DEF Fetched
    <3>3. cert \in Nat
      BY <1>1 DEF AdcsTypeOK
    <3>4. /\ adcs' \in Seq(Submission(Names, Csrs \cup {NoCsr})) /\ arId \in (DOMAIN adcs)'
          /\ UNCHANGED issuerReady
      BY <1>1 DEF ArFetch, AdcsTypeOK
    <3> HIDE DEF res, cert
    <3>5. arId \in (DOMAIN adcs)' \/ (arId = IdNone /\ res.status = "Ready")
      BY <3>4
    <3>6. ArWorkTypeOK' /\ IdIsKnown(arObj)' /\ arPc' # "fetch" /\ arTimer' = arTimer
      BY <1>1, <3>1, <3>2, <3>3, <3>4, <3>5, TypeIssued
    <3>7. QED
      BY <3>6 DEF KubeTypeOK
  <2>2. CASE GetExistingCertificate(reply, arId).err # "none"
    BY <1>1, <1>3, <2>2, TypeRetry DEF Fetched, ArFetch
  <2>3. QED
    BY <2>1, <2>2
<1>5. KubeTypeOK'
  BY <1>2, <1>4 DEF ArFetch, KubeTypeOK
<1>6. QED
  BY <1>4, <1>5, TypeArLocal DEF ArFetch

LEMMA TypeArChain == TypeInv /\ ArChain => ArTyped
<1> SUFFICES ASSUME TypeInv, ArChain PROVE ArTyped
  OBVIOUS
<1> USE DEF TypeInv, TypeOK, crVars
<1>1. arKey \in Names
  BY DEF ArChain, ArWorkTypeOK
<1>2. faults' \in 0..MaxFaults
  BY BoundsAssumption DEF ArChain, Fault, KubeTypeOK
<1>3. ArWorkTypeOK' /\ IdIsKnown(arObj)' /\ arPc' # "fetch" /\ arTimer' \subseteq Names
  <2>1. CASE ArRetry
    BY <1>1, <2>1, TypeRetry DEF ArChain
  <2>2. CASE arPc' = "getCR" /\ UNCHANGED <<arKey, arObj, arId, arCert, arCr, arTimer, faults>>
    BY <1>1, <2>2, NamesAssumption DEF ArChain, ArWorkTypeOK, IdsAreKnown, IdIsKnown, KubeTypeOK
  <2>3. QED
    BY <2>1, <2>2 DEF ArChain
<1>4. KubeTypeOK'
  BY <1>2, <1>3 DEF ArChain, KubeTypeOK
<1>5. QED
  BY <1>3, <1>4, TypeArLocal DEF ArChain

LEMMA TypeArGetCr == TypeInv /\ ArGetCr => ArTyped
<1> SUFFICES ASSUME TypeInv, ArGetCr PROVE ArTyped
  OBVIOUS
<1> USE DEF TypeInv, TypeOK, crVars
<1>1. arKey \in Names /\ crCache[arKey] \in CertificateRequest
  BY DEF ArGetCr, ArWorkTypeOK, KubeTypeOK
<1>2. ArWorkTypeOK' /\ IdIsKnown(arObj)' /\ arPc' # "fetch" /\ arTimer' \subseteq Names
  <2>1. CASE ArRetry
    BY <1>1, <2>1, TypeRetry DEF ArGetCr
  <2>2. CASE ~ArRetry
    BY <1>1, <2>2, NamesAssumption
      DEF ArGetCr, GetCertificateRequest, ArWorkTypeOK, IdsAreKnown, IdIsKnown, KubeTypeOK
  <2>3. QED
    BY <2>1, <2>2
<1>3. KubeTypeOK'
  BY <1>2 DEF ArGetCr, KubeTypeOK
<1>4. QED
  BY <1>2, <1>3, TypeArLocal DEF ArGetCr

LEMMA OutcomeType ==
    ASSUME NEW cr \in CertificateRequest, NEW ar, NEW cert \in Nat
    PROVE  WithOutcome(cr, ar, cert) \in CertificateRequest
<1>1. /\ [cr EXCEPT !.ready = "Issued"] \in CertificateRequest
      /\ [cr EXCEPT !.ready = "Rejected"] \in CertificateRequest
      /\ [cr EXCEPT !.ready = "Failed"] \in CertificateRequest
  BY CrField DEF ReadyReason
<1>2. [cr EXCEPT !.ready = "Issued", !.cert = cert] \in CertificateRequest
  BY <1>1, CrField
<1>3. QED
  BY <1>1, <1>2 DEF WithOutcome

LEMMA TypeArSetCr == TypeInv /\ ArSetCr => ArTyped
<1> SUFFICES ASSUME TypeInv, ArSetCr PROVE ArTyped
  OBVIOUS
<1> USE DEF TypeInv, TypeOK
<1>1. arKey \in Names /\ arCr \in CertificateRequest /\ arCert \in Nat
  BY DEF ArSetCr, ArWorkTypeOK
<1> DEFINE cr == WithOutcome(arCr, arObj, arCert)
<1>2. cr \in CertificateRequest
  BY <1>1, OutcomeType
<1> HIDE DEF cr
<1>3. \/ UpdateCr(arKey, cr, "ok") /\ CrSet
      \/ UpdateCr(arKey, cr, "error") /\ NotSet
  BY DEF ArSetCr, cr
<1>4. crs' \in [Names -> CertificateRequest] /\ faults' \in 0..MaxFaults
  BY <1>1, <1>2, <1>3, UpdateCrTypes
<1>5. ArWorkTypeOK' /\ IdIsKnown(arObj)' /\ arPc' # "fetch" /\ arTimer' \subseteq Names
  <2>1. CASE NotSet
    BY <1>1, <2>1, TypeRetry DEF NotSet, ArSetCr
  <2>2. CASE CrSet
    BY <1>1, <2>2, CrTypes, NamesAssumption
       DEF CrSet, ArSetCr, ArWorkTypeOK, IdsAreKnown, IdIsKnown, KubeTypeOK
  <2>3. QED
    BY <1>3, <2>1, <2>2
<1>6. KubeTypeOK'
  BY <1>4, <1>5 DEF ArSetCr, KubeTypeOK
<1>7. QED
  BY <1>5, <1>6, TypeArLocal DEF ArSetCr

LEMMA TypeArSetAr == TypeInv /\ ArSetAr => ArTyped
<1> SUFFICES ASSUME TypeInv, ArSetAr PROVE ArTyped
  OBVIOUS
<1> USE DEF TypeInv, TypeOK, crVars
<1>1. arKey \in Names /\ arObj \in AdcsRequest /\ ars[arKey] \in AdcsRequest
  BY DEF ArSetAr, ArWorkTypeOK, KubeTypeOK
<1>2. PICK reply \in {"ok", "error"} : UpdateAr(arKey, arObj, reply)
  BY DEF ArSetAr
<1>3. /\ ars' \in [Names -> AdcsRequest] /\ faults' \in 0..MaxFaults
      /\ ars' = ars \/ ars' = [ars EXCEPT ![arKey] = WrittenAr(ars[arKey], arObj)]
  BY <1>1, <1>2, UpdateArTypes
<1>4. ArDone /\ arTimer' \subseteq Names
  BY <1>1 DEF ArSetAr, Saved, Finished, ArRetry, KubeTypeOK
<1>5. ArWorkTypeOK' /\ IdIsKnown(arObj)' /\ arPc' # "fetch"
  BY <1>4, ArTypes, CrTypes DEF ArDone, ArSetAr, ArWorkTypeOK, IdIsKnown, NoAr
<1>6. WrittenAr(ars[arKey], arObj).id = arObj.id /\ WrittenAr(ars[arKey], arObj).state = arObj.state
  BY <1>1 DEF WrittenAr, Written, AdcsRequest
<1>7. \A n \in Names : IdIsKnown(ars[n])' /\ IdIsKnown(arCache[n])'
  BY <1>3, <1>6 DEF ArSetAr, IdsAreKnown, IdIsKnown, KubeTypeOK
<1>8. QED
  BY <1>3, <1>4, <1>5, <1>7 DEF ArTyped, ArSetAr, KubeTypeOK, AdcsTypeOK

LEMMA TypeArWorker == TypeInv /\ ArWorker => TypeInv'
<1> SUFFICES ASSUME TypeInv, ArWorker PROVE TypeInv'
  OBVIOUS
<1>1. ArTyped
  BY TypeArTake, TypeArGetIssuer, TypeArSubmit, TypeArFetch, TypeArChain, TypeArGetCr,
     TypeArSetCr, TypeArSetAr DEF ArWorker, ArStep, ArCalls
<1>2. QED
  BY <1>1 DEF ArTyped, ArWorker, TypeInv, TypeOK, IdsAreKnown, crWork, CrWorkTypeOK

(* A decision of ADCS changes neither the numbers of the submissions nor their types. *)
LEMMA TypeAdcsDecides ==
    ASSUME TypeInv, NEW k, AdcsDecides(k)
    PROVE  TypeInv'
<1> USE DEF TypeInv, TypeOK
<1> DEFINE S == Submission(Names, Csrs \cup {NoCsr})
<1>1. k \in DOMAIN adcs /\ adcs \in Seq(S)
  BY DEF AdcsDecides, Decide, AdcsTypeOK
<1>2. PICK v \in Verdicts : adcs' = [adcs EXCEPT ![k].disp = v]
  BY DEF AdcsDecides, Decide
<1>3. adcs[k] \in S
  BY <1>1
<1>4. [adcs[k] EXCEPT !.disp = v] \in S
  BY <1>3 DEF Submission
<1> HIDE DEF S
<1>5. adcs' = [adcs EXCEPT ![k] = [adcs[k] EXCEPT !.disp = v]]
  BY <1>2
<1>6. adcs' \in Seq(S) /\ Len(adcs') = Len(adcs)
  BY <1>1, <1>4, <1>5
<1>7. (DOMAIN adcs)' = DOMAIN adcs
  BY <1>5
<1>8. AdcsTypeOK(Names, Csrs \cup {NoCsr})'
  BY <1>6 DEF AdcsTypeOK, S
<1>9. QED
  BY <1>7, <1>8 DEF AdcsDecides, kubeVars, crWork, arWork, KubeTypeOK, CrWorkTypeOK, ArWorkTypeOK,
     IdsAreKnown, IdIsKnown

LEMMA TypeRestart == TypeInv /\ Restart => TypeInv'
<1> SUFFICES ASSUME TypeInv, Restart PROVE TypeInv'
  OBVIOUS
<1> USE DEF TypeInv, TypeOK, storeVars
<1>1. KubeTypeOK'
  BY BoundsAssumption DEF Restart, Fault, KubeTypeOK
<1>2. CrWorkTypeOK' /\ ArWorkTypeOK'
  BY CrTypes, ArTypes DEF Restart, ArDone, CrWorkTypeOK, ArWorkTypeOK
<1>3. IdsAreKnown'
  BY DEF Restart, ArDone, IdsAreKnown, IdIsKnown, NoAr
<1>4. QED
  BY <1>1, <1>2, <1>3 DEF Restart, AdcsTypeOK

LEMMA TypeNext == TypeInv /\ [Next]_vars => TypeInv'
<1> SUFFICES ASSUME TypeInv, [Next]_vars PROVE TypeInv'
  OBVIOUS
<1>1. CASE UNCHANGED vars
  BY <1>1 DEF vars, kubeVars, crWork, arWork, TypeInv, TypeOK, KubeTypeOK, CrWorkTypeOK,
     ArWorkTypeOK, AdcsTypeOK, IdsAreKnown, IdIsKnown
<1>2. QED
  BY <1>1, TypeUser, TypeCluster, TypeCrWorker, TypeArWorker, TypeRestart, TypeAdcsDecides DEF Next

(***************************************************************************)
(* Every reachable state is well-typed, and the branch of Issue for a      *)
(* pending request without an id is unreachable: whatever the number of    *)
(* names, CSRs, faults and submissions is.                                 *)
(***************************************************************************)
THEOREM TypesAndIds == Spec => [](TypeOK /\ IdsAreKnown)
<1>1. Spec => []TypeInv
  BY TypeInit, TypeNext, PTL DEF Spec
<1>2. QED
  BY <1>1, PTL DEF TypeInv
=============================================================================
