------------------------- MODULE AdcsOperatorWatch -------------------------
(***************************************************************************)
(* No unfinished AdcsRequest is forgotten: a name leaves the queue only    *)
(* with the cached object in the worker's hands, and a stored object that  *)
(* changes differs from its cached copy until the watch queues it. While   *)
(* no name is used again, no approved CertificateRequest is forgotten      *)
(* either, and the verdicts of the two objects agree.                      *)
(***************************************************************************)
EXTENDS AdcsOperatorCopies

(* Once ADCS has been asked, the worker's AdcsRequest has a verdict or is pending. *)
Judged == arPc \in {"chain", "getCR", "setCR", "setAR"} => arObj.state # "Unknown"

WatchInv == Judged /\ UnfinishedIsWatched

Unfinished(n) == ars[n].live /\ ~Final(ars[n])
Remembered(n) == n \in arQueue \cup arTimer \/ arKey = n \/ arCache[n] # ars[n]

(* Until a change of a stored AdcsRequest is delivered, the cache shows something else. *)
LEMMA ChangeIsSeen ==
    ASSUME TypeInv, CopiesAreHonest, ArsCounted, NEW n \in Names,
           ars'[n] # ars[n], arCache'[n] = arCache[n]
    PROVE  arCache'[n] # ars'[n]
BY Versions DEF CopiesAreHonest, Honest, ArsCounted, Counted

(* A step that takes nothing from the queue, the delays and the worker. *)
LEMMA StillWatched ==
    ASSUME TypeInv, CopiesAreHonest, UnfinishedIsWatched, ArsCounted,
           UNCHANGED arCache, arQueue \subseteq arQueue',
           arTimer \subseteq arTimer', arKey' = arKey
    PROVE  UnfinishedIsWatched'
<1> SUFFICES ASSUME NEW n \in Names, Unfinished(n)'
             PROVE  Remembered(n)'
  BY DEF UnfinishedIsWatched, Unfinished, Remembered
<1>1. CASE ars'[n] = ars[n]
  BY <1>1 DEF UnfinishedIsWatched, Unfinished, Remembered, Final
<1>2. CASE ars'[n] # ars[n]
  BY <1>2, ChangeIsSeen DEF Remembered
<1>3. QED
  BY <1>1, <1>2

LEMMA WatchCluster ==
    ASSUME TypeInv, CopiesAreHonest, WatchInv, Cluster
    PROVE  WatchInv'
<1>1. UNCHANGED <<arWork, crWork>> /\ ArsCounted
  BY ClusterCounts
<1>2. Judged'
  BY <1>1 DEF WatchInv, Judged, arWork
<1>3. CASE \E n \in Names : SyncCr(n) \/ CrTimerFires(n) \/ GarbageCollect(n)
  <2>1. UNCHANGED <<arCache, arQueue, arTimer, arKey>>
    BY <1>1, <1>3 DEF SyncCr, CrTimerFires, GarbageCollect, arVars, arWork
  <2>2. QED
    BY <1>1, <1>2, <2>1, StillWatched DEF WatchInv
<1>4. CASE Resync
  BY <1>1, <1>2, <1>4, StillWatched DEF Resync, WatchInv, arWork, storeVars
<1>5. ASSUME NEW n \in Names, SyncAr(n) PROVE UnfinishedIsWatched'
  <2>1. /\ ars' = ars /\ arTimer' = arTimer /\ arKey' = arKey /\ arQueue' = arQueue \cup {n}
        /\ \A m \in Names : m # n => arCache'[m] = arCache[m]
    BY <1>1, <1>5 DEF SyncAr, TypeInv, TypeOK, KubeTypeOK, arWork
  <2>2. QED
    BY <2>1 DEF WatchInv, UnfinishedIsWatched
<1>6. ASSUME NEW n \in Names, ArTimerFires(n) PROVE UnfinishedIsWatched'
  BY <1>1, <1>6 DEF ArTimerFires, WatchInv, UnfinishedIsWatched, arWork
<1>7. QED
  BY <1>2, <1>3, <1>4, <1>5, <1>6 DEF Cluster, WatchInv

(* A name leaves the queue with its object, or the cache lags. *)
LEMMA WatchArTake ==
    ASSUME TypeInv, WatchInv, NEW n \in Names, ArTake(n)
    PROVE  WatchInv'
<1>1. /\ UNCHANGED <<ars, arCache, arTimer>> /\ arQueue' = arQueue \ {n} /\ arKey = NoName
      /\ \/ arCache[n].live /\ arKey' = n /\ arPc' = "issuer"
         \/ ~arCache[n].live /\ UNCHANGED arWork
  BY DEF ArTake, TypeInv, TypeOK, ArWorkTypeOK
<1>2. Judged'
  BY <1>1 DEF WatchInv, Judged, arWork
<1>3. ASSUME NEW m \in Names, Unfinished(m)' PROVE Remembered(m)'
  <2>1. m \in arQueue \cup arTimer \/ arCache[m] # ars[m]
    BY <1>1, <1>3, NamesAssumption DEF WatchInv, UnfinishedIsWatched, Unfinished, Final
  <2>2. CASE m = n /\ ~arCache[n].live
    BY <1>1, <1>3, <2>2 DEF Unfinished, Remembered
  <2>3. QED
    BY <1>1, <2>1, <2>2 DEF Remembered
<1>4. QED
  BY <1>2, <1>3 DEF WatchInv, UnfinishedIsWatched, Unfinished, Remembered

(* Reconcile returns with a retry. *)
LEMMA RetryIsWatched ==
    ASSUME TypeInv, CopiesAreHonest, WatchInv, ArsCounted,
           UNCHANGED <<arCache, arQueue>>, ArRetry
    PROVE  WatchInv'
<1>1. Judged'
  BY DEF ArRetry, ArDone, Judged
<1>2. ASSUME NEW n \in Names, Unfinished(n)' PROVE Remembered(n)'
  <2>1. CASE ars'[n] = ars[n]
    BY <1>2, <2>1 DEF ArRetry, WatchInv, UnfinishedIsWatched, Unfinished, Remembered, Final
  <2>2. CASE ars'[n] # ars[n]
    BY <2>2, ChangeIsSeen DEF Remembered
  <2>3. QED
    BY <2>1, <2>2
<1>3. QED
  BY <1>1, <1>2 DEF WatchInv, UnfinishedIsWatched, Unfinished, Remembered

(* A call after which the worker goes on with the same name. *)
LEMMA CallIsWatched ==
    ASSUME TypeInv, CopiesAreHonest, WatchInv, ArsCounted,
           UNCHANGED <<arCache, arQueue, arTimer, arKey>>, Judged'
    PROVE  WatchInv'
BY StillWatched DEF WatchInv

LEMMA WatchArWorker ==
    ASSUME TypeInv, CopiesAreHonest, WatchInv, ArWorker
    PROVE  WatchInv'
<1>1. ArsCounted /\ UNCHANGED arCache
  BY ArWorkerCounts
<1>2. ASSUME NEW status \in {"Pending", "Ready", "Errored", "Rejected"}, NEW id, NEW cert,
             Issued(status, id, cert), UNCHANGED arQueue
      PROVE  WatchInv'
  <2>1. Judged'
    BY <1>2 DEF Issued, Judged, TypeInv, TypeOK, ArWorkTypeOK, AdcsRequest
  <2>2. QED
    BY <1>1, <1>2, <2>1, CallIsWatched DEF Issued
<1>3. CASE \E n \in Names : ArTake(n)
  BY <1>3, WatchArTake
<1>4. CASE ArGetIssuer
  <2>1. UNCHANGED arQueue
    BY <1>4 DEF ArGetIssuer
  <2>2. CASE ArRetry
    BY <1>1, <2>1, <2>2, RetryIsWatched
  <2>3. CASE ~ArRetry
    <3>1. /\ arPc' = IssueStart(arObj) /\ arPc' # "retry"
          /\ UNCHANGED <<arKey, arObj, arTimer>>
      BY <1>4, <2>3 DEF ArGetIssuer
    <3>2. Judged'
      BY <3>1 DEF Judged, IssueStart
    <3>3. QED
      BY <1>1, <2>1, <3>1, <3>2, CallIsWatched
  <2>4. QED
    BY <2>2, <2>3
<1>5. CASE ArSubmit
  <2>1. UNCHANGED arQueue
    BY <1>5 DEF ArSubmit
  <2>2. \/ ArRetry
        \/ \E id, cert : Issued("Ready", id, cert)
        \/ arPc' = "fetch" /\ UNCHANGED <<arKey, arObj, arTimer>>
    BY <1>5 DEF ArSubmit, SubmissionFails, Posted
  <2>3. CASE arPc' = "fetch" /\ UNCHANGED <<arKey, arObj, arTimer>>
    BY <1>1, <2>1, <2>3, CallIsWatched DEF Judged
  <2>4. QED
    BY <1>1, <1>2, <2>1, <2>2, <2>3, RetryIsWatched
<1>6. CASE ArFetch
  <2>1. UNCHANGED arQueue
    BY <1>6 DEF ArFetch
  <2>2. \/ ArRetry
        \/ \E status \in {"Pending", "Ready", "Errored", "Rejected"} : \E id, cert : Issued(status, id, cert)
    BY <1>6, FetchedResult DEF ArFetch, Fetched
  <2>3. QED
    BY <1>1, <1>2, <2>1, <2>2, RetryIsWatched
<1>7. CASE ArChain
  <2>1. UNCHANGED arQueue
    BY <1>7 DEF ArChain
  <2>2. ArRetry \/ (arPc' = "getCR" /\ arPc = "chain" /\ UNCHANGED <<arKey, arObj, arTimer>>)
    BY <1>7 DEF ArChain
  <2>3. QED
    BY <1>1, <2>1, <2>2, RetryIsWatched, CallIsWatched DEF WatchInv, Judged
<1>8. CASE ArGetCr
  <2>1. UNCHANGED arQueue
    BY <1>8 DEF ArGetCr
  <2>2. ArRetry \/ (arPc = "getCR" /\ UNCHANGED <<arKey, arObj, arTimer>>)
    BY <1>8 DEF ArGetCr
  <2>3. QED
    BY <1>1, <2>1, <2>2, RetryIsWatched, CallIsWatched DEF WatchInv, Judged
<1>9. CASE ArSetCr
  <2>1. UNCHANGED arQueue
    BY <1>9 DEF ArSetCr
  <2>2. ArRetry \/ (arPc = "setCR" /\ UNCHANGED <<arKey, arObj, arTimer>>)
    BY <1>9 DEF ArSetCr, NotSet, CrSet
  <2>3. QED
    BY <1>1, <2>1, <2>2, RetryIsWatched, CallIsWatched DEF WatchInv, Judged
<1>10. CASE ArSetAr
  <2>1. UNCHANGED arQueue
    BY <1>10 DEF ArSetAr
  <2>2. CASE ArRetry
    BY <1>1, <2>1, <2>2, RetryIsWatched
  <2>3. CASE ~ArRetry
    <3>1. /\ arObj.state # "Pending" /\ ArDone /\ UNCHANGED arTimer
          /\ UpdateAr(arKey, arObj, "ok")
      BY <1>10, <2>3 DEF ArSetAr, Saved, Finished
    <3>2. arKey \in Names /\ arObj \in AdcsRequest /\ ars \in [Names -> AdcsRequest]
      BY <1>10 DEF ArSetAr, TypeInv, TypeOK, ArWorkTypeOK, KubeTypeOK
    <3>3. ars' = [ars EXCEPT ![arKey] = WrittenAr(ars[arKey], arObj)]
      BY <3>1 DEF UpdateAr
    <3>4. WrittenAr(ars[arKey], arObj).state = arObj.state
      BY <3>2 DEF WrittenAr, Written, AdcsRequest
    <3>5. Final(ars'[arKey])
      BY <1>10, <3>1, <3>2, <3>3, <3>4 DEF ArSetAr, WatchInv, Judged, Final, AdcsRequest, State
    <3>6. ASSUME NEW n \in Names, Unfinished(n)' PROVE Remembered(n)'
      <4>1. n # arKey /\ ars'[n] = ars[n]
        BY <3>2, <3>3, <3>5, <3>6 DEF Unfinished, Final
      <4>2. QED
        BY <1>1, <2>1, <3>1, <3>6, <4>1
           DEF WatchInv, UnfinishedIsWatched, Unfinished, Remembered, Final
    <3>7. Judged'
      BY <3>1 DEF ArDone, Judged
    <3>8. QED
      BY <3>6, <3>7 DEF WatchInv, UnfinishedIsWatched, Unfinished, Remembered
  <2>4. QED
    BY <2>2, <2>3
<1>11. QED
  BY <1>3, <1>4, <1>5, <1>6, <1>7, <1>8, <1>9, <1>10 DEF ArWorker, ArStep, ArCalls

LEMMA WatchNext == TypeInv /\ CopiesAreHonest /\ WatchInv /\ [Next]_vars => WatchInv'
<1> SUFFICES ASSUME TypeInv, CopiesAreHonest, WatchInv, [Next]_vars PROVE WatchInv'
  OBVIOUS
<1>1. CASE User
  <2>1. UNCHANGED <<ars, arCache, arWork, arQueue, arTimer>>
    BY <1>1, UserCounts DEF User, CreateRequest, Approve, Deny, DeleteRequest, StoreCr,
       ConfigureIssuer, BreakIssuer, kubeVars, arVars
  <2>2. QED
    BY <2>1 DEF WatchInv, Judged, UnfinishedIsWatched, arWork
<1>2. CASE Cluster
  BY <1>2, WatchCluster
<1>3. CASE CrWorker
  <2>1. ArsCounted /\ UNCHANGED <<arCache, arWork>>
    BY <1>3, CrWorkerCounts
  <2>2. UNCHANGED <<arQueue, arTimer>>
    BY <1>3 DEF CrWorker, CrStep, CrCalls, CrTake, CrDeny, CrSetPending, CrSetStatus,
       CrLookup, CrDelete, CrCreate, kubeVars, arVars
  <2>3. Judged'
    BY <2>1 DEF WatchInv, Judged, arWork
  <2>4. QED
    BY <2>1, <2>2, <2>3, CallIsWatched DEF arWork
<1>4. CASE ArWorker
  BY <1>4, WatchArWorker
<1>5. CASE Restart
  BY <1>5 DEF Restart, ArDone, storeVars, WatchInv, Judged, UnfinishedIsWatched
<1>6. CASE \E id \in DOMAIN adcs : AdcsDecides(id)
  BY <1>6 DEF AdcsDecides, kubeVars, arVars, arWork, WatchInv, Judged, UnfinishedIsWatched
<1>7. CASE UNCHANGED vars
  BY <1>7 DEF vars, kubeVars, arVars, arWork, WatchInv, Judged, UnfinishedIsWatched
<1>8. QED
  BY <1>1, <1>2, <1>3, <1>4, <1>5, <1>6, <1>7 DEF Next

(***************************************************************************)
(* An AdcsRequest without verdict is never forgotten, for any number of    *)
(* names, faults and restarts, with caches that lag as they like: every    *)
(* way out of Reconcile leaves it queued, delayed, or to be delivered.     *)
(***************************************************************************)
THEOREM NoneForgotten == Spec => []UnfinishedIsWatched
<1>1. Init => WatchInv
  BY DEF Init, KubeInit, ArWorkInit, NoAr, WatchInv, Judged, UnfinishedIsWatched
<1>2. Spec => []TypeInv
  BY TypesAndIds, PTL DEF TypeInv
<1>3. QED
  BY <1>1, <1>2, Copies, WatchNext, PTL DEF Spec, WatchInv
-----------------------------------------------------------------------------
(***************************************************************************)
(* Approved CertificateRequests, while no name is used again.  The worker  *)
(* then never deletes an AdcsRequest of a CertificateRequest that is there *)
(* (its CSR is the same), the cache shows one only if it is there, and a   *)
(* request without condition has no certificate that would make Reconcile  *)
(* ignore it.                                                              *)
(***************************************************************************)
NotMarked(cr) == cr.ready = "None"
Single ==
    /\ crPc = "delete" => ~crs[crKey].live
    /\ \A n \in Names :
         /\ crs[n].live /\ arCache[n].live => ars[n].live
         /\ NotMarked(crs[n]) => crs[n].cert = 0
         /\ crs[n].approved => crs[n].live

Waits(n) == crs[n].approved /\ crs[n].ref # "foreign" /\ NotMarked(crs[n]) /\ ~ars[n].live
Kept(n) == n \in crQueue \cup crTimer \/ crKey = n \/ crCache[n] # crs[n]

(* Whoever updates a CertificateRequest leaves a Ready condition in it. *)
LEMMA UpdateMarks ==
    ASSUME TypeInv, CopiesAreHonest, [Next]_vars, ~User, NEW n \in Names
    PROVE  crs'[n] = crs[n] \/ ~NotMarked(crs'[n])
<1> USE DEF NotMarked
<1>1. crs \in [Names -> CertificateRequest]
  BY DEF TypeInv, TypeOK, KubeTypeOK
<1>2. ASSUME NEW m \in Names, NEW obj \in CertificateRequest, NEW reply, UpdateCr(m, obj, reply),
             obj.ready # "None"
      PROVE  crs'[n] = crs[n] \/ crs'[n].ready # "None"
  <2> DEFINE w == WrittenCr(crs[m], obj)
  <2>1. w = crs[m] \/ w.ready # "None"
    BY <1>1, <1>2 DEF WrittenCr, Written, CertificateRequest
  <2>2. crs' \in {crs, [crs EXCEPT ![m] = w]}
    BY <1>2 DEF UpdateCr
  <2> HIDE DEF w
  <2>3. QED
    BY <1>1, <2>1, <2>2
<1>3. CASE CrWorker /\ (CrDeny \/ CrSetPending)
  <2>1. crKey \in Names /\ crObj \in CertificateRequest
    BY <1>3 DEF CrDeny, CrSetPending, TypeInv, TypeOK, CrWorkTypeOK
  <2>2. PICK ready \in ReadyReason \ {"None"} : CrSetStatus(ready)
    BY <1>3 DEF CrDeny, CrSetPending, ReadyReason
  <2>3. [crObj EXCEPT !.ready = ready] \in CertificateRequest
        /\ [crObj EXCEPT !.ready = ready].ready # "None"
    BY <2>1, <2>2 DEF CertificateRequest
  <2>4. QED
    BY <1>2, <2>1, <2>2, <2>3 DEF CrSetStatus
<1>4. CASE ArWorker /\ ArSetCr
  <2> DEFINE cr == WithOutcome(arCr, arObj, arCert)
  <2>1. /\ arKey \in Names /\ arKey # NoName /\ arPc = "setCR" /\ cr \in CertificateRequest
        /\ arCr \in CertificateRequest
    BY <1>4, OutcomeType DEF ArSetCr, TypeInv, TypeOK, ArWorkTypeOK
  <2>2. PICK reply : UpdateCr(arKey, cr, reply)
    BY <1>4 DEF ArSetCr
  <2>3. cr = arCr \/ cr.ready # "None"
    BY <2>1 DEF WithOutcome, CertificateRequest
  <2>4. CASE cr = arCr
    <3>1. Current(crs[arKey], cr) => crs[arKey] = arCr
      BY <2>1, <2>4 DEF Current, CopiesAreHonest, Honest
    <3>2. crs[arKey] = arCr => WrittenCr(crs[arKey], cr) = crs[arKey]
      <4>1. [arCr EXCEPT !.ready = arCr.ready, !.cert = arCr.cert] = arCr
        BY <2>1 DEF CertificateRequest
      <4>2. QED
        BY <2>4, <4>1 DEF WrittenCr, Written
    <3>3. crs' = crs \/ (Current(crs[arKey], cr) /\ crs' = [crs EXCEPT ![arKey] = WrittenCr(crs[arKey], cr)])
      BY <2>2 DEF UpdateCr
    <3>4. QED
      BY <1>1, <2>1, <3>1, <3>2, <3>3
  <2> HIDE DEF cr
  <2>5. QED
    BY <1>2, <2>1, <2>2, <2>3, <2>4
<1>5. CASE UNCHANGED crs
  BY <1>5
<1>6. QED
  BY <1>3, <1>4, <1>5 DEF Next, Cluster, SyncCr, SyncAr, CrTimerFires, ArTimerFires, Resync,
     GarbageCollect, crVars, storeVars, Restart, AdcsDecides, vars, kubeVars, CrWorker, CrStep, CrCalls,
     CrLookup, CrDelete, CrCreate, CrTake, ArWorker, ArStep, ArCalls, ArTake, ArGetIssuer, ArSubmit,
     ArFetch, ArChain, ArGetCr, ArSetAr

(* Users decide about requests that are there, and a new request has neither condition nor certificate. *)
AsUsersMark(old, new) ==
    \/ NotMarked(new) /\ new.cert = 0 /\ ~new.approved /\ ~(old.live /\ new.live)
    \/ /\ new.ready = old.ready /\ new.cert = old.cert /\ new.live = old.live
       /\ new.approved => old.approved \/ new.live

LEMMA UserMarks ==
    ASSUME TypeInv, User, NEW n \in Names
    PROVE  AsUsersMark(crs[n], crs'[n])
<1> USE DEF AsUsersMark, NotMarked
<1>1. crs \in [Names -> CertificateRequest]
  BY DEF TypeInv, TypeOK, KubeTypeOK
<1>2. ASSUME NEW m \in Names, NEW cr, StoreCr(m, cr), AsUsersMark(crs[m], cr)
      PROVE  AsUsersMark(crs[n], crs'[n])
  BY <1>1, <1>2 DEF StoreCr
<1>3. \A old, csr, ref : /\ ~old.live => AsUsersMark(old, NewCr(old, csr, ref))
                         /\ AsUsersMark(old, DeletedCr(old))
  <2>1. \A old, csr, ref : ~old.live => AsUsersMark(old, NewCr(old, csr, ref))
    BY DEF NewCr
  <2>2. \A old : AsUsersMark(old, DeletedCr(old))
    BY DEF DeletedCr, NoCr
  <2>3. QED
    BY <2>1, <2>2
<1>4. \A old \in CertificateRequest : old.live =>
        /\ AsUsersMark(old, [old EXCEPT !.approved = TRUE, !.rev = @ + 1])
        /\ AsUsersMark(old, [old EXCEPT !.denied = TRUE, !.rev = @ + 1])
  BY DEF CertificateRequest
<1>5. CASE \E m \in Names : CreateRequest(m) \/ DeleteRequest(m)
  BY <1>2, <1>3, <1>5 DEF CreateRequest, DeleteRequest
<1>6. CASE \E m \in Names : Approve(m) \/ Deny(m)
  BY <1>1, <1>2, <1>4, <1>6 DEF Approve, Deny, Undecided
<1>7. CASE ConfigureIssuer \/ BreakIssuer
  BY <1>7 DEF ConfigureIssuer, BreakIssuer, kubeVars
<1>8. QED
  BY <1>5, <1>6, <1>7 DEF User

(* A name that has been used is not used again. *)
LEMMA UsedOnce ==
    ASSUME MaxRequests <= 1, TypeInv, DecisionInv, [Next]_vars, NEW n \in Names,
           NEW uid \in Nat, NEW csr, Descends(crs[n], uid, csr)
    PROVE  /\ uid = 1 /\ crs[n].uid = 1
           /\ ~crs[n].live => ~crs'[n].live
<1>1. crs[n].uid \in Nat /\ MaxRequests \in Nat /\ crs[n].uid <= MaxRequests
  BY UsersAssumption DEF TypeInv, TypeOK, KubeTypeOK, CertificateRequest, DecisionInv
<1>2. uid = 1 /\ crs[n].uid = 1
  BY <1>1 DEF Descends
<1>3. crs'[n].uid <= MaxRequests /\ crs'[n].uid \in Nat
  BY DecisionNext, TypeNext DEF DecisionInv, TypeInv, TypeOK, KubeTypeOK, CertificateRequest
<1>4. QED
  BY <1>1, <1>2, <1>3, CrSteps DEF Succeeds, SameRequest

LEMMA SingleNext ==
    ASSUME MaxRequests <= 1, TypeInv, CopiesAreHonest, DecisionInv, DescentInv, Single, [Next]_vars
    PROVE  Single'
<1>1. /\ \A n \in Names : /\ crs[n].uid \in Nat /\ ars[n].owner \in Nat /\ arCache[n].owner \in Nat
      /\ crObj.uid \in Nat
      /\ crKey # NoName => crKey \in Names
      /\ crPc = "idle" <=> crKey = NoName
  BY DEF TypeInv, TypeOK, KubeTypeOK, CrWorkTypeOK, CertificateRequest, AdcsRequest
<1>2. TypeInv' /\ DecisionInv' /\ DescentInv'
  BY TypeNext, DecisionNext, DescentNext
<1>3. ASSUME crPc' = "delete" PROVE ~crs'[crKey'].live
  <2>1. CASE crPc = "delete" /\ crKey' = crKey /\ crObj' = crObj
    <3>1. Descends(crs[crKey], crObj.uid, crObj.csr) /\ crKey \in Names
      BY <1>1, <2>1 DEF DescentInv
    <3>2. QED
      BY <1>1, <2>1, <3>1, UsedOnce DEF Single
  <2>2. CASE CrLookup /\ crs' = crs
    <3>1. /\ crKey \in Names /\ crKey # NoName /\ crKey' = crKey
          /\ arCache[crKey].live /\ arCache[crKey].csr # crObj.csr
      BY <1>1, <1>3, <2>2 DEF CrLookup, CrDone, CrGoto, RequestDiffers
    <3>2. /\ Descends(crs[crKey], crObj.uid, crObj.csr)
          /\ Descends(crs[crKey], arCache[crKey].owner, arCache[crKey].csr)
      BY <3>1 DEF DescentInv
    <3>3. crs[crKey].uid = 1 /\ crObj.uid = 1 /\ arCache[crKey].owner = 1
      BY <1>1, <3>1, <3>2, UsedOnce
    <3>4. QED
      BY <2>2, <3>1, <3>2, <3>3 DEF Descends
  <2>3. CASE CrWorker
    <3>1. CASE CrCalls
      BY <1>3, <2>2, <2>3, <3>1 DEF CrWorker, CrCalls, CrDeny, CrSetPending, CrSetStatus, CrLookup, CrDelete,
         CrCreate, CrDone, CrFail, CrGoto, kubeVars
    <3>2. CASE \E m \in Names : CrTake(m)
      BY <1>1, <1>3, <3>2 DEF CrTake, crWork
    <3>3. QED
      BY <2>3, <3>1, <3>2 DEF CrWorker, CrStep
  <2>4. CASE ~CrWorker /\ ~Restart
    <3>1. UNCHANGED crWork
      BY <2>4, UserCounts, ClusterCounts, ArWorkerCounts DEF Next, AdcsDecides, vars
    <3>2. QED
      BY <1>3, <2>1, <3>1 DEF crWork
  <2>5. CASE Restart
    BY <1>3, <2>5 DEF Restart
  <2>6. QED
    BY <2>3, <2>4, <2>5
<1>4. ASSUME NEW n \in Names, crs'[n].live, arCache'[n].live PROVE ars'[n].live
  <2>1. CASE arCache'[n] = ars'[n]
    BY <1>4, <2>1
  <2>2. CASE arCache'[n] = arCache[n]
    <3>1. Descends(crs[n], arCache[n].owner, arCache[n].csr)
      BY <1>4, <2>2 DEF DescentInv
    <3>2. crs[n].live
      BY <1>1, <1>4, <3>1, UsedOnce
    <3>3. ars[n].live
      BY <1>4, <2>2, <3>2 DEF Single
    <3>4. crs[n].uid = 1 /\ ars[n].owner = 1
      BY <1>1, <3>3, UsedOnce DEF DescentInv
    <3>5. ~Orphan(n) /\ ~(crPc = "delete" /\ crKey = n)
      BY <3>2, <3>4 DEF Orphan, Single
    <3>6. QED
      BY <3>3, <3>5, ArSteps DEF ArChange
  <2>3. QED
    BY <2>1, <2>2, CopySteps
<1>5. ASSUME NEW n \in Names PROVE /\ NotMarked(crs'[n]) => crs'[n].cert = 0
                                   /\ crs'[n].approved => crs'[n].live
  <2>1. CASE User
    <3>1. AsUsersMark(crs[n], crs'[n])
      BY <2>1, UserMarks
    <3>2. (NotMarked(crs[n]) => crs[n].cert = 0) /\ (crs[n].approved => crs[n].live)
      BY DEF Single
    <3>3. QED
      BY <3>1, <3>2 DEF AsUsersMark, NotMarked
  <2>2. CASE ~User
    <3>1. crs'[n] = crs[n] \/ ~NotMarked(crs'[n])
      BY <2>2, UpdateMarks
    <3>2. SameRequest(crs[n], crs'[n])
      BY <2>2, OnlyUsersDecide
    <3>3. QED
      BY <3>1, <3>2 DEF Single, SameRequest
  <2>3. QED
    BY <2>1, <2>2
<1>6. QED
  BY <1>3, <1>4, <1>5 DEF Single

(* Until a change of a stored CertificateRequest is delivered, the cache shows something else. *)
LEMMA CrChangeIsSeen ==
    ASSUME TypeInv, CopiesAreHonest, [Next]_vars, NEW n \in Names, crs'[n] # crs[n]
    PROVE  crCache'[n] # crs'[n]
<1>1. CrsCounted /\ crCache'[n] \in {crCache[n], crs'[n]}
  BY CopySteps
<1>2. CASE crCache'[n] = crCache[n]
  BY <1>1, <1>2, Versions DEF CopiesAreHonest, Honest, CrsCounted, Counted
<1>3. CASE crCache'[n] # crCache[n]
  <2>1. (\E m \in Names : SyncCr(m)) \/ Restart
    BY <1>3, UserCounts, ClusterCounts, CrWorkerCounts, ArWorkerCounts DEF Next, Cluster, SyncAr,
       CrTimerFires, ArTimerFires, Resync, GarbageCollect, crVars, AdcsDecides, vars, kubeVars
  <2>2. QED
    BY <2>1 DEF SyncCr, Restart, storeVars
<1>4. QED
  BY <1>2, <1>3

(* What is asked of a step that leaves the CertificateRequest of n as it is. *)
LEMMA KeptNext ==
    ASSUME TypeInv, CopiesAreHonest, Single, [Next]_vars, NEW n \in Names,
           Waits(n), crs'[n] = crs[n], Kept(n)
    PROVE  Kept(n)'
<1>1. crs[n].live /\ ~arCache[n].live /\ ~Ignored(crs[n]) /\ n # NoName
  BY NamesAssumption DEF Waits, Single, Ignored, NotMarked, Decided
<1>2. ASSUME UNCHANGED crCache, crQueue \subseteq crQueue', crTimer \subseteq crTimer', crKey = n => crKey' = n
      PROVE  Kept(n)'
  BY <1>2 DEF Kept
<1>3. ASSUME NEW ready \in ReadyReason \ {"None"}, CrSetStatus(ready), crPc # "idle" PROVE Kept(n)'
  <2>1. crKey \in Names /\ crObj \in CertificateRequest /\ crs[n] \in CertificateRequest
        /\ crs \in [Names -> CertificateRequest]
    BY <1>3 DEF TypeInv, TypeOK, CrWorkTypeOK, KubeTypeOK
  <2> DEFINE obj == [crObj EXCEPT !.ready = ready]
  <2>2. CASE crKey = n /\ UpdateCr(crKey, obj, "ok")
    <3> DEFINE w == WrittenCr(crs[n], obj)
    <3>1. obj.ready # "None"
      BY <1>3, <2>1 DEF CertificateRequest
    <3>2. w.ready = obj.ready
      BY <2>1 DEF WrittenCr, Written, CertificateRequest
    <3>3. crs'[n] = w
      BY <2>1, <2>2 DEF UpdateCr
    <3>4. QED
      BY <3>1, <3>2, <3>3 DEF Waits, NotMarked
  <2>3. CASE crKey # n \/ CrFail
    BY <1>1, <1>2, <1>3, <2>3 DEF CrSetStatus, CrFail, CrDone, Kept
  <2>4. QED
    BY <1>3, <2>2, <2>3 DEF CrSetStatus
<1>4. CASE CrWorker
  <2>1. CASE CrDeny \/ CrSetPending
    BY <1>3, <2>1 DEF CrDeny, CrSetPending, ReadyReason
  <2>2. CASE CrLookup
    BY <1>1, <1>2, <2>2 DEF CrLookup, CrDone, CrGoto, kubeVars
  <2>3. CASE CrDelete
    BY <1>2, <2>3 DEF CrDelete, CrGoto, crVars
  <2>4. CASE CrCreate
    BY <1>1, <1>2, <2>4 DEF CrCreate, CrGoto, CrFail, CrDone, Kept
  <2>5. ASSUME NEW m \in Names, CrTake(m) PROVE Kept(n)'
    <3>1. CASE m = n /\ crCache[n] = crs[n]
      BY <1>1, <2>5, <3>1 DEF CrTake, GetCertificateRequest, Kept
    <3>2. CASE m = n /\ crCache[n] # crs[n]
      BY <2>5, <3>2 DEF CrTake, Kept
    <3>3. CASE m # n
      BY <1>1, <2>5, <3>3 DEF CrTake, crWork, Kept, TypeInv, TypeOK, CrWorkTypeOK
    <3>4. QED
      BY <3>1, <3>2, <3>3
  <2>6. QED
    BY <1>4, <2>1, <2>2, <2>3, <2>4, <2>5 DEF CrWorker, CrStep, CrCalls
<1>5. CASE Cluster
  <2>1. crKey' = crKey
    BY <1>5 DEF Cluster, Others, crWork
  <2>2. CASE Resync \/ \E m \in Names : SyncAr(m) \/ ArTimerFires(m) \/ GarbageCollect(m)
    BY <1>2, <2>1, <2>2 DEF Resync, SyncAr, ArTimerFires, GarbageCollect, crVars, storeVars
  <2>3. CASE \E m \in Names : SyncCr(m)
    BY <2>1, <2>3 DEF SyncCr, Kept, TypeInv, TypeOK, KubeTypeOK
  <2>4. CASE \E m \in Names : CrTimerFires(m)
    BY <2>1, <2>4 DEF CrTimerFires, Kept
  <2>5. QED
    BY <1>5, <2>2, <2>3, <2>4 DEF Cluster
<1>6. CASE Restart
  BY <1>1, <1>6 DEF Restart, Kept
<1>7. CASE User
  BY <1>2, <1>7 DEF User, CreateRequest, Approve, Deny, DeleteRequest, StoreCr, ConfigureIssuer,
     BreakIssuer, kubeVars, crWork
<1>8. CASE ArWorker
  BY <1>2, <1>8 DEF ArWorker, ArStep, ArCalls, ArTake, ArGetIssuer, ArSubmit, ArFetch, ArChain, ArGetCr,
     ArSetCr, ArSetAr, crVars, crWork
<1>9. CASE (\E id \in DOMAIN adcs : AdcsDecides(id)) \/ UNCHANGED vars
  BY <1>2, <1>9 DEF AdcsDecides, vars, kubeVars, crWork
<1>10. QED
  BY <1>4, <1>5, <1>6, <1>7, <1>8, <1>9 DEF Next

LEMMA WaitingNext ==
    ASSUME MaxRequests <= 1, TypeInv, CopiesAreHonest, DecisionInv, DescentInv, Single,
           ApprovedIsWatched, [Next]_vars
    PROVE  ApprovedIsWatched'
<1> SUFFICES ASSUME NEW n \in Names, Waits(n)' PROVE Kept(n)'
  BY DEF ApprovedIsWatched, Waits, Kept, NotMarked
<1>1. CASE crs'[n] # crs[n]
  BY <1>1, CrChangeIsSeen DEF Kept
<1>2. CASE crs'[n] = crs[n]
  <2>1. ~ars[n].live
    <3> SUFFICES ASSUME ars[n].live PROVE FALSE
      OBVIOUS
    <3>1. Descends(crs[n], ars[n].owner, ars[n].csr) /\ ars[n].owner \in Nat
      BY DEF DescentInv, TypeInv, TypeOK, KubeTypeOK, AdcsRequest
    <3>2. crs[n].live /\ crs[n].uid = 1 /\ ars[n].owner = 1
      BY <1>2, <3>1, UsedOnce DEF Waits, Single
    <3>3. ~Orphan(n) /\ ~(crPc = "delete" /\ crKey = n)
      BY <3>2 DEF Orphan, Single
    <3>4. QED
      BY <3>3, ArSteps DEF ArChange, Waits
  <2>2. Waits(n)
    BY <1>2, <2>1 DEF Waits
  <2>3. Kept(n)
    BY <2>2 DEF ApprovedIsWatched, Waits, Kept, NotMarked
  <2>4. QED
    BY <1>2, <2>2, <2>3, KeptNext
<1>3. QED
  BY <1>1, <1>2

(***************************************************************************)
(* An approved CertificateRequest that has no AdcsRequest yet is never     *)
(* forgotten, for any number of names and faults, with caches that lag as  *)
(* they like, as long as no name is used again.  (With a name used again   *)
(* the AdcsRequest of the request before it may be taken for its own, and  *)
(* deleted with its owner when this one has left the queue: the resync     *)
(* brings it back.)                                                        *)
(***************************************************************************)
THEOREM ApprovedNoneForgotten ==
    ASSUME MaxRequests <= 1
    PROVE  Spec => []ApprovedIsWatched
<1>1. Init => Single /\ ApprovedIsWatched
  BY DEF Init, KubeInit, CrWorkInit, NoAr, NoCr, Single, NotMarked, ApprovedIsWatched
<1>2. Spec => []TypeInv
  BY TypesAndIds, PTL DEF TypeInv
<1>3. QED
  BY <1>1, <1>2, Copies, Descent, SingleNext, WaitingNext, PTL DEF Spec
-----------------------------------------------------------------------------
(***************************************************************************)
(* The verdict of an AdcsRequest and the one of its owner.  With caches    *)
(* that are delivered before a name is reconciled again, what the worker   *)
(* holds began as the stored AdcsRequest.  So a final one is not brought   *)
(* to ADCS again, and the verdict that its last call writes is the one     *)
(* that the CertificateRequest has got before, or its later denial.        *)
(***************************************************************************)
Agree(cr, state) == cr.ready = OutcomeOf(state) \/ (state = "Rejected" /\ cr.ready = "Denied")

InHand(n) ==
    /\ ars[n].live /\ arCache[n].live
    /\ arPc = "issuer" \/ Final(ars[n]) => arObj.state = ars[n].state
    /\ Final(ars[n]) => arPc \in {"issuer", "getCR", "setCR", "setAR"}
    /\ arPc = "setAR" /\ Final(arObj) => Agree(crs[n], arObj.state)

(* A rejection may be overwritten by the reconciler that reads it: not with *)
(* "Processing", since the AdcsRequest is in the cache where it would look. *)
RejectionIsKnown(n) ==
    /\ crs[n].ready = "Rejected" => arCache[n].live
    /\ crCache[n].live /\ crCache[n].ready = "Rejected" => arCache[n].live
    /\ crKey = n /\ crObj.ready = "Rejected" => arCache[n].live /\ crPc \notin {"create", "pending"}

AgreeAt(n) ==
    crs[n].live =>
        /\ arKey = n => InHand(n)
        /\ RejectionIsKnown(n)
        /\ ars[n].live /\ Final(ars[n]) => Agree(crs[n], ars[n].state)

AgreeInv == \A n \in Names : AgreeAt(n)

(* What the CertificateRequest worker writes, and when. *)
LEMMA CrWrites ==
    ASSUME TypeInv, CopiesAreHonest, UndecidedInv, CrWorker, NEW n \in Names, crs'[n] # crs[n]
    PROVE  /\ crKey = n /\ crs[n] = crObj /\ ~Decided(crObj) /\ crKey' = NoName
           /\ \/ crPc = "deny" /\ crs'[n].ready = "Denied"
              \/ crPc = "pending" /\ crs'[n].ready = "Processing"
<1>1. crs \in [Names -> CertificateRequest] /\ crObj \in CertificateRequest
  BY DEF TypeInv, TypeOK, KubeTypeOK, CrWorkTypeOK
<1>2. PICK ready \in {"Denied", "Processing"} :
        CrSetStatus(ready) /\ crPc = IF ready = "Denied" THEN "deny" ELSE "pending"
  BY DEF CrWorker, CrStep, CrCalls, CrDeny, CrSetPending, CrLookup, CrDelete, CrCreate, CrTake, kubeVars, crVars
<1>3. crKey \in Names /\ crKey # NoName /\ ~Decided(crObj) /\ crKey' = NoName
  BY <1>2 DEF TypeInv, TypeOK, CrWorkTypeOK, UndecidedInv, CrSetStatus, CrFail, CrDone
<1> DEFINE obj == [crObj EXCEPT !.ready = ready]
           w == WrittenCr(crs[crKey], obj)
<1>4. obj.ready = ready /\ obj.rev = crObj.rev /\ w.ready = obj.ready
  BY <1>1, <1>2, <1>3 DEF WrittenCr, Written, CertificateRequest
<1>5. Current(crs[crKey], obj) /\ crs' = [crs EXCEPT ![crKey] = w]
  BY <1>2 DEF CrSetStatus, UpdateCr
<1>6. crs[crKey] = crObj
  BY <1>3, <1>4, <1>5 DEF Current, CopiesAreHonest, Honest
<1> HIDE DEF obj, w
<1>7. n = crKey /\ crs'[n] = w
  BY <1>1, <1>3, <1>5
<1>8. QED
  BY <1>2, <1>3, <1>4, <1>6, <1>7

(***************************************************************************)
(* A request that is there has been there when something was kept about    *)
(* it, and its AdcsRequest stays.                                          *)
(***************************************************************************)
LEMMA RequestStays ==
    ASSUME MaxRequests <= 1, TypeInv, CopiesAreHonest, DecisionInv, DescentInv, Single, [Next]_vars,
           NEW n \in Names, crs'[n].live
    PROVE  /\ crs[n].live \/ (/\ ~ars[n].live /\ ~arCache[n].live /\ ~crCache[n].live
                              /\ crKey # n /\ arKey # n)
           /\ ars[n].live => ars'[n].live
           /\ arCache[n].live => ars[n].live /\ arCache'[n].live
<1>1. /\ ars[n].owner \in Nat /\ arCache[n].owner \in Nat /\ crCache[n].uid \in Nat
      /\ crObj.uid \in Nat /\ arObj.owner \in Nat /\ n # NoName
  BY NamesAssumption DEF TypeInv, TypeOK, KubeTypeOK, CrWorkTypeOK, ArWorkTypeOK, CertificateRequest, AdcsRequest
<1>2. \A uid \in Nat : \A csr : Descends(crs[n], uid, csr) => uid = 1 /\ crs[n].uid = 1 /\ crs[n].live
  BY UsedOnce
<1>3. /\ ars[n].live => Descends(crs[n], ars[n].owner, ars[n].csr)
      /\ arCache[n].live => Descends(crs[n], arCache[n].owner, arCache[n].csr)
      /\ crCache[n].live => Descends(crs[n], crCache[n].uid, crCache[n].csr)
      /\ crKey = n => Descends(crs[n], crObj.uid, crObj.csr)
      /\ arKey = n => Descends(crs[n], arObj.owner, arObj.csr)
  BY <1>1 DEF DescentInv
<1>4. crs[n].live \/ (/\ ~ars[n].live /\ ~arCache[n].live /\ ~crCache[n].live /\ crKey # n /\ arKey # n)
  BY <1>1, <1>2, <1>3
<1>5. ars[n].live => ars'[n].live
  <2> SUFFICES ASSUME ars[n].live PROVE ars'[n].live
    OBVIOUS
  <2>1. crs[n].live /\ ars[n].owner = 1 /\ crs[n].uid = 1
    BY <1>1, <1>2, <1>3
  <2>2. ~Orphan(n) /\ ~(crPc = "delete" /\ crKey = n)
    BY <2>1 DEF Orphan, Single
  <2>3. QED
    BY <2>2, ArSteps DEF ArChange
<1>6. arCache[n].live => ars[n].live
  BY <1>4 DEF Single
<1>7. arCache[n].live => arCache'[n].live
  BY <1>5, <1>6, CopySteps
<1>8. QED
  BY <1>4, <1>5, <1>6, <1>7

(* The state of an AdcsRequest changes in the last call of Reconcile; a new one has none. *)
LEMMA StateSteps ==
    ASSUME TypeInv, [Next]_vars, NEW n \in Names, ars'[n].live
    PROVE  \/ ars'[n] = ars[n]
           \/ ~Final(ars'[n]) /\ ~ars[n].live
           \/ ArSetAr /\ arKey = n /\ arKey' = NoName /\ ars'[n].state = arObj.state
<1>1. ars \in [Names -> AdcsRequest]
  BY DEF TypeInv, TypeOK, KubeTypeOK
<1>2. ASSUME NEW m \in Names, Deletes(m) PROVE ars'[n] = ars[n]
  BY <1>1, <1>2, DeletedObject DEF Deletes
<1>3. ASSUME NEW m \in Names, Creates(m) PROVE ars'[n] = ars[n] \/ (~Final(ars'[n]) /\ ~ars[n].live)
  <2>1. PICK cr : ~ars[m].live /\ ars' = [ars EXCEPT ![m] = NewAr(ars[m], cr)]
    BY <1>3 DEF Creates
  <2>2. NewAr(ars[m], cr).state = "Unknown"
    BY NewObject
  <2>3. QED
    BY <1>1, <2>1, <2>2 DEF Final
<1>4. ASSUME NEW m \in Names, Writes(m)
      PROVE  ars'[n] = ars[n] \/ (ArSetAr /\ arKey = n /\ arKey' = NoName /\ ars'[n].state = arObj.state)
  <2>1. arObj \in AdcsRequest
    BY DEF TypeInv, TypeOK, ArWorkTypeOK
  <2>2. WrittenAr(ars[m], arObj).state = arObj.state
    BY <1>1, <2>1, WrittenObject
  <2>3. arKey' = NoName
    BY <1>4 DEF Writes, ArSetAr, Saved, Finished, ArRetry, ArDone
  <2>4. QED
    BY <1>1, <1>4, <2>2, <2>3 DEF Writes
<1>5. QED
  BY <1>2, <1>3, <1>4, StoreSteps

(* Everything but the two workers leaves the conditions alone. *)
LEMMA ConditionStays ==
    ASSUME TypeInv, [Next]_vars, ~CrWorker, ~ArWorker, NEW n \in Names, crs[n].live, crs'[n].live
    PROVE  crs'[n].ready = crs[n].ready
<1>1. CASE User
  <2>1. AsUsersMark(crs[n], crs'[n])
    BY <1>1, UserMarks
  <2>2. QED
    BY <2>1 DEF AsUsersMark
<1>2. CASE Cluster
  BY <1>2 DEF Cluster, SyncCr, SyncAr, CrTimerFires, ArTimerFires, Resync, GarbageCollect, crVars, storeVars
<1>3. CASE Restart \/ UNCHANGED vars \/ \E id \in DOMAIN adcs : AdcsDecides(id)
  BY <1>3 DEF Restart, storeVars, vars, kubeVars, AdcsDecides
<1>4. QED
  BY <1>1, <1>2, <1>3 DEF Next

SingleInv ==
    TypeInv /\ CopiesAreHonest /\ DecisionInv /\ DescentInv /\ Single /\ UndecidedInv

LEMMA NewRequestAgrees ==
    ASSUME MaxRequests <= 1, SingleInv, [Next]_vars, NEW n \in Names, crs'[n].live, ~crs[n].live
    PROVE  AgreeAt(n)'
<1>1. User
  BY OnlyUsersDecide DEF SameRequest, SingleInv
<1>2. UNCHANGED <<ars, crCache, arCache, crWork, arWork>>
  BY <1>1, UserCounts DEF SingleInv
<1>3. ~ars[n].live /\ ~arCache[n].live /\ ~crCache[n].live /\ crKey # n /\ arKey # n
  BY RequestStays DEF SingleInv
<1>4. AsUsersMark(crs[n], crs'[n])
  BY <1>1, UserMarks DEF SingleInv
<1>5. crs'[n].ready = "None"
  BY <1>4 DEF AsUsersMark, NotMarked
<1>6. QED
  BY <1>2, <1>3, <1>5 DEF AgreeAt, RejectionIsKnown, crWork, arWork

LEMMA OthersAgree ==
    ASSUME MaxRequests <= 1, SingleInv, [Next]_vars, ~CrWorker, ~ArWorker,
           NEW n \in Names, crs[n].live, crs'[n].live, AgreeAt(n)
    PROVE  AgreeAt(n)'
<1>1. crs'[n].ready = crs[n].ready
  BY ConditionStays DEF SingleInv
<1>2. /\ ars[n].live => ars'[n].live
      /\ arCache[n].live => arCache'[n].live
  BY RequestStays DEF SingleInv
<1>3. n # NoName
  BY NamesAssumption
<1>4. UNCHANGED crWork \/ crKey' = NoName
  BY UserCounts, ClusterCounts DEF Next, Restart, AdcsDecides, vars, SingleInv, crWork
<1>5. UNCHANGED arWork \/ (arKey' = NoName /\ UNCHANGED ars)
  BY UserCounts, ClusterCounts DEF Next, Restart, ArDone, AdcsDecides, vars, SingleInv, arWork, storeVars
<1>6. crCache'[n] = crCache[n] \/ (crCache'[n] = crs'[n] /\ (crCache'[n].ready = crs[n].ready))
  BY <1>1, CopySteps DEF SingleInv
<1>7. RejectionIsKnown(n)'
  <2>1. (crs[n].ready = "Rejected" => arCache[n].live) /\ RejectionIsKnown(n)
    BY DEF AgreeAt, RejectionIsKnown
  <2>2. crKey' = n => UNCHANGED <<crPc, crKey, crObj>>
    BY <1>3, <1>4 DEF crWork
  <2>3. QED
    BY <1>1, <1>2, <1>6, <2>1, <2>2 DEF RejectionIsKnown
<1>8. arKey' = n => UNCHANGED arWork /\ arKey = n /\ ars[n].live /\ ars'[n] = ars[n]
  <2>1. arKey' = n => UNCHANGED arWork /\ arKey = n /\ ars[n].live
    BY <1>3, <1>5 DEF arWork, AgreeAt, InHand
  <2>2. QED
    BY <1>2, <1>3, <2>1, StateSteps DEF SingleInv
<1>9. arKey' = n => InHand(n)'
  BY <1>1, <1>2, <1>8 DEF AgreeAt, InHand, Agree, Final, arWork
<1>10. ars'[n].live /\ Final(ars'[n]) => ars'[n] = ars[n]
  <2>1. CASE UNCHANGED arWork
    BY <1>3, <2>1, StateSteps DEF SingleInv, arWork
  <2>2. QED
    BY <1>5, <2>1
<1>11. QED
  BY <1>1, <1>7, <1>9, <1>10 DEF AgreeAt, Agree

LEMMA CrWorkerAgrees ==
    ASSUME MaxRequests <= 1, SingleInv, CrWorker,
           NEW n \in Names, crs[n].live, crs'[n].live, AgreeAt(n)
    PROVE  AgreeAt(n)'
<1>1. [Next]_vars
  BY DEF Next
<1>2. UNCHANGED <<arWork, arCache, crCache>> /\ n # NoName
  BY CrWorkerCounts, NamesAssumption DEF SingleInv
<1>3. ars[n].live => ars'[n].live
  BY <1>1, RequestStays DEF SingleInv
<1>4. ars'[n].live => ars'[n] = ars[n] \/ (~Final(ars'[n]) /\ ~ars[n].live)
  <2>1. arKey' = n => arKey' # NoName
    BY <1>2
  <2>2. QED
    BY <1>1, <1>2, <2>1, StateSteps DEF SingleInv, arWork
<1>5. ASSUME NEW state, Agree(crs[n], state), state \in {"Ready", "Errored", "Rejected"}
      PROVE  Agree(crs'[n], state)
  <2>1. CASE crs'[n] = crs[n]
    BY <1>5, <2>1
  <2>2. CASE crs'[n] # crs[n]
    <3>1. /\ crKey = n /\ crs[n] = crObj /\ ~Decided(crObj)
          /\ \/ crPc = "deny" /\ crs'[n].ready = "Denied"
             \/ crPc = "pending" /\ crs'[n].ready = "Processing"
      BY <2>2, CrWrites DEF SingleInv
    <3>2. crs[n].ready = "Rejected" /\ state = "Rejected"
      BY <1>5, <3>1 DEF Agree, OutcomeOf, Decided
    <3>3. crPc # "pending"
      BY <3>1, <3>2 DEF AgreeAt, RejectionIsKnown
    <3>4. QED
      BY <3>1, <3>2, <3>3 DEF Agree
  <2>3. QED
    BY <2>1, <2>2
<1>6. crs'[n].ready = crs[n].ready \/ crs'[n].ready # "Rejected"
  BY CrWrites DEF SingleInv
<1>7. crKey' = n /\ crObj'.ready = "Rejected" => arCache[n].live /\ crPc' \notin {"create", "pending"}
  <2> SUFFICES ASSUME crKey' = n, crObj'.ready = "Rejected"
               PROVE  arCache[n].live /\ crPc' \notin {"create", "pending"}
    OBVIOUS
  <2>1. CASE \E m \in Names : CrTake(m)
    <3>1. PICK m \in Names : CrTake(m)
      BY <2>1
    <3>2. crPc = "idle" /\ crKey = NoName
      BY <3>1 DEF CrTake, SingleInv, TypeInv, TypeOK, CrWorkTypeOK
    <3>3. m = n /\ crObj' = crCache[n] /\ crCache[n].live /\ crPc' \in {"deny", "lookup"}
      BY <1>2, <3>1, <3>2 DEF CrTake, GetCertificateRequest, Ignored, crWork
    <3>4. QED
      BY <3>3 DEF AgreeAt, RejectionIsKnown
  <2>2. CASE CrCalls
    <3>1. crKey = n /\ crObj' = crObj
      BY <1>2, <2>2 DEF CrCalls, CrDeny, CrSetPending, CrSetStatus, CrLookup, CrDelete, CrCreate, CrDone, CrFail,
         CrGoto
    <3>2. arCache[n].live /\ crPc \notin {"create", "pending"}
      BY <3>1 DEF AgreeAt, RejectionIsKnown
    <3>3. crPc # "delete"
      BY <3>1 DEF SingleInv, Single
    <3>4. crPc' \notin {"create", "pending"}
      BY <1>2, <2>2, <3>1, <3>2, <3>3 DEF CrCalls, CrDeny, CrSetPending, CrSetStatus, CrLookup, CrDelete, CrCreate,
         CrDone, CrFail, CrGoto
    <3>5. QED
      BY <3>2, <3>4
  <2>3. QED
    BY <2>1, <2>2 DEF CrWorker, CrStep
<1>8. RejectionIsKnown(n)'
  BY <1>2, <1>6, <1>7 DEF AgreeAt, RejectionIsKnown
<1>9. ASSUME arKey' = n PROVE InHand(n)'
  <2>1. arKey = n /\ UNCHANGED <<arPc, arObj>> /\ InHand(n)
    BY <1>2, <1>9 DEF arWork, AgreeAt
  <2>2. ars'[n] = ars[n]
    BY <1>3, <1>4, <2>1 DEF InHand
  <2>3. arPc = "setAR" /\ Final(arObj) => Agree(crs'[n], arObj.state)
    BY <1>5, <2>1 DEF InHand, Final
  <2>4. QED
    BY <1>2, <2>1, <2>2, <2>3 DEF InHand, Final
<1>10. ars'[n].live /\ Final(ars'[n]) => Agree(crs'[n], ars'[n].state)
  BY <1>4, <1>5 DEF AgreeAt, Final
<1>11. QED
  BY <1>8, <1>9, <1>10 DEF AgreeAt

LEMMA ArWorkerAgrees ==
    ASSUME PromptWatch, MaxRequests <= 1, SingleInv, ArWorker,
           NEW n \in Names, crs[n].live, crs'[n].live, AgreeAt(n)
    PROVE  AgreeAt(n)'
<1>1. [Next]_vars
  BY DEF Next
<1>2. UNCHANGED <<crWork, arCache, crCache>> /\ n # NoName
  BY ArWorkerCounts, NamesAssumption DEF SingleInv
<1>3. CASE \E m \in Names : ArTake(m)
  <2>1. PICK m \in Names : ArTake(m)
    BY <1>3
  <2>2. arPc = "idle" /\ arKey = NoName /\ UNCHANGED <<crs, ars>>
    BY <2>1 DEF ArTake, crVars, SingleInv, TypeInv, TypeOK, ArWorkTypeOK
  <2>3. arKey' = n => arPc' = "issuer" /\ arObj' = ars[n] /\ arCache[n] = ars[n] /\ arCache[n].live
    BY <1>2, <2>1, <2>2 DEF ArTake, arWork
  <2>4. QED
    BY <1>2, <2>2, <2>3 DEF AgreeAt, InHand, RejectionIsKnown, crWork
<1>4. CASE ArCalls /\ arKey # n
  <2>1. arKey' # n
    <3>1. CASE arKey' = NoName
      BY <1>2, <3>1
    <3>2. CASE arKey' # NoName
      BY <1>4, <3>2, CallsKeep DEF SingleInv
    <3>3. QED
      BY <3>1, <3>2
  <2>2. crs'[n] = crs[n]
    BY <1>4 DEF ArCalls, ArGetIssuer, ArSubmit, ArFetch, ArChain, ArGetCr, ArSetCr, ArSetAr, UpdateCr, crVars,
       SingleInv, TypeInv, TypeOK, KubeTypeOK
  <2>3. ars'[n].live /\ Final(ars'[n]) => ars'[n] = ars[n]
    BY <1>1, <1>4, StateSteps DEF SingleInv
  <2>4. QED
    BY <1>2, <2>1, <2>2, <2>3 DEF AgreeAt, RejectionIsKnown, crWork
<1>5. CASE ArCalls /\ arKey = n
  <2>1. /\ InHand(n) /\ ars'[n].live /\ arObj \in AdcsRequest /\ arCache'[n].live
        /\ crs \in [Names -> CertificateRequest]
    BY <1>1, <1>2, <1>5, RequestStays DEF AgreeAt, InHand, SingleInv, TypeInv, TypeOK, KubeTypeOK, ArWorkTypeOK
  <2>2. RejectionIsKnown(n)'
    BY <1>2, <2>1 DEF AgreeAt, RejectionIsKnown, crWork
  <2>3. CASE ArGetIssuer \/ ArSubmit \/ ArFetch \/ ArChain \/ ArGetCr
    <3>1. UNCHANGED <<crs, ars>>
      BY <2>3 DEF ArGetIssuer, ArSubmit, ArFetch, ArChain, ArGetCr, crVars
    <3>2. ASSUME arKey' = n
          PROVE  /\ arPc' # "issuer"
                 /\ arPc' = "setAR" => ~Final(arObj')
                 /\ Final(ars[n]) => arObj' = arObj /\ arPc' \in {"getCR", "setCR", "setAR"}
      <4>1. ~ArRetry
        BY <1>2, <3>2 DEF ArRetry, ArDone
      <4>2. CASE ArGetIssuer
        BY <2>1, <4>1, <4>2 DEF ArGetIssuer, IssueStart, InHand, Final, AdcsRequest, State
      <4>3. CASE ArGetCr
        BY <2>1, <4>1, <4>3 DEF ArGetCr, Final
      <4>4. CASE ArChain
        BY <2>1, <4>1, <4>4 DEF ArChain, InHand
      <4>5. CASE ArSubmit \/ ArFetch
        <5>1. ~Final(ars[n])
          BY <2>1, <4>5 DEF ArSubmit, ArFetch, InHand
        <5>2. arPc' \in {"fetch", "chain"}
          BY <4>1, <4>5 DEF ArSubmit, SubmissionFails, Posted, ArFetch, Fetched, Issued
        <5>3. QED
          BY <5>1, <5>2
      <4>6. QED
        BY <2>3, <4>2, <4>3, <4>4, <4>5
    <3>3. arKey' = n => InHand(n)'
      BY <1>2, <2>1, <3>1, <3>2 DEF InHand, Final
    <3>4. QED
      BY <2>2, <3>1, <3>3 DEF AgreeAt
  <2>4. CASE ArSetCr
    <3> DEFINE cr == WithOutcome(arCr, arObj, arCert)
               w == WrittenCr(crs[n], cr)
    <3>1. arPc = "setCR" /\ UNCHANGED ars /\ arCr \in CertificateRequest /\ cr \in CertificateRequest
      BY <2>1, <2>4, OutcomeType DEF ArSetCr, SingleInv, TypeInv, TypeOK, ArWorkTypeOK
    <3>2. Final(arObj) => w.ready = OutcomeOf(arObj.state)
      <4>1. Final(arObj) => cr.ready = OutcomeOf(arObj.state)
        BY <3>1 DEF WithOutcome, OutcomeOf, Final, CertificateRequest
      <4>2. w.ready = cr.ready
        <5> HIDE DEF cr
        <5>1. QED
          BY <2>1, <3>1 DEF WrittenCr, Written, CertificateRequest
      <4>3. QED
        BY <4>1, <4>2
    <3>3. \/ crs'[n] = w /\ arPc' = "setAR" /\ arKey' = n /\ arObj' = arObj
          \/ crs'[n] \in {crs[n], w} /\ arKey' = NoName
      BY <1>5, <2>1, <2>4 DEF ArSetCr, UpdateCr, CrSet, NotSet, ArRetry, ArDone
    <3> HIDE DEF w
    <3>4. arKey' = n => InHand(n)'
      <4>1. arKey' = n => crs'[n] = w /\ arPc' = "setAR" /\ arObj' = arObj
        BY <1>2, <3>3
      <4>2. QED
        BY <2>1, <3>1, <3>2, <4>1 DEF InHand, Final, Agree
    <3>5. Final(ars[n]) => Agree(crs'[n], ars[n].state)
      BY <2>1, <3>2, <3>3 DEF AgreeAt, InHand, Final, Agree
    <3>6. QED
      BY <2>2, <3>1, <3>4, <3>5 DEF AgreeAt, Final
  <2>5. CASE ArSetAr
    <3>1. arPc = "setAR" /\ UNCHANGED crs /\ arKey' = NoName
      BY <2>5 DEF ArSetAr, crVars, Saved, Finished, ArRetry, ArDone
    <3>2. ars'[n] = ars[n] \/ ars'[n].state = arObj.state
      BY <1>1, <2>1, StateSteps DEF SingleInv, InHand
    <3>3. Final(ars'[n]) => Agree(crs[n], ars'[n].state)
      BY <2>1, <3>1, <3>2 DEF AgreeAt, InHand, Final
    <3>4. QED
      BY <1>2, <2>2, <3>1, <3>3 DEF AgreeAt
  <2>6. QED
    BY <1>5, <2>3, <2>4, <2>5 DEF ArCalls
<1>6. QED
  BY <1>3, <1>4, <1>5 DEF ArWorker, ArStep

(***************************************************************************)
(* A final AdcsRequest and its owner say the same, for any number of names *)
(* and faults, with or without the approval check: when the caches are     *)
(* delivered before a name is reconciled again, and while no name is used  *)
(* again.                                                                  *)
(***************************************************************************)
THEOREM VerdictsAgree ==
    ASSUME PromptWatch, MaxRequests <= 1
    PROVE  Spec => []OutcomesAgree
<1>1. Init => Single /\ UndecidedInv /\ AgreeInv
  <2>1. Init => Single /\ UndecidedInv
    BY DEF Init, KubeInit, CrWorkInit, NoAr, NoCr, Single, NotMarked, UndecidedInv
  <2>2. Init => AgreeInv
    BY DEF Init, KubeInit, NoCr, AgreeInv, AgreeAt
  <2>3. QED
    BY <2>1, <2>2
<1>2. SingleInv /\ AgreeInv /\ [Next]_vars => AgreeInv'
  <2> SUFFICES ASSUME SingleInv, AgreeInv, [Next]_vars, NEW n \in Names, crs'[n].live
               PROVE  AgreeAt(n)'
    BY DEF AgreeInv, AgreeAt
  <2>1. AgreeAt(n)
    BY DEF AgreeInv
  <2>2. QED
    BY <2>1, NewRequestAgrees, OthersAgree, CrWorkerAgrees, ArWorkerAgrees
<1>3. SingleInv /\ [Next]_vars => Single' /\ UndecidedInv'
  BY SingleNext, UndecidedNext DEF SingleInv
<1>4. AgreeInv => OutcomesAgree
  BY DEF AgreeInv, AgreeAt, Agree, OutcomesAgree
<1>5. Spec => [](TypeInv /\ CopiesAreHonest /\ DecisionInv /\ DescentInv)
  <2>1. Spec => []TypeInv
    BY TypesAndIds, PTL DEF TypeInv
  <2>2. QED
    BY <2>1, Copies, Descent, PTL
<1>6. QED
  BY <1>1, <1>2, <1>3, <1>4, <1>5, PTL DEF Spec, SingleInv
=============================================================================
