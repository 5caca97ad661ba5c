----------------------------- MODULE TwoManagers -----------------------------
(***************************************************************************)
(* Two processes of the program at once: what -enable-leader-election, off *)
(* by default (src/main.go), is there to exclude.  Each has its own caches,*)
(* queues and workers; they share the API server and ADCS.  The first is   *)
(* the process of AdcsOperator, the second an instance of it, of which one *)
(* worker is stalled to keep the instances small.                          *)
(***************************************************************************)
EXTENDS MCAdcsOperator

VARIABLES
    stalled,    \* the worker of the second process that is stalled: "cr" or "ar"
    \* what the second process has in memory
    crCache2, arCache2, crQueue2, arQueue2, crTimer2, arTimer2, crPc2, crKey2, crObj2,
    arPc2, arKey2, arObj2, arId2, arCert2, arCr2

process1 == <<crCache, arCache, crQueue, arQueue, crTimer, arTimer, crPc, crKey, crObj,
              arPc, arKey, arObj, arId, arCert, arCr>>
process2 == <<crCache2, arCache2, crQueue2, arQueue2, crTimer2, arTimer2, crPc2, crKey2,
              crObj2, arPc2, arKey2, arObj2, arId2, arCert2, arCr2>>
allVars == <<vars, process2, stalled>>

Second == INSTANCE AdcsOperator WITH
    crCache <- crCache2, arCache <- arCache2, crQueue <- crQueue2, arQueue <- arQueue2,
    crTimer <- crTimer2, arTimer <- arTimer2, crPc <- crPc2, crKey <- crKey2, crObj <-
    crObj2, arPc <- arPc2, arKey <- arKey2, arObj <- arObj2, arId <- arId2, arCert <-
    arCert2, arCr <- arCr2

(***************************************************************************)
(* Both find the same: requests to begin with, or requests that a process  *)
(* before them has handed over to the AdcsRequest reconciler.              *)
(***************************************************************************)
HandedOver ==
    {[n \in Names |-> [r[n] EXCEPT !.ready = "Processing", !.rev = @ + 1]] : r \in Approved({"adcs"})}

TwoInit ==
    /\ \/ stalled = "ar" /\ Found(Approved({"adcs"}), NoAdcsRequests, 0)
       \/ stalled = "cr" /\ Found(HandedOver, LeftOver, 0)
    /\ crCache2 = crCache /\ crQueue2 = crQueue /\ crTimer2 = crTimer
    /\ arCache2 = arCache /\ arQueue2 = arQueue /\ arTimer2 = arTimer
    /\ Second!CrWorkInit /\ Second!ArWorkInit

(* A step of the first process or of the surroundings, and one of the second process. *)
FirstSteps == Next /\ UNCHANGED <<process2, stalled>>
SecondSteps ==
    /\ \/ Second!Cluster
       \/ stalled # "cr" /\ Second!CrWorker
       \/ stalled # "ar" /\ Second!ArWorker
    /\ UNCHANGED <<process1, stalled>>

TwoSpec == TwoInit /\ [][FirstSteps \/ SecondSteps]_allVars
-----------------------------------------------------------------------------
(***************************************************************************)
(* What one process relies on holds for two, since it rests on versions    *)
(* and not on being alone: every copy in either process is honest.         *)
(***************************************************************************)
BothCopiesAreHonest == CopiesAreHonest /\ Second!CopiesAreHonest

(***************************************************************************)
(* A pending AdcsRequest has an id, and neither process asks ADCS for an   *)
(* id that it did not give, although both may have submitted the request.  *)
(***************************************************************************)
BothIdsAreKnown == IdsAreKnown /\ Second!IdsAreKnown

(***************************************************************************)
(* Readers of the API see the documented lifecycle, although a request may *)
(* be submitted by both processes and only one of them can record its id.  *)
(***************************************************************************)
SharedLifecycle == [][Lifecycle!Next]_request

(***************************************************************************)
(* Neither CertificateRequest reconciler takes back an answer that decides *)
(* a request (Issued, Failed, Denied; not a rejection) and that the        *)
(* AdcsRequest reconciler of the first process has given.                  *)
(***************************************************************************)
AnswersAreKeptByBoth ==
    [][\A n \in Names : (CrWorker \/ Second!CrWorker) /\ Decided(crs[n]) => crs'[n] = crs[n]]_allVars
=============================================================================
