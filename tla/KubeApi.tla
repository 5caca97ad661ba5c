------------------------------ MODULE KubeApi ------------------------------
(***************************************************************************)
(* What the two reconcilers use of Kubernetes: the stored                  *)
(* CertificateRequest and AdcsRequest of every name, the informer caches   *)
(* that the manager's client reads, one work queue per controller and the  *)
(* delayed requeues.  Modelled from how src/controllers/ and src/main.go   *)
(* use controller-runtime: reads go to a cache that lags behind, a status  *)
(* update carries the resource version it was read with, an event or a     *)
(* requeue puts a name (not an object) in a queue without duplicates.      *)
(***************************************************************************)
EXTENDS Integers, FiniteSets

CONSTANTS
    Names,          \* names of CertificateRequests; an AdcsRequest has the name of its owner
    NoName,         \* the key of a worker that has nothing to do
    Csrs, NoCsr,    \* certificate signing requests
    PromptWatch,    \* TRUE: the caches lag less than a requeue delay or resync takes, and
                    \* an AdcsRequest is not reconciled again before its last write is seen
    PeriodicResync, \* FALSE: within one resync period
    MaxFaults       \* bound on failing calls and restarts in a behaviour

ASSUME NamesAssumption == NoName \notin Names /\ NoCsr \notin Csrs
ASSUME BoundsAssumption == {PromptWatch, PeriodicResync} \subseteq BOOLEAN /\ MaxFaults \in Nat

VARIABLES
    crs, ars,               \* the stored objects
    crCache, arCache,       \* what the informers have delivered
    crQueue, arQueue,       \* names to reconcile now
    crTimer, arTimer,       \* names to reconcile after a delay
    faults                  \* faults so far

storeVars == <<crs, ars>>
crVars == <<crs, crCache, crQueue, crTimer>>
arVars == <<ars, arCache, arQueue, arTimer>>
kubeVars == <<crs, ars, crCache, arCache, crQueue, arQueue, crTimer, arTimer, faults>>
-----------------------------------------------------------------------------
(***************************************************************************)
(* Objects.  live: the object exists; uid counts the objects there have    *)
(* been under this name; rev is the resource version, which also grows     *)
(* when the object is deleted.  ready is the Ready condition: Processing   *)
(* and Rejected are both (False, Pending) with different messages, Denied  *)
(* stands for the condition and the FailureTime.  cert is the number of    *)
(* the ADCS submission whose certificate is in the status, 0 for none.     *)
(***************************************************************************)
IssuerRef == {"adcs", "unsupported", "foreign"}
ReadyReason == {"None", "Processing", "Rejected", "Failed", "Denied", "Issued"}
State == {"Unknown", "Pending", "Ready", "Errored", "Rejected"}

CertificateRequest ==
    [live : BOOLEAN, uid : Nat, rev : Nat, csr : Csrs \cup {NoCsr}, ref : IssuerRef,
     approved : BOOLEAN, denied : BOOLEAN, ready : ReadyReason, cert : Nat]

AdcsRequest ==
    [live : BOOLEAN, uid : Nat, rev : Nat, owner : Nat, csr : Csrs \cup {NoCsr},
     ref : IssuerRef, state : State, id : Int]

NoCr == [live |-> FALSE, uid |-> 0, rev |-> 0, csr |-> NoCsr, ref |-> "foreign",
         approved |-> FALSE, denied |-> FALSE, ready |-> "None", cert |-> 0]
NoAr == [live |-> FALSE, uid |-> 0, rev |-> 0, owner |-> 0, csr |-> NoCsr,
         ref |-> "foreign", state |-> "Unknown", id |-> 0]

NewCr(old, csr, ref) ==
    [live |-> TRUE, uid |-> old.uid + 1, rev |-> old.rev + 1, csr |-> csr, ref |-> ref,
     approved |-> FALSE, denied |-> FALSE, ready |-> "None", cert |-> 0]
NewAr(old, cr) ==
    [live |-> TRUE, uid |-> old.uid + 1, rev |-> old.rev + 1, owner |-> cr.uid, csr |-> cr.csr,
     ref |-> cr.ref, state |-> "Unknown", id |-> 0]

DeletedCr(old) == [NoCr EXCEPT !.uid = old.uid, !.rev = old.rev + 1]
DeletedAr(old) == [NoAr EXCEPT !.uid = old.uid, !.rev = old.rev + 1]
-----------------------------------------------------------------------------
(* A call of this step fails, or the process does. *)
Fault == faults < MaxFaults /\ faults' = faults + 1

(* The API server accepts an update of the version it has, and of no other. *)
Current(stored, obj) == stored.live /\ stored.rev = obj.rev

(* An update that changes nothing is not a new version. *)
Written(stored, updated) ==
    IF updated = stored THEN stored ELSE [updated EXCEPT !.rev = stored.rev + 1]

(* The status subresource: the spec of the stored object stays. *)
WrittenCr(stored, obj) == Written(stored, [stored EXCEPT !.ready = obj.ready, !.cert = obj.cert])
WrittenAr(stored, obj) == Written(stored, [stored EXCEPT !.state = obj.state, !.id = obj.id])

(* Slip for the mutation runs: the newest version is put on the cached copy. *)
WithNewestVersion(n) == [crCache[n] EXCEPT !.rev = crs[n].rev]

(* Both reconcilers read the CertificateRequest of a name in the cache. *)
GetCertificateRequest(n) == crCache[n]

(* Slips for the mutation runs: a patch, which has no version, in place of the update. *)
PatchCr(n, obj, reply) ==
    /\ crs' = IF crs[n].live THEN [crs EXCEPT ![n] = WrittenCr(crs[n], obj)] ELSE crs
    /\ reply = (IF crs[n].live THEN "ok" ELSE "error") /\ UNCHANGED faults
PatchAr(n, obj, reply) ==
    /\ ars' = IF ars[n].live THEN [ars EXCEPT ![n] = WrittenAr(ars[n], obj)] ELSE ars
    /\ reply = (IF ars[n].live THEN "ok" ELSE "error") /\ UNCHANGED faults

(***************************************************************************)
(* Status().Update(obj) with its reply: refused for a conflict or because  *)
(* the object is gone, lost before it is carried out, or carried out with  *)
(* the reply lost.                                                         *)
(***************************************************************************)
UpdateCr(n, obj, reply) ==
    \/ /\ reply = "ok" /\ Current(crs[n], obj)
       /\ crs' = [crs EXCEPT ![n] = WrittenCr(crs[n], obj)]
       /\ UNCHANGED faults
    \/ reply = "error" /\ ~Current(crs[n], obj) /\ UNCHANGED <<crs, faults>>
    \/ /\ reply = "error" /\ Fault /\ Current(crs[n], obj)
       /\ crs' \in {crs, [crs EXCEPT ![n] = WrittenCr(crs[n], obj)]}

UpdateAr(n, obj, reply) ==
    \/ /\ reply = "ok" /\ Current(ars[n], obj)
       /\ ars' = [ars EXCEPT ![n] = WrittenAr(ars[n], obj)]
       /\ UNCHANGED faults
    \/ reply = "error" /\ ~Current(ars[n], obj) /\ UNCHANGED <<ars, faults>>
    \/ /\ reply = "error" /\ Fault /\ Current(ars[n], obj)
       /\ ars' \in {ars, [ars EXCEPT ![n] = WrittenAr(ars[n], obj)]}
-----------------------------------------------------------------------------
KubeTypeOK ==
    /\ crs \in [Names -> CertificateRequest] /\ crCache \in [Names -> CertificateRequest]
    /\ ars \in [Names -> AdcsRequest] /\ arCache \in [Names -> AdcsRequest]
    /\ crQueue \subseteq Names /\ arQueue \subseteq Names
    /\ crTimer \subseteq Names /\ arTimer \subseteq Names
    /\ faults \in 0..MaxFaults

KubeInit ==
    /\ crs = [n \in Names |-> NoCr] /\ crCache = crs
    /\ ars = [n \in Names |-> NoAr] /\ arCache = ars
    /\ crQueue = {} /\ arQueue = {} /\ crTimer = {} /\ arTimer = {}
    /\ faults = 0

(* The watch delivers the latest version: the cache has it, the name is queued. *)
SyncCr(n) ==
    /\ crCache[n] # crs[n]
    /\ crCache' = [crCache EXCEPT ![n] = crs[n]]
    /\ crQueue' = crQueue \cup {n}
    /\ UNCHANGED <<crs, crTimer, arVars, faults>>

SyncAr(n) ==
    /\ arCache[n] # ars[n]
    /\ arCache' = [arCache EXCEPT ![n] = ars[n]]
    /\ arQueue' = arQueue \cup {n}
    /\ UNCHANGED <<ars, arTimer, crVars, faults>>

Synced(n) == crCache[n] = crs[n] /\ arCache[n] = ars[n]

(* A delay ends: RequeueAfter, or the back-off after a returned error. *)
CrTimerFires(n) ==
    /\ n \in crTimer /\ (PromptWatch => Synced(n))
    /\ crTimer' = crTimer \ {n}
    /\ crQueue' = crQueue \cup {n}
    /\ UNCHANGED <<crs, crCache, arVars, faults>>

ArTimerFires(n) ==
    /\ n \in arTimer /\ (PromptWatch => Synced(n))
    /\ arTimer' = arTimer \ {n}
    /\ arQueue' = arQueue \cup {n}
    /\ UNCHANGED <<ars, arCache, crVars, faults>>

(* The informers' periodic resync queues what is in the caches. *)
Resync ==
    /\ PeriodicResync
    /\ PromptWatch => \A n \in Names : Synced(n)
    /\ crQueue' = crQueue \cup {n \in Names : crCache[n].live}
    /\ arQueue' = arQueue \cup {n \in Names : arCache[n].live}
    /\ UNCHANGED <<storeVars, crCache, arCache, crTimer, arTimer, faults>>

(* The owner of an AdcsRequest is gone: cascading deletion. *)
GarbageCollect(n) ==
    /\ ars[n].live /\ ~(crs[n].live /\ crs[n].uid = ars[n].owner)
    /\ ars' = [ars EXCEPT ![n] = DeletedAr(ars[n])]
    /\ UNCHANGED <<crVars, arCache, arQueue, arTimer, faults>>
=============================================================================
