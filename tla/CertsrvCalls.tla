---------------------------- MODULE CertsrvCalls ----------------------------
(***************************************************************************)
(* The calls of the AdcsCertsrv interface (src/adcs/certsrv.go), one HTTP  *)
(* exchange per step, against a server and a network that may answer       *)
(* anything a reply can be.                                                *)
(***************************************************************************)
EXTENDS Certsrv

CONSTANT ReqIds     \* the request ids that a page may show

ASSUME ReqIdsAssumption == ReqIds \subseteq Nat \ {0}

VARIABLES
    mode,       \* which client: "ntlm" or "kerberos"
    pc,         \* "idle", the exchange that comes next, or "done"
    asked,      \* the request id that the next fetch is about, 0 for none
    expected,   \* the content type that the CA call asks for
    last,       \* the reply that decided the result
    result      \* what the call returned

vars == <<mode, pc, asked, expected, last, result>>

Replies == [arrived : {TRUE}, ok : BOOLEAN, ctype : ContentType, params : BOOLEAN,
            whole : BOOLEAN, marks : SUBSET Marks, reqId : ReqIds \cup {0}] \cup {NoReply}

TypeOK ==
    /\ mode \in {"ntlm", "kerberos"}
    /\ pc \in {"idle", "post", "fetch", "renewals", "cacert", "done"}
    /\ asked \in ReqIds \cup {0} /\ expected \in {"other", "pkix", "pkcs7"}
    /\ last \in Replies
    /\ result \in Result

Init ==
    /\ mode \in {"ntlm", "kerberos"}
    /\ pc = "idle"
    /\ asked = 0 /\ expected = "other"
    /\ last = NoReply
    /\ result = Failed(0, "none")

Return(res, reply) == pc' = "done" /\ result' = res /\ last' = reply

CallRequestCertificate ==
    /\ pc = "idle" /\ pc' = "post"
    /\ UNCHANGED <<mode, asked, expected, last, result>>

CallGetExistingCertificate ==
    /\ pc = "idle" /\ pc' = "fetch"
    /\ asked' \in ReqIds
    /\ UNCHANGED <<mode, expected, last, result>>

(* GetCaCertificate and GetCaCertificateChain: obtainCaCertificate for one or the other. *)
CallGetCaCertificate ==
    /\ pc = "idle" /\ pc' = "renewals" /\ expected' = "pkix"
    /\ UNCHANGED <<mode, asked, last, result>>

CallGetCaCertificateChain ==
    /\ pc = "idle" /\ pc' = "renewals" /\ expected' = "pkcs7"
    /\ UNCHANGED <<mode, asked, last, result>>

(* RequestCertificate after the POST: done, or the page of the new id is fetched. *)
Post(reply) ==
    /\ pc = "post"
    /\ \/ AnsweredAtOnce(reply) /\ Return(Obtained(reply, IdNone), reply) /\ UNCHANGED asked
       \/ CertId(reply) # 0 /\ pc' = "fetch" /\ asked' = CertId(reply) /\ UNCHANGED <<last, result>>
       \/ /\ ~AnsweredAtOnce(reply) /\ CertId(reply) = 0
          /\ Return(Failed(0, "error"), reply) /\ UNCHANGED asked
    /\ UNCHANGED <<mode, expected>>

Fetch(reply) ==
    /\ pc = "fetch"
    /\ Return(GetExistingCertificate(reply, asked), reply)
    /\ UNCHANGED <<mode, asked, expected>>

(* obtainCaCertificate, first exchange: the page with the number of renewals. *)
Renewals(reply) ==
    /\ pc = "renewals"
    /\ IF reply.arrived /\ reply.whole
       THEN pc' = "cacert" /\ UNCHANGED <<last, result>>
       ELSE Return(Chain("error"), reply)
    /\ UNCHANGED <<mode, asked, expected>>

CaCert(reply) ==
    /\ pc = "cacert"
    /\ Return(CaCertificate(mode, reply, expected), reply)
    /\ UNCHANGED <<mode, asked, expected>>

(* The caller has looked at the result. *)
Leave ==
    /\ pc = "done" /\ pc' = "idle"
    /\ asked' = 0 /\ expected' = "other" /\ last' = NoReply /\ result' = Failed(0, "none")
    /\ UNCHANGED mode

Next ==
    \/ CallRequestCertificate \/ CallGetExistingCertificate
    \/ CallGetCaCertificate \/ CallGetCaCertificateChain
    \/ \E reply \in Replies : Post(reply) \/ Fetch(reply) \/ Renewals(reply) \/ CaCert(reply)
    \/ Leave

Spec == Init /\ [][Next]_vars
-----------------------------------------------------------------------------
(***************************************************************************)
(* A verdict is never guessed: a status other than Unknown comes without   *)
(* an error and from a reply of the right kind, and no certificate or      *)
(* chain is returned from a reply with another content type.  (certsrv.go: *)
(* "If cert status is 'Unknown' the state of the certificate info couldn't *)
(* be obtained from certsrv. Check for error.")  A certificate may only be *)
(* cut short when it is the answer to the POST itself.                     *)
(***************************************************************************)
VerdictIsBacked ==
    pc = "done" =>
        /\ (result.status = "Unknown" /\ result.cert = "none") <=> (result.err # "none")
        /\ result.status \in {"Pending", "Rejected", "Errored"} =>
               Served(last) /\ last.ctype = "html" /\ "Disposition message" \in last.marks
        /\ result.status = "Ready" => last.arrived /\ last.ctype = "pkix"
        /\ result.cert = "truncated" => result.id = IdNone
        /\ result.status = "Unknown" /\ result.cert # "none" =>
               Served(last) /\ last.ctype = expected

(***************************************************************************)
(* What is pending can be asked for again: every result that is not a      *)
(* certificate answered at once carries the id of the request it is about, *)
(* so a Pending one has an id.  (certsrv.go: "the cert can be obtained     *)
(* later with getExistingCertificate using the 'id'".)                     *)
(***************************************************************************)
PendingCanBeFetched ==
    pc = "done" /\ result.status # "Unknown" =>
        \/ result.id = IdNone /\ result.status = "Ready"
        \/ result.id = asked /\ asked # 0

(***************************************************************************)
(* A status other than 200 is reported as an error (the tests are named    *)
(* "non-200 status returns an error"), and no exchange ends in a panic.    *)
(***************************************************************************)
FailureIsReported == pc = "done" => result.err # "panic"
=============================================================================
