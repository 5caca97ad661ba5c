------------------------------ MODULE CaChain ------------------------------
(***************************************************************************)
(* Issuer.Issue (src/issuers/issuer.go) over the calls of CertsrvCalls,    *)
(* and what becomes of its results: the answer of ADCS is taken as it      *)
(* arrived, its CA chain is reduced to one certificate, and Reconcile      *)
(* (src/controllers/adcsrequest_controller.go) puts both, one after the    *)
(* other, in the CertificateRequest.  What Pem calls a certificate is here *)
(* a block of any type, known by its contents.                             *)
(***************************************************************************)
EXTENDS CertsrvCalls, Pem

CONSTANTS
    Leaf,           \* the new certificate
    Cas,            \* the certificates of CAs
    EmptyRaw,       \* a certificate without a value
    Signed,         \* the PKCS#7 contents that ADCS may send: sequences of certificates
    Answers,        \* the bodies that it may send as the new certificate
    Bodies          \* the bodies that it may send as its chain

X509(cert) == [kind |-> "x509", certs |-> <<cert>>]
Pkcs7(certs) == [kind |-> "pkcs7", certs |-> certs]
Garbage == [kind |-> "other", certs |-> <<>>]
Blocks == {X509(cert) : cert \in Cas \cup {Leaf}} \cup {Pkcs7(certs) : certs \in Signed} \cup {Garbage}

ASSUME ChainAssumption ==
    /\ Leaf \notin Cas /\ EmptyRaw \notin Cas \cup {Leaf}
    /\ Signed \subseteq Seq(Cas \cup {EmptyRaw})
    /\ Certificates = Blocks /\ Answers \cup Bodies \subseteq PemText

VARIABLES
    stage,          \* "certificate" or "chain", which is asked for, then "combine", "done", or "retry" later
    verdict,        \* the status that Issue has set in the AdcsRequest
    answer,         \* what it has got as the new certificate
    body,           \* what it has got as the chain
    ca,             \* what it returns as the CA
    certificate, authority      \* Certificate and CA in the status of the CertificateRequest

chainVars == <<stage, verdict, answer, body, ca, certificate, authority>>
issueVars == <<vars, chainVars>>

IssueTypeOK ==
    /\ TypeOK
    /\ stage \in {"certificate", "chain", "combine", "done", "retry"}
    /\ stage \notin {"certificate", "chain"} => pc = "idle"
    /\ verdict \in AdcsResponseStatus
    /\ {answer, body, ca, certificate, authority} \subseteq PemText

IssueInit ==
    /\ Init
    /\ stage = "certificate" /\ verdict = "Unknown"
    /\ answer = <<>> /\ body = <<>> /\ ca = <<>> /\ certificate = <<>> /\ authority = <<>>

(* The steps of the call that is under way. *)
Call ==
    /\ stage \in {"certificate", "chain"}
    /\ Next /\ pc' # "idle"
    /\ expected' \in IF stage = "chain" THEN {"pkcs7"} ELSE {"other", "pkix"}
    /\ UNCHANGED chainVars

(* GetCaCertificate, which the client offers and Issue does not call. *)
GetCaCertificate ==
    /\ pc = "done" /\ expected = "pkix" /\ Leave
    /\ UNCHANGED chainVars

(* An error, or a panic, ends Issue: the request is tried again later. *)
CallFails ==
    /\ pc = "done" /\ expected # "pkix" /\ result.err # "none"
    /\ stage' = "retry" /\ Leave
    /\ UNCHANGED <<verdict, answer, body, ca, certificate, authority>>

(* What arrives of a body that breaks off: its beginning, perhaps with a part of the next piece. *)
Beginnings(text) ==
    UNION {{SubSeq(text, 1, n) \o part : part \in {<<>>, <<Word>>, <<Word, Eol>>}} : n \in 0..Len(text) - 1}

(* RequestCertificate or GetExistingCertificate has returned: nobody looks into the certificate. *)
GetCertificate(text) ==
    /\ stage = "certificate" /\ pc = "done" /\ expected = "other" /\ result.err = "none"
    /\ verdict' = result.status
    /\ \/ result.cert = "none" /\ UNCHANGED answer
       \/ result.cert = "whole" /\ answer' = text
       \/ result.cert = "truncated" /\ answer' \in Beginnings(text)
    /\ stage' = "chain" /\ Leave
    /\ UNCHANGED <<body, ca, certificate, authority>>

(* Slip for the mutation runs: the first certificate, whatever it is. *)
FirstAtAll(certs) == IF certs = <<>> THEN {} ELSE {certs[1]}

(* The first certificate that has a value, if any. *)
FirstWithValue(certs) ==
    {certs[i] : i \in {j \in DOMAIN certs :
        certs[j] # EmptyRaw /\ \A k \in 1..(j - 1) : certs[k] = EmptyRaw}}

(* tryParseX509: the certificate that is kept, if any. *)
Kept(block) == IF block.kind = "x509" THEN ToSet(block.certs) ELSE FirstWithValue(block.certs)

(* What pem.Decode finds first, if anything. *)
FirstBlock(text) ==
    {text[i] : i \in {j \in DOMAIN text :
        StandsAlone(text, j) /\ \A k \in 1..(j - 1) : ~StandsAlone(text, k)}}

(* pem.EncodeToMemory, which ends with the end of a line. *)
Encoded(kept) == <<X509(kept), Eol>>

(* The rest of Issue when the client has brought the chain: without a CA the request is retried. *)
GetChain(text) ==
    /\ stage = "chain" /\ pc = "done" /\ result.err = "none"
    /\ body' = text
    /\ LET found == UNION {Kept(block) : block \in FirstBlock(text)} IN
       IF found = {}
       THEN stage' = "retry" /\ UNCHANGED ca
       ELSE stage' = "combine" /\ ca' \in {Encoded(kept) : kept \in found}
    /\ Leave
    /\ UNCHANGED <<verdict, answer, certificate, authority>>

(* Reconcile: of a request that is Ready, the answer with the CA after it, with nothing between. *)
Combine ==
    /\ stage = "combine" /\ stage' = "done"
    /\ IF verdict = "Ready"
       THEN certificate' = answer \o ca /\ authority' = ca
       ELSE UNCHANGED <<certificate, authority>>
    /\ UNCHANGED <<vars, verdict, answer, body, ca>>

(* The next request, or this one again after an interval. *)
Again ==
    /\ stage \in {"done", "retry"} /\ stage' = "certificate" /\ verdict' = "Unknown"
    /\ answer' = <<>> /\ body' = <<>> /\ ca' = <<>> /\ certificate' = <<>> /\ authority' = <<>>
    /\ UNCHANGED vars

IssueNext ==
    \/ Call \/ GetCaCertificate \/ CallFails \/ Combine \/ Again
    \/ \E text \in Answers : GetCertificate(text)
    \/ \E text \in Bodies : GetChain(text)

IssueSpec == IssueInit /\ [][IssueNext]_issueVars
-----------------------------------------------------------------------------
(* The certificates that a text holds, in any readable block. *)
Inside(text) == UNION {ToSet(block.certs) : block \in Pool(text)}
ChainOf(text) == Inside(text) \ {EmptyRaw}

(***************************************************************************)
(* Whatever ADCS sends, the CA in the status of the CertificateRequest is  *)
(* exactly one certificate, with a value and from the chain.  Nothing is   *)
(* in the status that ADCS has not sent, and when the answer ends with the *)
(* end of a line, all its certificates and the CA after them are readable. *)
(* (No end of line is put between the two: after an answer without it, or  *)
(* one that broke off, certificates at the seam are lost.)                 *)
(***************************************************************************)
StatusIsReadable ==
    stage = "done" /\ verdict = "Ready" =>
        /\ \E one \in ChainOf(body) : Inside(authority) = {one}
        /\ Inside(certificate) \subseteq Inside(answer) \cup Inside(authority)
        /\ answer = <<>> \/ Last(answer) = Eol =>
               Inside(certificate) = Inside(answer) \cup Inside(authority)
=============================================================================
