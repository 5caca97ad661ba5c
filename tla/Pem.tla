-------------------------------- MODULE Pem --------------------------------
(***************************************************************************)
(* PEM texts as Go's encoding/pem and crypto/x509 read them.  A text is a  *)
(* sequence of certificates, each from its BEGIN to its END, and of what   *)
(* is around them: ends of lines and other words.                          *)
(***************************************************************************)
EXTENDS SequencesExt

CONSTANTS Certificates, Eol, Word

ASSUME PemAssumption == Eol # Word /\ {Eol, Word} \cap Certificates = {}

PemText == Seq(Certificates \cup {Eol, Word})

(* A certificate is found only where it begins a line and ends a line. *)
StandsAlone(text, i) ==
    /\ text[i] \in Certificates
    /\ i = 1 \/ text[i - 1] = Eol
    /\ i = Len(text) \/ text[i + 1] = Eol

(* The certificates that AppendCertsFromPEM adds to the pool; it reports failure when there is none. *)
Pool(text) == {text[i] : i \in {j \in DOMAIN text : StandsAlone(text, j)}}
=============================================================================
