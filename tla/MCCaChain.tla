----------------------------- MODULE MCCaChain -----------------------------
(***************************************************************************)
(* CaChain with a chain of two CAs, bodies of up to three pieces, and      *)
(* answers of up to two.                                                   *)
(***************************************************************************)
EXTENDS CaChain

CONSTANTS root, issuing

MCSigned == {<<>>, <<EmptyRaw>>, <<root>>, <<issuing, root>>, <<EmptyRaw, root>>}

MCBodies == UNION {[1..n -> (Blocks \ {X509(Leaf)}) \cup {Eol, Word}] : n \in 0..3}
MCAnswers == UNION {[1..n -> {X509(Leaf), Eol, Word}] : n \in 0..2}
=============================================================================
