---------------------------- MODULE MCPublishFlow ----------------------------
(* PublishFlow for TLC: raw is a text that normalization takes two rounds    *)
(* for, to loose and then to tight.  Plain finds itself; loose is of no two  *)
(* ASCII terms, so it does not; the search rejects tight.                    *)
EXTENDS PublishFlow, TLC

CONSTANTS plain, raw, loose, tight

MCNormal == [t \in Text |-> CASE t = raw -> loose [] t = loose -> tight [] OTHER -> t]

MCFinds == {<<plain, plain>>}

MCSymmetry == Permutations(Client)
=============================================================================
