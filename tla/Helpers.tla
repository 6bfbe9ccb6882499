------------------------------ MODULE Helpers ------------------------------
(***************************************************************************)
(* The components that are checked one call, or one context, at a time:    *)
(* every behaviour picks one of them and calls it.                         *)
(***************************************************************************)
EXTENDS Ciphers, Digest, Walk, Codes, Overflow

Next ==
    \/ CipherCall
    \/ DigestCall
    \/ FnmatchCall
    \/ StringCall
    \/ WalkCall
    \/ CodesCall
    \/ OverflowCall

Spec == Init /\ [][Next]_call
=============================================================================
