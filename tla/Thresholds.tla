------------------------------ MODULE Thresholds ------------------------------
(***************************************************************************)
(* Documents that more than one key signs.  The list of signatures is what *)
(* whoever hands the document in says it is: it may name a key twice,      *)
(* carry signatures of other documents, or be empty.  A signature is the   *)
(* key that made it and the message it was made of.                        *)
(***************************************************************************)
EXTENDS Naturals, Sequences, FiniteSets

\* A signature whose key is trusted and that verifies.
Counts(signature, message, trusted) ==
    signature.key \in trusted /\ signature.of = message

\* Mutant of CountValidSignatures: each signature counts, not each key.
CountEach(list, message, trusted) ==
    Cardinality({k \in DOMAIN list : Counts(list[k], message, trusted)})

\* count_valid_threshold_signatures
CountValidSignatures(list, message, trusted) ==
    Cardinality({list[k].key : k \in {n \in DOMAIN list : Counts(list[n], message, trusted)}})

\* require_threshold_signatures
RequireThreshold(list, message, trusted, required) ==
    CountValidSignatures(list, message, trusted) >= required

\* require_accepted_artifact_signatures: without a list the signature of the key
\* the document names, which is verified elsewhere, is one and enough for one.
EnoughSignatures(list, message, trusted, required) ==
    IF list = <<>> THEN required <= 1
    ELSE RequireThreshold(list, message, trusted, required)
==============================================================================
