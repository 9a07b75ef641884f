------------------------------- MODULE Bundles -------------------------------
(***************************************************************************)
(* Accepting a bundle.  It is three files of one directory: a document (a  *)
(* receipt, a kill or a seal) with the line of the log it rests on, the    *)
(* proof of that line and a tree head.  They are written and read one      *)
(* after the other, and a directory is used again, so that a reader may    *)
(* find the pieces of several exports side by side, or edited ones.        *)
(*                                                                         *)
(* What a document says is what some line says, and has that line's name.  *)
(* Who signed the tree head, and when, is VerifierStore's.                 *)
(***************************************************************************)
EXTENDS LogExports

\* A line that no store sealed.
Edited == 0
LinesSaid == {Edited} \union DOMAIN sealed

\* The document: what its own fields say, the line in it, and the line_hash that
\* line records of itself.
Documents == [says : LinesSaid, line : LinesSaid, line_hash : {Digest(l) : l \in LinesSaid}]

\* require_kill_document_agrees_with_line, require_seal_document_agrees_with_line;
\* the signature of a receipt is over its fields and its line.
DocumentAgrees(document) == document.says = document.line

\* line_hash_from_bound_issuance_log_line computes the hash again.
LineHashHolds(document) == document.line_hash = Digest(document.line)

\* Mutant of AcceptBundle: the line_hash is believed.
AcceptRecorded(document, proof, head) ==
    /\ DocumentAgrees(document)
    /\ RootsAgree(proof, head)
    /\ proof.line_hash = document.line_hash
    /\ CheckInclusionProof(proof, head.merkle_root)

\* accept_act_bundle_artifacts, accept_kill_bundle_artifacts,
\* accept_seal_bundle_artifacts, up to the keys.
AcceptBundle(document, proof, head) ==
    /\ DocumentAgrees(document)
    /\ RootsAgree(proof, head)
    /\ LineHashHolds(document)
    /\ proof.line_hash = document.line_hash
    /\ CheckInclusionProof(proof, head.merkle_root)

------------------------------------------------------------------------------
(* The pieces, and what may be made of them.                                 *)

Today == {text[k][1].line : k \in DOMAIN text}

\* The tree heads that left the store, with the lines they were made of: that of
\* the bundle and, while the log verifies, that of today.
Heads ==
    {[head |-> bundle.tree_head, lines |-> bundle.lines]} \union
    (IF VerifyLogChain THEN {[head |-> TreeHead, lines |-> Today]} ELSE {})

\* The proofs that left it.
Proofs ==
    {bundle.proof} \union
    (IF VerifyLogChain
     THEN {ProveInclusion(LineHashes, LineHashes[k]) : k \in DOMAIN text} ELSE {})

\* The part of a proof above the d-th level leads to the root from an inner node.
Above(proof, d) ==
    [proof EXCEPT
        !.line_hash = RecomputeRoot([proof EXCEPT !.sibling_hashes = SubSeq(@, 1, d)]),
        !.leaf_index = Places(@)[d],
        !.sibling_hashes = SubSeq(@, d + 1, Len(@))]

\* A proof with any line and any index written into it.
Rewritten(proof) ==
    {[proof EXCEPT !.line_hash = Digest(edit.line), !.leaf_index = edit.index] :
        edit \in [line : LinesSaid, index : 0..MaxLines]}

\* Proofs cut short, and rewritten ones.
EditedProofs ==
    UNION {{Above(proof, d) : d \in 0..Len(proof.sibling_hashes)} \union Rewritten(proof) :
               proof \in Proofs}

\* Whatever of these lies together in a directory, a bundle that is accepted says
\* what a line says that stood in the log of its tree head: no piece of another
\* export lends it weight, no edited line, no inner node of the tree, no index
\* (accept_act_bundle_artifacts, accept_kill_bundle_artifacts,
\* accept_seal_bundle_artifacts).
AcceptedBundleIsWhole ==
    bundle # None =>
        \A h \in Heads, proof \in EditedProofs :
            CheckInclusionProof(proof, h.head.merkle_root) =>
                \A document \in Documents :
                    AcceptBundle(document, proof, h.head) => document.says \in h.lines
==============================================================================
