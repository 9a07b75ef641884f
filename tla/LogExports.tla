------------------------------ MODULE LogExports ------------------------------
(***************************************************************************)
(* Documents about the log that leave the store while it is written to: a  *)
(* proof that a line is in it, and a signed tree head.  An act, a kill or  *)
(* a seal bundle holds one of each.  The exporter reads the log for the    *)
(* proof, reads it again for the tree head, and gives up if the two do not *)
(* agree.  The store that accepts a bundle has no log to look at: it       *)
(* checks the proof against the tree head, then or any time later.         *)
(*                                                                         *)
(* Any number of readings may go on; one export is followed, begun at any  *)
(* time, and one bundle kept, which stands for each there could be.        *)
(***************************************************************************)
EXTENDS IssuanceLog, LogProof

VARIABLES
    exporting,     \* the proof an export has read, before its tree head; or none
    bundle         \* the bundle that was exported; or none

exportVars == <<logVars, exporting, bundle>>

None == [line |-> 0]

\* issuance_log_line_hashes: refused unless the whole chain verifies.
LineHashes == [k \in DOMAIN text |-> Digest(text[k][1].line)]

\* issuance_log_merkle_root, sign_issuance_log_tree_head
TreeHead == [merkle_root |-> MerkleRoot(LineHashes), leaf_count |-> Len(text)]

\* Mutant of RootsAgree: the two are bundled as they come.
RootsNeverCompared(proof, head) == TRUE

\* build_act_bundle and its likes compare before they hand out, the accepting
\* store compares again.
RootsAgree(proof, head) == proof.root = head.merkle_root

\* verify_decision_receipt_against_issuance_log and the search for a kill or a
\* seal: the line stands in a log that verifies.
LineInLog(line) ==
    /\ VerifyLogChain
    /\ \E k \in DOMAIN text : text[k][1].line = line

\* The first half of build_act_bundle, build_kill_bundle, build_seal_bundle.
BeginExport(line) ==
    /\ exporting = None /\ bundle = None
    /\ LineInLog(line)
    /\ exporting' = [line |-> line, proof |-> ProveInclusion(LineHashes, Digest(line))]
    /\ UNCHANGED <<logVars, bundle>>

\* The second half: a log that does not verify any more, or has grown, refuses.
FinishExport ==
    /\ exporting # None
    /\ exporting' = None
    /\ bundle' = IF VerifyLogChain /\ RootsAgree(exporting.proof, TreeHead)
                 THEN [line |-> exporting.line, proof |-> exporting.proof,
                       tree_head |-> TreeHead,
                       lines |-> {text[k][1].line : k \in DOMAIN text}]
                 ELSE bundle
    /\ UNCHANGED logVars

ExportInit == LogInit /\ exporting = None /\ bundle = None

ExportNext ==
    \/ LogNext /\ UNCHANGED <<exporting, bundle>>
    \/ \E line \in DOMAIN sealed : BeginExport(line)
    \/ FinishExport

ExportSpec == ExportInit /\ [][ExportNext]_exportVars

------------------------------------------------------------------------------
(* Properties.                                                               *)

\* What was exported is good forever where there is no log: the proof checks
\* against the tree head it left with, however the log grew or broke between
\* the two readings (build_act_bundle, accept_act_bundle_artifacts).
ExportedBundleChecks ==
    bundle # None =>
        /\ RootsAgree(bundle.proof, bundle.tree_head)
        /\ CheckInclusionProof(bundle.proof, bundle.tree_head.merkle_root)

\* Proofs and tree heads do not mix: as long as the log verifies, a proof checks
\* against its root of today only if that log is the one it was made of; and a
\* proof of today checks against a tree head kept since some day only if no
\* line has come since (check_inclusion_proof).
ProofsPinOneLog ==
    bundle # None /\ VerifyLogChain =>
        /\ CheckInclusionProof(bundle.proof, TreeHead.merkle_root) <=>
               bundle.lines = {text[k][1].line : k \in DOMAIN text}
        /\ \A k \in DOMAIN text :
               CheckInclusionProof(ProveInclusion(LineHashes, LineHashes[k]),
                                   bundle.tree_head.merkle_root)
                   => bundle.tree_head.leaf_count = Len(text)
==============================================================================
