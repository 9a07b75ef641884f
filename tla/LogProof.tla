------------------------------- MODULE LogProof -------------------------------
(***************************************************************************)
(* The Merkle tree over the lines of the issuance log (log_proof.rs).  A   *)
(* digest is the term it is computed from: the digest of a line is a       *)
(* sequence of one element that names the line, a parent is the pair of    *)
(* its children, and the digest of nothing, which pads the leaves and is   *)
(* the root of an empty log, is the empty sequence.                        *)
(***************************************************************************)
EXTENDS Naturals, Sequences, FiniteSetsExt

Digest(line) == <<line>>
EmptyDigest == <<>>
ParentHash(left, right) == <<left, right>>

\* The number of leaves of a full tree, by the number of levels above them.
Width[d \in Nat] == IF d = 0 THEN 1 ELSE 2 * Width[d - 1]

\* next_power_of_two, as the number of levels above the leaves.
Depth(count) == Min({d \in 0..count : Width[d] >= count})

PaddedLeaves(leaves) ==
    [k \in 1..Width[Depth(Len(leaves))] |->
        IF k \in DOMAIN leaves THEN leaves[k] ELSE EmptyDigest]

\* The level above: every two neighbours have a parent.
LevelAbove(level) ==
    [k \in 1..(Len(level) \div 2) |-> ParentHash(level[2 * k - 1], level[2 * k])]

\* merkle_levels: level 0 are the leaves, level Depth is the root alone.
Levels(leaves) ==
    LET level[d \in 0..Depth(Len(leaves))] ==
            IF d = 0 THEN PaddedLeaves(leaves) ELSE LevelAbove(level[d - 1])
    IN  level

\* merkle_root_from_line_hashes
MerkleRoot(leaves) ==
    IF leaves = <<>> THEN EmptyDigest ELSE Levels(leaves)[Depth(Len(leaves))][1]

\* index ^ 1 in a level whose positions are counted from one.
Beside(k) == IF k % 2 = 1 THEN k + 1 ELSE k - 1

\* The places on the way from a leaf to the root, counted from zero: index /= 2.
Places(index) ==
    LET place[d \in Nat] == IF d = 0 THEN index ELSE place[d - 1] \div 2
    IN  place

\* sibling_hashes_for_leaf, for the leaf at index, counted from zero.
SiblingHashes(leaves, index) ==
    [d \in 1..Depth(Len(leaves)) |->
        Levels(leaves)[d - 1][Beside(Places(index)[d - 1] + 1)]]

\* prove_inclusion, of a leaf that is there: the first place it has.
ProveInclusion(leaves, leaf) ==
    LET index == Min({k \in DOMAIN leaves : leaves[k] = leaf}) - 1
    IN  [line_hash |-> leaf, leaf_index |-> index,
         sibling_hashes |-> SiblingHashes(leaves, index), root |-> MerkleRoot(leaves)]

\* The d-th step of a proof: an even place is a left child.
Joined(proof, d, current) ==
    IF Places(proof.leaf_index)[d - 1] % 2 = 0
    THEN ParentHash(current, proof.sibling_hashes[d])
    ELSE ParentHash(proof.sibling_hashes[d], current)

\* The digests on the way of a proof, up to the root.
Climb(proof) ==
    LET current[d \in 0..Len(proof.sibling_hashes)] ==
            IF d = 0 THEN proof.line_hash ELSE Joined(proof, d, current[d - 1])
    IN  current

\* recompute_root_from_proof
RecomputeRoot(proof) == Climb(proof)[Len(proof.sibling_hashes)]

\* Mutant of CheckInclusionProof: the proof's own root is what it is held to.
CheckAgainstItself(proof, expected) == RecomputeRoot(proof) = proof.root

\* check_inclusion_proof
CheckInclusionProof(proof, expected) ==
    RecomputeRoot(proof) = proof.root /\ proof.root = expected
===============================================================================
