------------------------------ MODULE Authority ------------------------------
(***************************************************************************)
(* The order on authority that every grant and every request is measured   *)
(* against: labels (intents, audiences, authorization limits), act         *)
(* authorities (on_behalf_of), and what one grant may hand to another.     *)
(*                                                                         *)
(* A label of the program is a non-empty string over letters, digits, "_", *)
(* "-", "/" and ".".  Here it is the sequence of its path segments, each   *)
(* later segment written together with the separator in front of it, so    *)
(* "pay/prod" is <<"pay", "/prod">> and "pay.prod" is <<"pay", ".prod">>.  *)
(***************************************************************************)
EXTENDS Naturals, Sequences

CONSTANT Autonomous    \* the act authority of an instance that acts for nobody

\* new_value equals old_value, or is a child path of it: old_value followed
\* by "/" or "." is a string prefix of new_value exactly when the segments of
\* old_value are the first segments of new_value.
IsNarrowerOrEqual(new, old) ==
    /\ Len(old) <= Len(new)
    /\ \A k \in 1..Len(old) : new[k] = old[k]

\* An autonomous parent may hand on any authority, a named user only itself.
ChildActAuthorityCompatible(parent, child) ==
    parent = Autonomous \/ child = parent

\* What a grant carries, compared with the grant it was derived from.
GrantWithin(child, parent) ==
    /\ IsNarrowerOrEqual(child.intent, parent.intent)
    /\ IsNarrowerOrEqual(child.audience, parent.audience)
    /\ ChildActAuthorityCompatible(parent.behalf, child.behalf)

\* What may be issued at all under an agent type.
MintAllowed(type, intent, audience) ==
    /\ intent \in type.intents
    /\ IsNarrowerOrEqual(audience, type.limit)
==============================================================================
