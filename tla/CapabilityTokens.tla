--------------------------- MODULE CapabilityTokens ---------------------------
(***************************************************************************)
(* The token inside a capability record.  It is a first block, signed when *)
(* the capability was minted or spawned, and one block more for each       *)
(* attenuation since.  A decision looks at the record and at the token:    *)
(* Kernel has the record's part of it, this module the token's.            *)
(*                                                                         *)
(* The record compares labels as paths, the token as strings, so that a    *)
(* token for "pay" authorizes "payments".  A capability is named like the  *)
(* block that was appended for it: its labels are the ones the block       *)
(* checks.  A block for an attenuation that leaves the intent alone may    *)
(* have no check of the intent; the one of its parent is the same.         *)
(***************************************************************************)
EXTENDS Kernel

\* Pairs of path segments the first of which, as a string, goes on where the
\* second ends.
CONSTANT Continues

ASSUME TokensAssumption == Continues \subseteq STRING \X STRING

\* The string operation, on the segments of Authority.
StartsWith(value, prefix) ==
    /\ Len(prefix) <= Len(value)
    /\ \A k \in 1..Len(prefix) :
          \/ value[k] = prefix[k]
          \/ k = Len(prefix) /\ <<value[k], prefix[k]>> \in Continues

\* mint_token: the first block has the facts; later blocks only check.
FirstBlock(token) == CHOOSE d \in token : \A b \in token : d <= b
Facts(token) == capabilities[FirstBlock(token)]

\* authorize_token: the checks of every block hold of the request.
Authorize(token, intent, audience, behalf, time) ==
    /\ behalf = Facts(token).behalf
    /\ \A b \in token :
          /\ StartsWith(intent, capabilities[b].intent)
          /\ StartsWith(audience, capabilities[b].audience)
          /\ time <= capabilities[b].expires

\* Mutant of ClaimRefused: the facts are taken for what the token grants.
ClaimWider(token, record, time) ==
    \/ ~IsNarrowerOrEqual(Facts(token).intent, record.intent)
    \/ ~IsNarrowerOrEqual(Facts(token).audience, record.audience)

\* Mutant of ClaimRefused: the audience of the token is not looked at.
ClaimIntentOnly(token, record, time) ==
    /\ ~IsNarrowerOrEqual(Facts(token).intent, record.intent)
    /\ Authorize(token, Facts(token).intent, record.audience, record.behalf, time)

\* The token says more than the record, and no later block takes it back.
ClaimRefused(token, record, time) ==
    LET facts == Facts(token)
        grants(intent, audience) == Authorize(token, intent, audience, record.behalf, time)
    IN  \/ /\ ~IsNarrowerOrEqual(facts.intent, record.intent)
           /\ \/ grants(facts.intent, record.audience)
              \/ grants(facts.intent, facts.audience)
        \/ /\ ~IsNarrowerOrEqual(facts.audience, record.audience)
           /\ \/ grants(record.intent, facts.audience)
              \/ grants(facts.intent, facts.audience)

\* require_token_facts_agree_with_record
FactsAgree(token, record, time) ==
    /\ Facts(token).inst = record.inst
    /\ Facts(token).behalf = record.behalf
    /\ ~ClaimRefused(token, record, time)

------------------------------------------------------------------------------
(* Properties.                                                               *)

\* Whatever the record of an issued capability covers, its token does not
\* refuse, to the last second, however often it was attenuated: the token is a
\* second lock and never the only one that bites (evaluate_capability,
\* require_token_facts_agree_with_record: "an honest attenuated child still
\* verifies").
TokenServesItsRecord ==
    \A c \in DOMAIN capabilities :
        LET record == capabilities[c] IN
        \A intent \in Intents, audience \in Audiences, time \in 0..record.expires :
            RequestWithin(c, intent, audience) =>
                /\ FactsAgree(record.token, record, time)
                /\ Authorize(record.token, intent, audience, record.behalf, time)

\* A record never acts on the token of a capability that was not attenuated and
\* grants more: beside it the token is refused, in time or not authorized for
\* anything (require_token_facts_agree_with_record).
WiderTokenRefused ==
    \A c, d \in DOMAIN capabilities :
        LET record == capabilities[c]
            token == capabilities[d].token
        IN  \A time \in 0..capabilities[d].expires :
                token = {d} /\ FactsAgree(token, record, time) =>
                    /\ capabilities[d].inst = record.inst
                    /\ GrantWithin(capabilities[d], record)
==============================================================================
