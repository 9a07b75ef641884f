----------------------------- MODULE TokenProofs -----------------------------
(***************************************************************************)
(* Theorems about CapabilityTokens: a token never refuses what its record  *)
(* covers, and a wider token is refused.                                   *)
(*                                                                         *)
(* TokenInv ties a record to every block of its token: each block is of a  *)
(* record with the same holder and expiry that grants at least as much.    *)
(* It passes from a record to the one attenuated from it because the order *)
(* on labels is transitive, so nothing need be said of chains.             *)
(***************************************************************************)
EXTENDS CapabilityTokens, KernelProofs

\* A block was appended for a record that grants what this one does, or more.
BlockAgrees(record, block) ==
    /\ block.inst = record.inst
    /\ block.behalf = record.behalf
    /\ block.expires = record.expires
    /\ IsNarrowerOrEqual(record.intent, block.intent)
    /\ IsNarrowerOrEqual(record.audience, block.audience)

HasFirst(token) == \E d \in token : \A b \in token : d <= b

TokenInv ==
    \A c \in DOMAIN capabilities :
        /\ c \in capabilities[c].token
        /\ HasFirst(capabilities[c].token)
        /\ \A b \in capabilities[c].token :
              b \in DOMAIN capabilities /\ BlockAgrees(capabilities[c], capabilities[b])

------------------------------------------------------------------------------
(* Labels.                                                                   *)

LEMMA NarrowerReflexive ==
    ASSUME NEW a \in Seq(STRING)
    PROVE  IsNarrowerOrEqual(a, a) /\ StartsWith(a, a)
  BY DEF IsNarrowerOrEqual, StartsWith

\* As strings, too, a narrower label begins with the wider one.
LEMMA NarrowerStartsWith ==
    ASSUME NEW a \in Seq(STRING), NEW b \in Seq(STRING), NEW c \in Seq(STRING),
           IsNarrowerOrEqual(a, b), IsNarrowerOrEqual(b, c)
    PROVE  StartsWith(a, c)
  BY DEF IsNarrowerOrEqual, StartsWith

\* A label that begins with a narrower one is that label.
LEMMA WiderIsEqual ==
    ASSUME NEW a \in Seq(STRING), NEW b \in Seq(STRING),
           IsNarrowerOrEqual(a, b), StartsWith(b, a)
    PROVE  IsNarrowerOrEqual(b, a)
  BY DEF IsNarrowerOrEqual, StartsWith

LEMMA RecordTypes ==
    ASSUME TypeOK, NEW c \in DOMAIN capabilities
    PROVE  /\ capabilities[c] \in CapabilityRecord
           /\ capabilities[c].intent \in Seq(STRING)
           /\ capabilities[c].audience \in Seq(STRING)
           /\ capabilities[c].expires \in Nat
           /\ capabilities[c].token \in SUBSET Nat
           /\ c \in Nat
  <1>1. capabilities[c] \in CapabilityRecord /\ c \in Nat
    BY ElementFacts DEF TypeOK
  <1> QED  BY <1>1 DEF CapabilityRecord

------------------------------------------------------------------------------
(* Every step keeps TokenInv.                                                *)

\* A capability is added, and every block of its token but its own is older.
LEMMA TokenStep ==
    ASSUME TypeOK, TypeOK', TokenInv, NEW capability,
           capabilities' = Append(capabilities, capability),
           Len(capabilities) + 1 \in capability.token,
           HasFirst(capability.token),
           \A b \in capability.token \ {Len(capabilities) + 1} :
              b \in DOMAIN capabilities /\ BlockAgrees(capability, capabilities[b])
    PROVE  TokenInv'
  <1> DEFINE new == Len(capabilities) + 1
  <1>1. /\ DOMAIN capabilities = 1..Len(capabilities) /\ Len(capabilities) \in Nat
        /\ DOMAIN capabilities' = 1..new
        /\ \A k \in DOMAIN capabilities : capabilities'[k] = capabilities[k]
        /\ capabilities'[new] = capability
    BY AppendIndex DEF TypeOK
  <1>2. new \in DOMAIN capabilities' /\ DOMAIN capabilities \subseteq DOMAIN capabilities'
    BY <1>1
  <1>3. \A c \in DOMAIN capabilities' : c \in DOMAIN capabilities \/ c = new
    BY <1>1
  <1>4. BlockAgrees(capability, capability)
    <2>1. capabilities'[new] \in CapabilityRecord
      BY <1>2, ElementFacts DEF TypeOK
    <2>2. capability.intent \in Seq(STRING) /\ capability.audience \in Seq(STRING)
      BY <1>1, <2>1 DEF CapabilityRecord
    <2> QED  BY <2>2, NarrowerReflexive DEF BlockAgrees
  <1> HIDE DEF new
  <1>5. \A b \in capability.token :
           b \in DOMAIN capabilities' /\ BlockAgrees(capability, capabilities'[b])
    BY <1>1, <1>2, <1>4 DEF new
  <1>6. \A c \in DOMAIN capabilities' :
           /\ c \in capabilities'[c].token
           /\ HasFirst(capabilities'[c].token)
           /\ \A b \in capabilities'[c].token :
                 b \in DOMAIN capabilities' /\ BlockAgrees(capabilities'[c], capabilities'[b])
    <2> TAKE c \in DOMAIN capabilities'
    <2>1. CASE c \in DOMAIN capabilities
      BY <1>1, <1>2, <2>1 DEF TokenInv
    <2>2. CASE c = new
      BY <1>1, <1>5, <2>2 DEF new
    <2> QED  BY <1>3, <2>1, <2>2
  <1> QED  BY <1>6 DEF TokenInv, BlockAgrees, HasFirst

\* The token of a capability that was not attenuated is one block.
LEMMA FreshToken ==
    ASSUME TypeOK, TypeOK', TokenInv, NEW i, NEW instance, NEW intent, NEW audience,
           NEW behalf, NEW chain, NEW op, NEW lines,
           Issue(NewCapability(i, instance, intent, audience, behalf), chain, op, lines)
    PROVE  TokenInv'
  <1> DEFINE capability == NewCapability(i, instance, intent, audience, behalf)
  <1>1. capability.token = {Len(capabilities) + 1} /\ Len(capabilities) \in Nat
    BY DEF NewCapability, TypeOK
  <1>2. capabilities' = Append(capabilities, capability)
    BY DEF Issue
  <1> HIDE DEF capability
  <1>3. HasFirst(capability.token)
    BY <1>1 DEF HasFirst
  <1> QED  BY <1>1, <1>2, <1>3, TokenStep

\* Attenuation appends a block to the token of the parent.
LEMMA AttenuatedToken ==
    ASSUME TypeOK, TypeOK', TokenInv, NEW c \in DOMAIN capabilities, NEW intent,
           NEW audience, AttenuateCapability(c, intent, audience)
    PROVE  TokenInv'
  <1> DEFINE parent == capabilities[c]
             child == [parent EXCEPT
                          !.intent = intent, !.audience = audience,
                          !.token = @ \union {Len(capabilities) + 1}]
             new == Len(capabilities) + 1
  <1>1. /\ capabilities' = Append(capabilities, child)
        /\ GrantWithin(child, parent)
    BY DEF AttenuateCapability, Issue
  <1>2. parent \in CapabilityRecord
    BY RecordTypes
  <1>3. /\ child.inst = parent.inst /\ child.behalf = parent.behalf
        /\ child.expires = parent.expires
        /\ child.intent = intent /\ child.audience = audience
        /\ child.token = parent.token \union {new}
    BY <1>2 DEF CapabilityRecord
  <1>4. intent \in Seq(STRING) /\ audience \in Seq(STRING)
    <2>1. /\ new \in DOMAIN capabilities'
          /\ capabilities'[new] = child
      BY <1>1, AppendIndex DEF TypeOK
    <2>2. child \in CapabilityRecord
      BY <2>1, ElementFacts DEF TypeOK
    <2> QED  BY <1>3, <2>2 DEF CapabilityRecord
  <1>5. IsNarrowerOrEqual(intent, parent.intent) /\ IsNarrowerOrEqual(audience, parent.audience)
    BY <1>1, <1>3 DEF GrantWithin
  <1>6. \A b \in parent.token : b \in DOMAIN capabilities /\ BlockAgrees(parent, capabilities[b])
    BY DEF TokenInv
  <1>7. ASSUME NEW b \in parent.token
        PROVE  b \in DOMAIN capabilities /\ BlockAgrees(child, capabilities[b])
    <2>1. /\ b \in DOMAIN capabilities
          /\ BlockAgrees(parent, capabilities[b])
      BY <1>6
    <2>2. /\ IsNarrowerOrEqual(intent, capabilities[b].intent)
          /\ IsNarrowerOrEqual(audience, capabilities[b].audience)
      BY <1>4, <1>5, <2>1, RecordTypes, NarrowerTransitive DEF BlockAgrees
    <2> HIDE DEF child, parent
    <2> QED  BY <1>3, <2>1, <2>2 DEF BlockAgrees
  <1>8. HasFirst(child.token)
    <2>1. PICK d \in parent.token : \A b \in parent.token : d <= b
      BY DEF TokenInv, HasFirst
    <2>2. d \in DOMAIN capabilities
      BY <1>6
    <2>3. d <= new
      BY <2>2, ElementFacts DEF TypeOK
    <2>4. d \in child.token /\ \A b \in child.token : d <= b
      BY <1>3, <2>1, <2>3
    <2> QED  BY <2>4 DEF HasFirst
  <1> HIDE DEF child, parent
  <1>9. /\ new \in child.token
        /\ \A b \in child.token \ {new} :
              b \in DOMAIN capabilities /\ BlockAgrees(child, capabilities[b])
    BY <1>3, <1>7
  <1> QED  BY <1>1, <1>8, <1>9, TokenStep

LEMMA QuietToken ==
    ASSUME TokenInv, UNCHANGED capabilities
    PROVE  TokenInv'
  BY DEF TokenInv, BlockAgrees, HasFirst

LEMMA TokenNext == TypeOK /\ TypeOK' /\ TokenInv /\ [Next]_vars => TokenInv'
  <1> SUFFICES ASSUME TypeOK, TypeOK', TokenInv, [Next]_vars PROVE TokenInv'
    OBVIOUS
  <1>1. ASSUME NEW type \in DOMAIN agentTypes, NEW intent, NEW audience, NEW behalf,
               BirthWrite(type, intent, audience, behalf)
        PROVE  TokenInv'
    BY <1>1, FreshToken DEF BirthWrite
  <1>2. ASSUME NEW i \in DOMAIN instances, NEW intent, NEW audience, NEW behalf,
               MintCapability(i, intent, audience, behalf)
        PROVE  TokenInv'
    BY <1>2, FreshToken DEF MintCapability
  <1>3. ASSUME NEW i \in DOMAIN instances, NEW c \in DOMAIN capabilities, NEW intent,
               NEW audience, NEW behalf, NEW nonce,
               SpawnChild(i, c, intent, audience, behalf, nonce)
        PROVE  TokenInv'
    <2>1. CASE SpawnAllowed(i, c, intent, audience, behalf)
      BY <1>3, <2>1, FreshToken DEF SpawnChild
    <2>2. CASE ~SpawnAllowed(i, c, intent, audience, behalf)
      BY <1>3, <2>2, QuietToken DEF SpawnChild, records
    <2> QED  BY <2>1, <2>2
  <1>4. CASE Attenuate
    BY <1>4, AttenuatedToken DEF Attenuate
  <1>5. ASSUME \/ \E type \in TypeChoices : AddAgentType(type)
               \/ \E type \in DOMAIN agentTypes : BirthInstance(type)
               \/ Challenge \/ Decision
               \/ \E c \in DOMAIN capabilities : KillCapability(c)
               \/ \E i \in DOMAIN instances : KillInstance(i)
               \/ \E after \in SealDelays : SealIssuer(after)
               \/ Tick \/ UNCHANGED vars
        PROVE  TokenInv'
    <2>1. CASE Decision
      <3>1. PICK op \in DecisionOperations, i \in DOMAIN instances,
                 c \in DOMAIN capabilities, intent \in Intents, audience \in Audiences,
                 behalf \in ActAuthorities, nonce \in Nonces :
                    Decide(op, i, c, intent, audience, behalf, nonce)
        BY <2>1 DEF Decision
      <3> QED  BY <3>1, QuietToken DEF Decide, records
    <2>2. CASE ~Decision
      BY <1>5, <2>2, QuietToken DEF AddAgentType, BirthInstance, Challenge,
         IssueHolderChallenge, KillCapability, KillInstance, SealIssuer, Tick, vars, records
    <2> QED  BY <2>1, <2>2
  <1> QED  BY <1>1, <1>2, <1>3, <1>4, <1>5 DEF Next, Birth, Mint, Spawn

LEMMA TokenCorrect == Spec => [](TypeOK /\ TokenInv)
  <1>1. Init => TokenInv
    BY DEF Init, TokenInv
  <1>2. TypeOK /\ TokenInv /\ [Next]_vars => TokenInv'
    BY NextOK, TokenNext
  <1> QED  BY TypeCorrect, <1>1, <1>2, PTL DEF Spec

------------------------------------------------------------------------------
(* From TokenInv to the properties.                                          *)

LEMMA FirstBlockFacts ==
    ASSUME NEW token, HasFirst(token)
    PROVE  FirstBlock(token) \in token
  BY DEF HasFirst, FirstBlock

LEMMA TokenServesRecord ==
    ASSUME TypeOK, TokenInv, NEW c \in DOMAIN capabilities,
           NEW intent \in Intents, NEW audience \in Audiences,
           NEW time \in 0..capabilities[c].expires,
           RequestWithin(c, intent, audience)
    PROVE  /\ FactsAgree(capabilities[c].token, capabilities[c], time)
           /\ Authorize(capabilities[c].token, intent, audience,
                        capabilities[c].behalf, time)
  <1> DEFINE record == capabilities[c]
             token == capabilities[c].token
             first == FirstBlock(token)
  <1>1. /\ c \in token /\ first \in token
        /\ \A b \in token : b \in DOMAIN capabilities /\ BlockAgrees(record, capabilities[b])
    BY FirstBlockFacts DEF TokenInv
  <1>2. /\ first \in DOMAIN capabilities
        /\ Facts(token) = capabilities[first]
        /\ Facts(token).inst = record.inst
        /\ Facts(token).behalf = record.behalf
    BY <1>1 DEF Facts, BlockAgrees
  <1>3. intent \in Seq(STRING) /\ audience \in Seq(STRING)
    BY KernelAssumption
  <1>4. Authorize(token, intent, audience, record.behalf, time)
    <2>1. ASSUME NEW b \in token
          PROVE  /\ StartsWith(intent, capabilities[b].intent)
                 /\ StartsWith(audience, capabilities[b].audience)
                 /\ time <= capabilities[b].expires
      <3>1. b \in DOMAIN capabilities /\ BlockAgrees(record, capabilities[b])
        BY <1>1
      <3>2. /\ capabilities[b].intent \in Seq(STRING)
            /\ capabilities[b].audience \in Seq(STRING)
            /\ record.intent \in Seq(STRING) /\ record.audience \in Seq(STRING)
            /\ record.expires \in Nat
        BY <3>1, RecordTypes
      <3>3. /\ IsNarrowerOrEqual(intent, record.intent)
            /\ IsNarrowerOrEqual(audience, record.audience)
        BY DEF RequestWithin
      <3>4. /\ IsNarrowerOrEqual(record.intent, capabilities[b].intent)
            /\ IsNarrowerOrEqual(record.audience, capabilities[b].audience)
            /\ time <= capabilities[b].expires
        BY <3>1, <3>2 DEF BlockAgrees
      <3> QED  BY <1>3, <3>2, <3>3, <3>4, NarrowerStartsWith
    <2> QED  BY <1>2, <2>1 DEF Authorize
  <1>5. /\ Facts(token).intent \in Seq(STRING) /\ Facts(token).audience \in Seq(STRING)
        /\ record.intent \in Seq(STRING) /\ record.audience \in Seq(STRING)
        /\ IsNarrowerOrEqual(record.intent, Facts(token).intent)
        /\ IsNarrowerOrEqual(record.audience, Facts(token).audience)
    BY <1>1, <1>2, RecordTypes DEF BlockAgrees
  <1>6. ~ClaimRefused(token, record, time)
    <2>1. ASSUME NEW wanted, Authorize(token, Facts(token).intent, wanted, record.behalf, time)
          PROVE  IsNarrowerOrEqual(Facts(token).intent, record.intent)
      BY <1>1, <1>5, <2>1, WiderIsEqual DEF Authorize
    <2>2. ASSUME NEW wanted, Authorize(token, wanted, Facts(token).audience, record.behalf, time)
          PROVE  IsNarrowerOrEqual(Facts(token).audience, record.audience)
      BY <1>1, <1>5, <2>2, WiderIsEqual DEF Authorize
    <2> QED  BY <2>1, <2>2 DEF ClaimRefused
  <1> QED  BY <1>2, <1>4, <1>6 DEF FactsAgree

LEMMA WiderRefusedLemma ==
    ASSUME TypeOK, NEW c \in DOMAIN capabilities, NEW d \in DOMAIN capabilities,
           NEW time \in 0..capabilities[d].expires,
           FactsAgree({d}, capabilities[c], time)
    PROVE  /\ capabilities[d].inst = capabilities[c].inst
           /\ GrantWithin(capabilities[d], capabilities[c])
  <1> DEFINE record == capabilities[c]
             block == capabilities[d]
  <1>1. /\ block.intent \in Seq(STRING) /\ block.audience \in Seq(STRING)
        /\ block.expires \in Nat /\ d \in Nat
    BY RecordTypes
  <1>2. Facts({d}) = block
    BY <1>1 DEF Facts, FirstBlock
  <1>3. /\ block.inst = record.inst /\ block.behalf = record.behalf
        /\ ~ClaimRefused({d}, record, time)
    BY <1>2 DEF FactsAgree
  <1>4. Authorize({d}, block.intent, block.audience, record.behalf, time)
    BY <1>1, <1>2, <1>3, NarrowerReflexive DEF Authorize
  <1>5. /\ IsNarrowerOrEqual(block.intent, record.intent)
        /\ IsNarrowerOrEqual(block.audience, record.audience)
    BY <1>2, <1>3, <1>4 DEF ClaimRefused
  <1> QED  BY <1>3, <1>5 DEF GrantWithin, ChildActAuthorityCompatible

\* However long the chain of attenuations, the token of an issued capability
\* agrees with its record and authorizes whatever the record covers, to the
\* last second: no honest holder is refused because of the token.
THEOREM TokenServes == Spec => []TokenServesItsRecord
  <1>1. TypeOK /\ TokenInv => TokenServesItsRecord
    BY TokenServesRecord DEF TokenServesItsRecord
  <1> QED  BY TokenCorrect, <1>1, PTL

\* A record put beside a token that was not attenuated and grants more, or to
\* someone else, is refused for as long as the token lives.
THEOREM WiderRefused == Spec => []WiderTokenRefused
  <1>1. TypeOK => WiderTokenRefused
    BY WiderRefusedLemma DEF WiderTokenRefused
  <1> QED  BY TypeCorrect, <1>1, PTL
==============================================================================
