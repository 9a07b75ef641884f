-------------------------------- MODULE Wraps --------------------------------
(***************************************************************************)
(* A presentation can travel in a wrap that other software understands: a  *)
(* WIMSE workload identity token with a content digest and an HTTP message *)
(* signature, or an X.509-SVID certificate.  The pieces are made together  *)
(* and arrive one by one; each is checked against the others.  VerifierStore *)
(* models what the presentation itself is worth.                           *)
(*                                                                         *)
(* All times of a presentation and of a wrap are whole seconds, so to      *)
(* compare them with a finer clock is to compare its second.  Encodings    *)
(* (JSON, JWS, DER, structured fields) are left out; a SHA-256 digest is   *)
(* the document it was taken of.  Whether the issuer key is accepted and   *)
(* the agent alive is VerifierStore's.                                     *)
(***************************************************************************)
EXTENDS VerifierStore

CONSTANTS
    Envelopes,     \* envelope keys, one of each issuing store
    OtherKey,      \* an envelope key of none of them
    Forms, Pretty, \* the JSON texts of one presentation; how a store writes it
    WrapLife       \* LABORATORY_WIT_LIFETIME_SECONDS, LABORATORY_SVID_LIFETIME_SECONDS

ASSUME WrapsAssumption ==
    /\ Pretty \in Forms /\ OtherKey \notin Envelopes
    /\ WrapLife \in Nat
    /\ 0 < PresentWindow /\ PresentWindow <= WrapLife

\* present_capability: the signed fields.  The expiry of the capability may
\* shorten the window, and an empty window is refused.
Signable(envelopes) ==
    {[agent |-> a, envelope |-> e, at |-> t, expires |-> t + w] :
        a \in Agents, e \in envelopes, t \in 0..MaxTime, w \in 1..PresentWindow}
Messages == Signable(Envelopes)

\* What may be handed in as a presentation: the fields as they arrive, the
\* message the signature in it was made over, and the text of it.
Documents ==
    [message : Signable(Envelopes \union {OtherKey}), signed : Messages, form : Forms]

\* The document as it was issued.
Issued(m) == [message |-> m, signed |-> m, form |-> Pretty]

\* Mutant of NotAfter: the wrap has its own lifetime.
NotAfterOwn(m) == m.at + WrapLife

\* laboratory_wit_not_after, laboratory_svid_not_after
NotAfter(m) == IF m.expires <= m.at + WrapLife THEN m.expires ELSE m.at + WrapLife

\* emit_laboratory_wit: key is the confirmation key, signer who signed.
Wit(m) == [sub |-> Issued(m), exp |-> NotAfter(m), key |-> m.envelope, signer |-> m.envelope]

\* emit_laboratory_x509_svid
Svid(m) == [uri |-> Issued(m), exp |-> NotAfter(m), key |-> m.envelope, signer |-> m.envelope]

\* sign_laboratory_wimse_http_message, over POST /check-wimse.
HttpSignature(m) == [digest |-> Issued(m), signer |-> m.envelope]

\* What stores emitted, and what was signed for any document with another key.
OtherClaims ==
    {[exp |-> NotAfter(document.message), key |-> k, signer |-> OtherKey, of |-> document] :
        document \in Documents, k \in Envelopes \union {OtherKey}}
Tokens ==
    {Wit(m) : m \in Messages} \union
    {[sub |-> c.of, exp |-> c.exp, key |-> c.key, signer |-> c.signer] : c \in OtherClaims}
Certificates ==
    {Svid(m) : m \in Messages} \union
    {[uri |-> c.of, exp |-> c.exp, key |-> c.key, signer |-> c.signer] : c \in OtherClaims}
HttpSignatures ==
    {HttpSignature(m) : m \in Messages} \union [digest : Documents, signer : {OtherKey}]

\* Mutant of VerifyDocument: the fields are taken as they arrive.
VerifyWindow(document, time) == time < document.message.expires

\* verify_presentation: the signature, over the fields as they arrive, and the
\* window.
VerifyDocument(document, time) ==
    /\ document.signed = document.message
    /\ time < document.message.expires

\* require_token_time, require_not_after_not_past_expiry
RequireTime(exp, message, time) == exp <= message.expires /\ time < exp

\* require_workload_identity_token, under the envelope key the document names.
RequireToken(token, message, time) ==
    /\ token.signer = message.envelope
    /\ RequireTime(token.exp, message, time)

\* require_laboratory_wimse
RequireWimse(token, digest, document, time) ==
    /\ digest = document
    /\ RequireToken(token, document.message, time)
    /\ token.sub = document
    /\ token.key = document.message.envelope

SelfSigned(certificate) == certificate.signer = certificate.key

\* require_laboratory_x509_svid
RequireSvid(certificate, document, time) ==
    /\ certificate.uri = document
    /\ RequireTime(certificate.exp, document.message, time)
    /\ SelfSigned(certificate)
    /\ certificate.key = document.message.envelope

\* require_laboratory_wimse_http_message_signature
RequireHttpSignature(signature, digest, document) ==
    /\ signature.signer = document.message.envelope
    /\ signature.digest = digest

\* verify_wimse
VerifyWimse(token, digest, document, time) ==
    /\ RequireWimse(token, digest, document, time)
    /\ VerifyDocument(document, time)

\* apply_check_wimse_request
CheckWimse(signature, token, digest, document, time) ==
    /\ RequireHttpSignature(signature, digest, document)
    /\ VerifyWimse(token, digest, document, time)

\* apply_check_svid_request, verify_x509_svid
CheckSvid(certificate, document, time) ==
    /\ RequireSvid(certificate, document, time)
    /\ VerifyDocument(document, time)

------------------------------------------------------------------------------
(* Properties.                                                               *)

\* All that passes a check at one time or another.
Wimse(document, time) ==
    {[time |-> time, document |-> document, signature |-> p[1], token |-> p[2],
      digest |-> p[3]] :
        p \in {q \in HttpSignatures \X Tokens \X {Issued(m) : m \in Messages} :
                  CheckWimse(q[1], q[2], q[3], document, time)}}
Svids(document, time) ==
    {[time |-> time, document |-> document, certificate |-> c] :
        c \in {d \in Certificates : CheckSvid(d, document, time)}}
AcceptedWimse == UNION {Wimse(document, time) : document \in Documents, time \in 0..MaxTime}
AcceptedSvid == UNION {Svids(document, time) : document \in Documents, time \in 0..MaxTime}

\* The pieces that pass a check were made for one another: the document is, to
\* the byte, one that was issued, and token or certificate, digest and signature
\* are those of the wrap it was issued in; no piece of another presentation, no
\* edited document and no piece signed with another key fits in, not even where
\* the document was edited to name that key (verify_wimse, verify_x509_svid).
AcceptedWrapIsWhole ==
    /\ \A w \in AcceptedWimse : w.time = now =>
           \E m \in Messages :
               /\ w.document = Issued(m) /\ w.digest = Issued(m)
               /\ w.token = Wit(m) /\ w.signature = HttpSignature(m)
    /\ \A w \in AcceptedSvid : w.time = now =>
           \E m \in Messages : w.document = Issued(m) /\ w.certificate = Svid(m)

\* A wrap that nobody touched is worth what its presentation is, to the second:
\* it is not refused earlier, and its own, longer lifetime buys it no time
\* (laboratory_wit_not_after, laboratory_svid_not_after).
WrapLivesAsPresented ==
    \A m \in Messages :
        /\ CheckWimse(HttpSignature(m), Wit(m), Issued(m), Issued(m), now) <=>
               VerifyDocument(Issued(m), now)
        /\ CheckSvid(Svid(m), Issued(m), now) <=> VerifyDocument(Issued(m), now)
==============================================================================
