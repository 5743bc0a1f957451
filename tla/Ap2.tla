-------------------------------- MODULE Ap2 ---------------------------------
(***************************************************************************)
(* The AP2 profile: how a user's intent is bound to a REAPP mandate and    *)
(* signed, and how the validator binds it again and checks it.  Signer and *)
(* validator are two implementations: the one normalises and hashes what   *)
(* the user wrote, the other hashes what it was sent.                      *)
(*                                                                         *)
(* An intent is [confirm, refund, merchants, skus, expiry], its expiry     *)
(* [at, zone], a clock time and its offset from UTC in seconds; a Stellar  *)
(* authorization is [user, agent, asset, max, decimals, nonce], max being  *)
(* a decimal text.  The formats of addresses, timestamps and JSON are left *)
(* out; what is of another shape does not parse.                           *)
(***************************************************************************)
EXTENDS Amounts, Crypto, Sequences

SpecVersion       == "0.1.0"
DataKey           == "ap2.mandates.IntentMandate"
BindingVersion    == "reapp-ap2/1"
CredentialVersion == "reapp-ap2-credential/1"
Algorithm         == "stellar-ed25519-sha256"

-----------------------------------------------------------------------------
(* sdk index.ts: the mandate and its id                                    *)

\* createIntentMandate: the id stands for the text of the amount, not for its decimals.
CreateIntentMandate(user, agent, merchant, asset, max, expiry, decimals, nonce) ==
    [id |-> Hash(<<user, agent, merchant, asset, max, expiry, nonce>>),
     user |-> user, agent |-> agent, merchant |-> merchant, asset |-> asset,
     max |-> ToStroops(max, decimals), expiry |-> expiry, decimals |-> decimals]

-----------------------------------------------------------------------------
(* index.ts, credential.ts: the user's side                                *)

\* The fields of an AP2 intent.
IsIntent(intent) ==
    /\ intent = [confirm |-> intent.confirm, refund |-> intent.refund,
                 merchants |-> intent.merchants, skus |-> intent.skus, expiry |-> intent.expiry]
    /\ intent.merchants \in Seq({intent.merchants[k] : k \in DOMAIN intent.merchants})
    /\ intent.expiry.at \in Int /\ intent.expiry.zone \in Int

Utc(time) == time.at - time.zone

\* normalizeAp2Intent does not throw: REAPP can enforce all of the intent.
Enforceable(intent, at) ==
    /\ ~ intent.confirm /\ ~ intent.refund
    /\ Len(intent.merchants) = 1 /\ intent.skus = <<>>
    /\ Utc(intent.expiry) > at

Normalized(intent) == [intent EXCEPT !.expiry = [at |-> Utc(intent.expiry), zone |-> 0]]

\* bindIntentMandate
BindIntentMandate(intent, stellar) ==
    CreateIntentMandate(stellar.user, stellar.agent, intent.merchants[1], stellar.asset,
        stellar.max, Utc(intent.expiry), stellar.decimals,
        <<BindingVersion, Hash(Normalized(intent)), stellar.nonce>>)

\* Faulty: the payload counts with what its mandate id stands for only.
DigestOfId(version, payload, id) == Hash(<<version, SpecVersion, DataKey, BindingVersion, id>>)
\* ap2CredentialSigningDigest
SigningDigest(version, payload, id) ==
    Hash(<<version, payload.spec, payload.key, payload.binding, Hash(payload), id>>)

Payload(intent, stellar) ==
    [spec |-> SpecVersion, key |-> DataKey, binding |-> BindingVersion,
     intent |-> Normalized(intent), stellar |-> stellar]

\* The credential that `signer' makes of it; signAp2Mandate throws if that is not the
\* user named, or the intent not Enforceable.
SignedCredential(intent, stellar, signer) ==
    LET id == BindIntentMandate(intent, stellar).id
    IN  [version |-> CredentialVersion, payload |-> Payload(intent, stellar), id |-> id,
         algorithm |-> Algorithm,
         signature |-> Sign(signer, SigningDigest(CredentialVersion, Payload(intent, stellar), id))]

-----------------------------------------------------------------------------
(* credential.ts, validator.ts: the validator's side                       *)

\* parseSignedAp2Mandate does not throw, and every version is the supported one.
ParsesAsCredential(credential) ==
    LET intent == credential.payload.intent IN
    /\ ~ intent.confirm /\ ~ intent.refund
    /\ Len(intent.merchants) = 1 /\ Len(intent.skus) = 0
    /\ credential.payload.stellar.decimals \in 0 .. MaxDecimals
    /\ credential.version = CredentialVersion
    /\ credential.payload.spec = SpecVersion /\ credential.payload.key = DataKey
    /\ credential.payload.binding = BindingVersion
    /\ credential.algorithm = Algorithm

\* rebuildCredentialBinding does not throw: a UTC expiry and an amount of money.
Rebindable(payload) ==
    /\ payload.intent.expiry.zone = 0 /\ payload.intent.expiry.at > 0
    /\ ToStroops(payload.stellar.max, payload.stellar.decimals) # Garbage

\* rebuildCredentialBinding
RebuildBinding(payload) ==
    CreateIntentMandate(payload.stellar.user, payload.stellar.agent,
        payload.intent.merchants[1], payload.stellar.asset,
        payload.stellar.max, payload.intent.expiry.at, payload.stellar.decimals,
        <<payload.binding, Hash(payload.intent), payload.stellar.nonce>>)

\* The credential is its user's, and unchanged.
Authentic(credential, user) ==
    LET payload == credential.payload IN
    /\ ParsesAsCredential(credential)
    /\ payload.stellar.user = user
    /\ Rebindable(payload)
    /\ RebuildBinding(payload).id = credential.id
    /\ credential.signature =
          Sign(payload.stellar.user, SigningDigest(credential.version, payload, credential.id))

\* The purchase [merchant, amount] is within what the credential allows.
Covers(credential, input, at) ==
    LET mandate == RebuildBinding(credential.payload)
        amount  == ToStroops(input.amount, mandate.decimals)
    IN  /\ input.merchant = mandate.merchant
        /\ IsPrice(input.amount, mandate.decimals) /\ amount <= mandate.max
        /\ mandate.expiry > at

\* validateAndConsume, up to the replay store: an error of whatever code changes nothing.
Valid(credential, input, at) ==
    Authentic(credential, input.user) /\ Covers(credential, input, at)
=============================================================================
