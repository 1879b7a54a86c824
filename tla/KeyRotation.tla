---------------------------- MODULE KeyRotation ----------------------------
(***************************************************************************)
(* What is encrypted at rest (PayloadCrypto, TwoFactorService) under the   *)
(* keys of the environment, which every deployment may set anew.  Payloads *)
(* and endpoint secrets know a current and a previous key and a label for  *)
(* each; the secrets of second factors know one key, of their own or else  *)
(* the payloads'.  The ciphers are authenticated: a wrong key is an error. *)
(***************************************************************************)
EXTENDS Naturals, FiniteSets

CONSTANTS
  EncKeys,  \* keys an operator may set
  Labels,   \* key versions an operator may set
  MaxTexts  \* bound: ciphertexts in store

ASSUME KeyAssumption ==
  "none" \notin EncKeys \cup Labels /\ "jwt" \notin EncKeys /\ MaxTexts \in Nat

VARIABLES
  env,     \* the environment of the running build
  sealed,  \* ciphertexts of payloads and endpoint secrets: key and label
  factors  \* history: keys of second-factor secrets, and whether each was a key of its own

keyVars == <<env, sealed, factors>>

OrNone(S) == S \cup {"none"}
Environments ==
  [key : OrNone(EncKeys), label : Labels, prev : OrNone(EncKeys), prevLabel : Labels,
   factor : OrNone(EncKeys)]
Ciphertexts == [key : EncKeys, label : OrNone(Labels)]

KeyTypeOK ==
  /\ env \in Environments /\ sealed \subseteq Ciphertexts
  /\ factors \subseteq [key : EncKeys \cup {"jwt"}, own : BOOLEAN]

\* Ciphertexts of old builds carry no label.
KeyInit ==
  /\ env \in Environments /\ factors = {}
  /\ sealed \in {{}} \cup {{[key |-> k, label |-> "none"]} : k \in EncKeys}

\* One variable at a time; several at once are several steps.
Deploy(n, v) ==
  /\ env' = [env EXCEPT ![n] = v] /\ env' \in Environments
  /\ UNCHANGED <<sealed, factors>>

\* encrypt: without a key the payload is stored as it is.
TodaysCipher == [key |-> env.key, label |-> env.label]
Seal ==
  /\ env.key # "none" /\ Cardinality(sealed) < MaxTexts
  /\ sealed' = sealed \cup {TodaysCipher}
  /\ UNCHANGED <<env, factors>>

\* encryptIfNeeded: what is ciphertext already stays under the key it has.
Plain == [key |-> "none", label |-> "none"]
EncryptIfNeeded(c) == IF c = Plain /\ env.key # "none" THEN TodaysCipher ELSE c

\* The hooks of the endpoint document, on save and on every kind of update: a
\* new secret, or one that was read as it is stored.
SaveSecret(c) ==
  /\ Cardinality(sealed) < MaxTexts
  /\ sealed' = (sealed \ {c}) \cup ({EncryptIfNeeded(c)} \ {Plain})
  /\ UNCHANGED <<env, factors>>

\* pickKey: by the label; a text without one is taken for an old one.
PickKey(c) ==
  CASE c.label = "none" -> IF env.prev # "none" THEN env.prev ELSE env.key
    [] c.label = env.label -> env.key
    [] c.label # env.label /\ env.prev # "none" /\ c.label = env.prevLabel -> env.prev
    [] OTHER -> IF env.key # "none" THEN env.key ELSE env.prev

\* Mutant: the other key is not tried.
OneKey(c) == {PickKey(c)}

\* The picked key, then the other one.
Tried(c) == {PickKey(c), IF PickKey(c) = env.key THEN env.prev ELSE env.key}

\* Mutant: a text no key opens is returned as it is.
OpenOrText(c) == IF c.key \in Tried(c) THEN "plain" ELSE "text"

\* decrypt: the text itself when there is no key to try, an error when none fits.
OpenText(c) ==
  IF PickKey(c) = "none" THEN "text" ELSE IF c.key \in Tried(c) THEN "plain" ELSE "error"

\* Mutant: the payloads' key comes first.
PayloadKeyFirst ==
  IF env.key # "none" THEN env.key ELSE IF env.factor # "none" THEN env.factor ELSE "jwt"

\* getEncryptionKey.
FactorKey ==
  IF env.factor # "none" THEN env.factor ELSE IF env.key # "none" THEN env.key ELSE "jwt"

\* decryptSecret: there is no second key to try.
OpenFactor(f) == IF f.key = FactorKey THEN "plain" ELSE "error"

SealFactor ==
  /\ Cardinality(factors) < MaxTexts
  /\ factors' = factors \cup {[key |-> FactorKey, own |-> env.factor # "none"]}
  /\ UNCHANGED <<env, sealed>>

KeyNext ==
  \/ \E n \in DOMAIN env, v \in OrNone(EncKeys) \cup Labels : Deploy(n, v)
  \/ Seal \/ SealFactor \/ \E c \in sealed \cup {Plain} : SaveSecret(c)

-----------------------------------------------------------------------------
(* Properties *)

\* What was sealed under the current or the previous key opens, whatever the
\* labels say, unless encryption is switched off and the label left as it was:
\* then the text is handed out as if it were plain.
OpensWithEitherKey ==
  \A c \in sealed : c.key \in {env.key, env.prev} =>
    OpenText(c) = "plain" \/ (env.key = "none" /\ c.label = env.label)

\* As long as a key is set, ciphertext is never taken for plain text.
TextOnlyWhenOff == \A c \in sealed : OpenText(c) = "text" => env.key = "none"

\* A new payload key costs no second factor that was sealed under a key of its own:
\* it opens as long as that key is set.
FactorsOutliveRotation ==
  \A f \in factors : f.own /\ env.factor = f.key => OpenFactor(f) = "plain"

\* What can be opened after a deployment (PayloadCrypto, TwoFactorService).
KeysSafe ==
  /\ KeyTypeOK /\ OpensWithEitherKey /\ TextOnlyWhenOff /\ FactorsOutliveRotation
=============================================================================
