---------------------------- MODULE EncryptionKey ----------------------------
(***************************************************************************)
(* Which key the stored payloads can be read with.  The gateway takes its  *)
(* key from the Keychain when it starts, and compares it with what is      *)
(* stored (GatewayStore.assertEncryptionKey); rotate-encryption-key.ts     *)
(* takes everything from one key to another (rotateEncryptedPayloads).     *)
(* The operator may put any key into the Keychain at any time, and rotates *)
(* while the gateway is stopped, as the documentation asks.                *)
(***************************************************************************)
CONSTANTS Jobs, Keys, NoKey

ASSUME NoKeyAssumption == NoKey \notin Keys

VARIABLES
  prompt,      \* the key a job's prompt is encrypted with, NoKey without the job
  others,      \* the keys of its schema, result and events
  digest,      \* the key of the request hash of its idempotency record, if any
  sentinel,    \* the key of gatewayMetadata.encryptionSentinel, if any
  keychain,    \* the key the next process gets
  gateway      \* the process, with the key it got

vars == <<prompt, others, digest, sentinel, keychain, gateway>>

EncryptionTypeOK ==
  /\ prompt \in [Jobs -> Keys \cup {NoKey}]
  /\ others \in [Jobs -> SUBSET Keys]
  /\ digest \in [Jobs -> Keys \cup {NoKey}]
  /\ \A j \in Jobs : prompt[j] = NoKey => others[j] = {} /\ digest[j] = NoKey
  /\ sentinel \in Keys \cup {NoKey}
  /\ keychain \in Keys
  /\ gateway \in [at: {"down", "starting", "up"}, key: Keys]

Stored == {j \in Jobs : prompt[j] # NoKey}

\* What is under k and nothing else.
Under(k) ==
  /\ \A j \in Stored : prompt[j] = k
  /\ \A j \in Jobs : others[j] \subseteq {k}

Rows == <<prompt, others, digest>>

-----------------------------------------------------------------------------
(* The process *)

Launch ==
  /\ gateway.at = "down"
  /\ gateway' = [at |-> "starting", key |-> keychain]
  /\ UNCHANGED <<Rows, sentinel, keychain>>

\* Crash, stop, or a start that fails.
Goes == gateway' = [gateway EXCEPT !.at = "down"] /\ UNCHANGED <<Rows, sentinel, keychain>>

Ends == gateway.at # "down" /\ Goes

ComesUp ==
  /\ gateway' = [gateway EXCEPT !.at = "up"]
  /\ sentinel' = gateway.key
  /\ UNCHANGED <<Rows, keychain>>

\* Faulty: a database without a sentinel is taken for an empty one.
BootstrapsUnchecked == sentinel = NoKey /\ ComesUp

\* assertEncryptionKey on a database that has no sentinel yet: the prompt of one
\* job, whichever the query finds, stands for all that is stored.
Bootstraps ==
  /\ sentinel = NoKey
  /\ \/ Stored = {} /\ ComesUp
     \/ \E j \in Stored : IF prompt[j] = gateway.key THEN ComesUp ELSE Goes

Compares ==
  /\ sentinel # NoKey
  /\ IF sentinel = gateway.key THEN ComesUp ELSE Goes

AssertEncryptionKey ==
  /\ gateway.at = "starting"
  /\ Bootstraps \/ Compares

-----------------------------------------------------------------------------
(* The store, as far as it encrypts *)

Submit(j) ==
  /\ gateway.at = "up" /\ j \notin Stored
  /\ prompt' = [prompt EXCEPT ![j] = gateway.key]
  /\ others' = [others EXCEPT ![j] = {gateway.key}]
  /\ digest' = [digest EXCEPT ![j] = gateway.key]
  /\ UNCHANGED <<sentinel, keychain, gateway>>

\* An event or a result.
Write(j) ==
  /\ gateway.at = "up" /\ j \in Stored
  /\ others' = [others EXCEPT ![j] = @ \cup {gateway.key}]
  /\ UNCHANGED <<prompt, digest, sentinel, keychain, gateway>>

Prune(j) ==
  /\ gateway.at = "up" /\ j \in Stored
  /\ prompt' = [prompt EXCEPT ![j] = NoKey]
  /\ others' = [others EXCEPT ![j] = {}]
  /\ digest' = [digest EXCEPT ![j] = NoKey]
  /\ UNCHANGED <<sentinel, keychain, gateway>>

-----------------------------------------------------------------------------
(* The operator *)

ReplaceKey(k) ==
  /\ keychain' = k
  /\ UNCHANGED <<Rows, sentinel, gateway>>

\* Faulty: the records of requests stay.
ForgetsNothing == digest

Forgets == [j \in Jobs |-> NoKey]

\* One transaction.  It throws, and changes nothing, if the keys are the same or
\* anything that is stored cannot be read with the current one.
Rotate(current, next) ==
  /\ gateway.at = "down"
  /\ current # next
  /\ sentinel \in {NoKey, current}
  /\ Under(current)
  /\ prompt' = [j \in Jobs |-> IF j \in Stored THEN next ELSE NoKey]
  /\ others' = [j \in Jobs |-> IF others[j] = {} THEN {} ELSE {next}]
  /\ digest' = Forgets
  /\ sentinel' = next
  /\ UNCHANGED <<keychain, gateway>>

-----------------------------------------------------------------------------
\* A database that an older version has filled under one key, or an empty one.
Init ==
  /\ \E k \in Keys :
       /\ prompt \in [Jobs -> {k, NoKey}]
       /\ others = [j \in Jobs |-> {prompt[j]} \ {NoKey}]
       /\ digest \in [Jobs -> {k, NoKey}]
       /\ \A j \in Jobs : prompt[j] = NoKey => digest[j] = NoKey
       /\ sentinel \in {k, NoKey}
  /\ keychain \in Keys
  /\ gateway \in [at: {"down"}, key: {keychain}]

Next ==
  \/ Launch \/ Ends \/ AssertEncryptionKey
  \/ \E j \in Jobs : Submit(j) \/ Write(j) \/ Prune(j)
  \/ \E k \in Keys : ReplaceKey(k)
  \/ \E current, next \in Keys : Rotate(current, next)

Spec == Init /\ [][Next]_vars

-----------------------------------------------------------------------------
(* Properties *)

\* Once the start has compared one value, the gateway serves only with the key
\* that reads everything: no request ever finds a payload it cannot decrypt.
Readable == gateway.at = "up" => Under(gateway.key)

\* A retry of a request that is still on record is recognised: its hash was made
\* with the key the gateway hashes with.
RetriesRecognised ==
  gateway.at = "up" => \A j \in Jobs : digest[j] \in {gateway.key, NoKey}

\* Whatever the operator puts into the Keychain, nothing that was readable under
\* one key becomes a mixture of two, in which no key would read everything.
OneKey ==
  \E k \in Keys :
    /\ Under(k)
    /\ sentinel \in {k, NoKey}
    /\ \A j \in Jobs : digest[j] \in {k, NoKey}
    /\ gateway.at = "up" => gateway.key = k /\ sentinel = k
=============================================================================
