---------------------------- MODULE MCSecretUpdates ----------------------------
(***************************************************************************)
(* Instances of SecretUpdates for TLC.                                     *)
(***************************************************************************)
EXTENDS SecretUpdates, TLC

CONSTANTS tls, creds, cert, key, id, idSuffix, lower, upper, server

To(s, keys, conditional, blank) ==
  [secret |-> s, keys |-> keys, conditional |-> conditional, blank |-> blank]

\* a certificate with its key, and a single value of the same secret,
\* and the password of an image hub in another one
TLSChanges ==
  {To(tls, {cert, key}, TRUE, FALSE), To(tls, {key}, FALSE, FALSE),
   To(creds, {server}, FALSE, FALSE), To(tls, {cert}, FALSE, TRUE)}

VaultChanges == {To(creds, {id}, FALSE, FALSE)}
BuildChanges == {To(creds, {lower}, TRUE, FALSE), To(creds, {upper}, TRUE, FALSE)}

NoKeys == {}
NoSuffix == [k \in {} |-> k]
VaultSuffix == id :> idSuffix
AsWritten == [k \in Keys |-> k]
LowerCase == [k \in Keys |-> IF k = upper THEN lower ELSE k]

Kinds ==
  [k \in Keys |-> IF k = server THEN "hub" ELSE IF k \in {lower, upper} THEN "build" ELSE "credential"]

RequestSymmetry == Permutations(Requests)
=============================================================================
