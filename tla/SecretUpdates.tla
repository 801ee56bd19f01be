----------------------------- MODULE SecretUpdates -----------------------------
(***************************************************************************)
(* The changes of component, OAuth2, volume, key vault, external DNS and   *)
(* build secrets and of the passwords of private image hubs                *)
(* (api/secrets/secret_handler.go,                                         *)
(* api/buildsecrets/buildsecrets_handler.go,                               *)
(* api/privateimagehubs/internal/secrets.go) and how they are shown        *)
(* afterwards (api/models/secret.go).  An image hub is a key, its password *)
(* the value; Absent is a hub the secret does not know, and Default one    *)
(* without a password.                                                     *)
(*                                                                         *)
(* A change reads the secret, sets its keys in the copy and records in an  *)
(* annotation when each was set, and sends the copy with an Update.  The   *)
(* update carries the resourceVersion of the copy, and is not retried.     *)
(***************************************************************************)
EXTENDS Integers, FiniteSets

CONSTANTS
  Secrets, Keys, Requests, Changes, Absent, Default,
  KeyVaultKeys,   \* client id and client secret of a key vault
  Suffixes,       \* the names under which these are looked up in the metadata
  Suffix,         \* Suffix[k]: the one of key k
  Declared,       \* Declared[k]: the declared name that equals k but for case
  Kind,           \* Kind[k]: what sort of secret key k is
  MaxRevision     \* bound on the changes the operator makes

Values == {Absent, Default} \union Requests
MetadataKeys == Keys \union Suffixes

\* conditional: allowed only while the deployed configuration asks for it
ChangeType == [secret : Secrets, keys : SUBSET Keys, conditional : BOOLEAN, blank : BOOLEAN]

ASSUME ConstantsAssumption ==
  /\ Changes \subseteq ChangeType
  /\ Absent \notin Requests /\ Default \notin Requests /\ Absent # Default
  /\ KeyVaultKeys \subseteq Keys
  /\ Suffixes \intersect Keys = {}
  /\ Suffix \in [KeyVaultKeys -> Suffixes]
  /\ Declared \in [Keys -> Keys]
  /\ Kind \in [Keys -> {"plain", "credential", "build", "hub"}]
  \* clearing the password of a hub is left out
  /\ \A c \in Changes, k \in Keys : c.blank /\ k \in c.keys => Kind[k] # "hub"
  /\ MaxRevision \in Nat

VARIABLES
  secrets,     \* the secret objects
  configured,  \* secrets the active RadixDeployment or the RadixApplication asks for
  revision,    \* the latest resourceVersion given out by the API server
  clock,       \* time.Now()
  req          \* req[r]: what the goroutine serving request r knows

vars == <<secrets, configured, revision, clock, req>>
-----------------------------------------------------------------------------
(* version: resourceVersion; updated: the metadata annotation, 0 is unset  *)
Secret ==
  [exists : BOOLEAN, version : Nat, data : [Keys -> Values], updated : [MetadataKeys -> Nat]]

Request ==
  [pc : {"idle", "read", "update", "ok", "error"}, change : Changes,
   copy : Secret, stamp : Nat]

TypeOK ==
  /\ secrets \in [Secrets -> Secret]
  /\ configured \subseteq Secrets
  /\ revision \in Nat
  /\ clock \in Nat
  /\ req \in [Requests -> Request]

Blank(v) ==
  [exists |-> v # 0, version |-> v, data |-> [k \in Keys |-> Absent],
   updated |-> [k \in MetadataKeys |-> 0]]

Init ==
  /\ secrets = [s \in Secrets |-> Blank(0)]
  /\ configured \in SUBSET Secrets
  /\ revision = 0
  /\ clock = 0
  /\ req \in [Requests ->
       {[pc |-> "idle", change |-> c, copy |-> Blank(0), stamp |-> 0] : c \in Changes}]
-----------------------------------------------------------------------------
IsHub(c) == \E k \in c.keys : Kind[k] = "hub"

(* The password of an image hub is not looked at.                          *)
ChangePrivateImageHubSecret(r) ==
  /\ req[r].pc = "idle" /\ IsHub(req[r].change)
  /\ req' = [req EXCEPT ![r].pc = "read"]
  /\ UNCHANGED <<secrets, configured, revision, clock>>

(* A blank value is refused; the change of an external DNS certificate, of *)
(* an OAuth2 client secret or of a build secret reads the configuration    *)
(* and is refused when it has no such secret.                              *)
Accept(r) ==
  LET c == req[r].change IN
  /\ req[r].pc = "idle" /\ ~IsHub(c)
  /\ \/ /\ c.blank \/ (c.conditional /\ c.secret \notin configured)
        /\ req' = [req EXCEPT ![r].pc = "error"]
     \/ /\ ~c.blank /\ (c.conditional => c.secret \in configured)
        /\ req' = [req EXCEPT ![r].pc = "read"]
  /\ UNCHANGED <<secrets, configured, revision, clock>>

(* mutant: the metadata of the other keys is lost                          *)
MutantPatchWhole(updated, keys, now) ==
  [k \in MetadataKeys |-> IF k \in keys THEN now ELSE 0]

PatchSecretMetadata(updated, keys, now) ==
  [k \in MetadataKeys |-> IF k \in keys THEN now ELSE updated[k]]

\* mutant: a key that has been set before is not set again
MutantWithKeyValues(secret, keys, r, now) ==
  [secret EXCEPT
     !.data = [k \in Keys |-> IF k \in keys /\ @[k] \notin Requests THEN r ELSE @[k]],
     !.updated = PatchSecretMetadata(@, keys, now)]

WithKeyValues(secret, keys, r, now) ==
  [secret EXCEPT
     !.data = [k \in Keys |-> IF k \in keys THEN r ELSE @[k]],
     !.updated = PatchSecretMetadata(@, keys, now)]

(* A hub the secret does not know is not added.                            *)
UnknownHub(c, secret) == IsHub(c) /\ \E k \in c.keys : secret.data[k] = Absent

ReadSecret(r) ==
  LET q == req[r]
      s == q.change.secret IN
  /\ q.pc = "read"
  /\ \/ /\ ~secrets[s].exists \/ UnknownHub(q.change, secrets[s])
        /\ req' = [req EXCEPT ![r].pc = "error"]
        /\ UNCHANGED clock
     \/ /\ secrets[s].exists /\ ~UnknownHub(q.change, secrets[s])
        /\ clock' = clock + 1
        /\ req' = [req EXCEPT ![r] =
             [q EXCEPT !.pc = "update", !.stamp = clock + 1,
                       !.copy = WithKeyValues(secrets[s], q.change.keys, r, clock + 1)]]
  /\ UNCHANGED <<secrets, configured, revision>>

\* the API server refuses an update of anything but the version that was read
UnchangedSince(s, copy) == secrets[s].exists /\ secrets[s].version = copy.version

\* mutant: a conflict is not reported
MutantUpdateSecret(r) ==
  LET q == req[r]
      s == q.change.secret IN
  /\ q.pc = "update"
  /\ \/ /\ UnchangedSince(s, q.copy)
        /\ secrets' = [secrets EXCEPT ![s] = [q.copy EXCEPT !.version = revision + 1]]
        /\ revision' = revision + 1
     \/ /\ ~UnchangedSince(s, q.copy)
        /\ UNCHANGED <<secrets, revision>>
  /\ req' = [req EXCEPT ![r].pc = "ok"]
  /\ UNCHANGED <<configured, clock>>

UpdateSecret(r) ==
  LET q == req[r]
      s == q.change.secret IN
  /\ q.pc = "update"
  /\ \/ /\ UnchangedSince(s, q.copy)
        /\ secrets' = [secrets EXCEPT ![s] = [q.copy EXCEPT !.version = revision + 1]]
        /\ revision' = revision + 1
        \* the answer may be lost after the update was made
        /\ \E pc \in {"ok", "error"} : req' = [req EXCEPT ![r].pc = pc]
     \/ /\ ~UnchangedSince(s, q.copy)
        /\ req' = [req EXCEPT ![r].pc = "error"]
        /\ UNCHANGED <<secrets, revision>>
  /\ UNCHANGED <<configured, clock>>

CallFails(r) ==
  /\ req[r].pc \in {"read", "update"}
  /\ req' = [req EXCEPT ![r].pc = "error"]
  /\ UNCHANGED <<secrets, configured, revision, clock>>
-----------------------------------------------------------------------------
(* The operator creates the secrets a deployment asks for, gives default   *)
(* values to keys, drops keys and secrets that are no longer asked for.    *)
OperatorWrites(s, secret) ==
  /\ revision < MaxRevision
  /\ revision' = revision + 1
  /\ secrets' = [secrets EXCEPT ![s] = [secret EXCEPT !.version = revision + 1]]
  /\ UNCHANGED <<configured, clock, req>>

CreateSecret(s) ==
  /\ ~secrets[s].exists
  /\ \E v \in {Absent, Default} :
       OperatorWrites(s, [Blank(revision + 1) EXCEPT !.data = [k \in Keys |-> v]])

DefaultKeys(s) ==
  /\ secrets[s].exists
  /\ OperatorWrites(s, [secrets[s] EXCEPT
       !.data = [k \in Keys |-> IF @[k] = Absent THEN Default ELSE @[k]]])

DropKey(s, k) ==
  /\ secrets[s].exists /\ secrets[s].data[k] # Absent
  /\ OperatorWrites(s, [secrets[s] EXCEPT !.data[k] = Absent])

DeleteSecret(s) ==
  /\ secrets[s].exists
  /\ OperatorWrites(s, [Blank(0) EXCEPT !.version = revision + 1])

Deploy ==
  /\ \E c \in SUBSET Secrets : configured' = c
  /\ UNCHANGED <<secrets, revision, clock, req>>

RequestStep(r) == ReadSecret(r) \/ UpdateSecret(r)

Next ==
  \/ \E r \in Requests : Accept(r) \/ ChangePrivateImageHubSecret(r) \/ RequestStep(r) \/ CallFails(r)
  \/ \E s \in Secrets :
       \/ CreateSecret(s) \/ DefaultKeys(s) \/ DeleteSecret(s)
       \/ \E k \in Keys : DropKey(s, k)
  \/ Deploy

Spec == Init /\ [][Next]_vars
-----------------------------------------------------------------------------
(* How a secret is shown: getSecretsForComponent and its siblings look up  *)
(* the value and the metadata under the declared name; those of a key      *)
(* vault look for the metadata under the suffix of the secret's name.      *)

(* GetBuildSecrets: what is not the default value counts as set.           *)
UnsetBuildSecret(v) == v = Default

(* GetPrivateImageHubs: pending are the servers in the secret that have no *)
(* password.                                                               *)
PendingHub(v) == v = Default

(* An ordinary or an OAuth2 secret is not set when its key is not there,   *)
(* one of a volume, a key vault or a client certificate also when it has   *)
(* the operator's default.                                                 *)
NotSet(k, v) ==
  \/ Kind[k] = "plain" /\ v = Absent
  \/ Kind[k] = "credential" /\ v \in {Absent, Default}
  \/ Kind[k] = "build" /\ UnsetBuildSecret(v)
  \/ Kind[k] = "hub" /\ PendingHub(v)

ShownStatus(s, k) ==
  IF secrets[s].exists /\ ~NotSet(k, secrets[s].data[Declared[k]])
  THEN "Consistent" ELSE "Pending"

\* mutant: the metadata of some other key is shown
MutantMetadataKey(k) == IF k \in KeyVaultKeys THEN Suffix[k] ELSE CHOOSE x \in Keys : TRUE

MetadataKey(k) == IF k \in KeyVaultKeys THEN Suffix[k] ELSE Declared[k]

ShownUpdated(s, k) == secrets[s].updated[MetadataKey(k)]
-----------------------------------------------------------------------------
(* The values that one request sends together, such as a certificate and   *)
(* its private key, are stored together: one of them is replaced only by   *)
(* the value of a later request (secret_handler.go:237).                   *)
StoredTogether ==
  \A s \in Secrets, r, x \in Requests : \A k, l \in req[r].change.keys :
    secrets[s].data[k] = r /\ secrets[s].data[l] = x => req[x].stamp >= req[r].stamp

(* A value is shown with the time of the request that wrote it: data and   *)
(* metadata never come from two requests (kubequery/secret.go:36).         *)
DatedByWriter ==
  \A s \in Secrets, k \in Keys, r \in Requests :
    secrets[s].data[k] = r => secrets[s].updated[k] = req[r].stamp

(* While a secret is there, the time of a key never goes back.             *)
TimesGrow ==
  \A s \in Secrets, k \in Keys :
    secrets[s].exists /\ secrets'[s].exists =>
      secrets'[s].updated[k] >= secrets[s].updated[k]

UpdatedNeverGoesBack == [][TimesGrow]_vars

(* A change that was accepted is shown as set, and with its own time, as   *)
(* long as its value is there.                                             *)
Current(r, k) == req[r].pc = "ok" /\ secrets[req[r].change.secret].data[k] = r

AcceptedIsConsistent ==
  \A r \in Requests : \A k \in req[r].change.keys :
    Current(r, k) => ShownStatus(req[r].change.secret, k) = "Consistent"

AcceptedIsDated ==
  \A r \in Requests : \A k \in req[r].change.keys :
    Current(r, k) => ShownUpdated(req[r].change.secret, k) = req[r].stamp

(* A build secret is shown as set only when a value was set, and not when  *)
(* the operator has yet to add its key (buildsecrets_handler.go:84).       *)
ConsistentIsSet ==
  \A s \in Secrets, k \in Keys :
    ShownStatus(s, k) = "Consistent" => secrets[s].data[Declared[k]] \in Requests

(* The detailed specification implements the abstract one: a change takes  *)
(* effect at one instant, and nothing is lost to a concurrent one.         *)
Atomic == INSTANCE AtomicSecrets WITH
  contents <- [s \in Secrets |-> secrets[s].data],
  change <- [r \in Requests |-> req[r].change],
  answer <- [r \in Requests |-> IF req[r].pc \in {"ok", "error"} THEN req[r].pc ELSE "none"]

ImplementsAtomicSecrets == Atomic!Spec
=============================================================================
