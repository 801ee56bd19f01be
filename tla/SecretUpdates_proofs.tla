------------------------- MODULE SecretUpdates_proofs -------------------------
(***************************************************************************)
(* The changes of secrets take effect at one instant, with values and      *)
(* times that belong together, for any number of secrets, keys, requests   *)
(* and changes.                                                            *)
(*                                                                         *)
(* Every write gives the secret a version of its own, so a copy whose      *)
(* version is still there is the secret with the change of its request     *)
(* laid over it.  That the values and times of a secret belong together is *)
(* said of its contents alone (Sound), and holds of the copies too.        *)
(***************************************************************************)
EXTENDS SecretUpdates, TLAPS

USE ConstantsAssumption

\* q has read the secret, or failed without reading it
Served(q) == q.pc \notin {"idle", "read"}

(* What holds of the contents c of a secret, and of a copy of one, when    *)
(* the requests are q and it is t o'clock.                                 *)
Dated(c, q) ==
  \A k \in Keys, r \in Requests :
    c.data[k] = r => c.updated[k] = q[r].stamp /\ Served(q[r])

Ordered(c, q) ==
  \A r, x \in Requests : \A k, l \in q[r].change.keys :
    c.data[k] = r /\ c.data[l] = x => q[x].stamp >= q[r].stamp

Past(c, t) == \A k \in MetadataKeys : c.updated[k] <= t

Sound(c, q, t) == Dated(c, q) /\ Ordered(c, q) /\ Past(c, t)

SecretInv(s) == secrets[s].version <= revision /\ Sound(secrets[s], req, clock)

(* The copy of request r is the secret, with the change of r laid over it. *)
IsOverlay(copy, secret, r, keys, stamp) ==
  /\ copy.exists
  /\ copy.data = [k \in Keys |-> IF k \in keys THEN r ELSE secret.data[k]]
  /\ copy.updated = [k \in MetadataKeys |-> IF k \in keys THEN stamp ELSE secret.updated[k]]
  /\ Past(secret, stamp)

CopyInv(r) ==
  LET q == req[r] IN
  /\ q.copy.version <= revision
  /\ Sound(q.copy, req, clock)
  /\ UnchangedSince(q.change.secret, q.copy) =>
       IsOverlay(q.copy, secrets[q.change.secret], r, q.change.keys, q.stamp)

RequestInv(r) == req[r].stamp <= clock /\ (req[r].pc = "update" => CopyInv(r))

IInv ==
  /\ TypeOK
  /\ \A s \in Secrets : SecretInv(s)
  /\ \A r \in Requests : RequestInv(r)

(* What a step may do to the requests: none forgets what it was asked, nor *)
(* the stamp it has taken.                                                 *)
Later(q, p) ==
  \A r \in Requests :
    /\ p[r].change = q[r].change
    /\ Served(q[r]) => Served(p[r]) /\ p[r].stamp = q[r].stamp
-----------------------------------------------------------------------------
(* Types                                                                   *)

(* The fields of a request have their types.                               *)
LEMMA RequestType ==
  ASSUME NEW q \in [Requests -> Request], NEW r \in Requests
  PROVE  /\ q[r] \in Request /\ q[r].change \in Changes /\ q[r].change.secret \in Secrets
         /\ q[r].change.keys \subseteq Keys /\ q[r].copy \in Secret /\ q[r].stamp \in Nat
         /\ q[r].pc \in {"idle", "read", "update", "ok", "error"}
  <1>1. q[r] \in Request
    OBVIOUS
  <1>2. q[r].change \in Changes /\ q[r].copy \in Secret /\ q[r].stamp \in Nat
        /\ q[r].pc \in {"idle", "read", "update", "ok", "error"}
    BY <1>1 DEF Request
  <1>3. q[r].change \in ChangeType
    BY <1>2
  <1> QED
    BY <1>1, <1>2, <1>3 DEF ChangeType

(* The fields of a secret have their types.                                *)
LEMMA SecretType ==
  ASSUME NEW c \in Secret
  PROVE  /\ c.exists \in BOOLEAN /\ c.version \in Nat
         /\ c.data \in [Keys -> Values] /\ c.updated \in [MetadataKeys -> Nat]
  BY DEF Secret

(* A secret without contents.                                              *)
LEMMA BlankFacts ==
  ASSUME NEW v \in Nat
  PROVE  /\ Blank(v) \in Secret /\ Blank(v).exists = (v # 0) /\ Blank(v).version = v
         /\ \A k \in Keys : Blank(v).data[k] = Absent
         /\ \A k \in MetadataKeys : Blank(v).updated[k] = 0
  BY DEF Blank, Secret, Values

(* What a change makes of a secret.                                        *)
LEMMA WithKeyValuesFacts ==
  ASSUME NEW c \in Secret, NEW keys \in SUBSET Keys, NEW r \in Requests, NEW n \in Nat
  PROVE  LET d == WithKeyValues(c, keys, r, n) IN
         /\ d \in Secret /\ d.exists = c.exists /\ d.version = c.version
         /\ d.data = [k \in Keys |-> IF k \in keys THEN r ELSE c.data[k]]
         /\ d.updated = [k \in MetadataKeys |-> IF k \in keys THEN n ELSE c.updated[k]]
  <1> DEFINE data == [k \in Keys |-> IF k \in keys THEN r ELSE c.data[k]]
             updated == [k \in MetadataKeys |-> IF k \in keys THEN n ELSE c.updated[k]]
  <1>1. c.data \in [Keys -> Values] /\ c.updated \in [MetadataKeys -> Nat]
    BY SecretType
  <1>2. data \in [Keys -> Values] /\ updated \in [MetadataKeys -> Nat]
    BY <1>1 DEF Values
  <1>3. WithKeyValues(c, keys, r, n) = [c EXCEPT !.data = data, !.updated = updated]
    BY DEF WithKeyValues, PatchSecretMetadata
  <1> HIDE DEF data, updated
  <1>4. LET d == [c EXCEPT !.data = data, !.updated = updated] IN
          /\ d \in Secret /\ d.exists = c.exists /\ d.version = c.version
          /\ d.data = data /\ d.updated = updated
    BY <1>2 DEF Secret
  <1> QED
    BY <1>3, <1>4 DEF data, updated
-----------------------------------------------------------------------------
(* Contents that are sound stay so                                         *)

(* What is sound stays so as requests go on and time passes.               *)
LEMMA SoundLater ==
  ASSUME NEW c \in Secret, NEW q \in [Requests -> Request], NEW p \in [Requests -> Request],
         NEW t \in Nat, NEW u \in Nat, Sound(c, q, t), Later(q, p), t <= u
  PROVE  Sound(c, p, u)
  <1>1. Dated(c, p)
    BY DEF Sound, Dated, Later
  <1>2. Ordered(c, p)
    <2> SUFFICES ASSUME NEW r \in Requests, NEW x \in Requests,
                        NEW k \in p[r].change.keys, NEW l \in p[r].change.keys,
                        c.data[k] = r, c.data[l] = x
                 PROVE  p[x].stamp >= p[r].stamp
      BY DEF Ordered
    <2>1. k \in Keys /\ l \in Keys
      BY RequestType
    <2>2. Served(q[r]) /\ Served(q[x])
      BY <2>1 DEF Sound, Dated
    <2>3. p[r].stamp = q[r].stamp /\ p[x].stamp = q[x].stamp /\ p[r].change = q[r].change
      BY <2>2 DEF Later
    <2> QED
      BY <2>3 DEF Sound, Ordered
  <1>3. Past(c, u)
    <2>1. \A k \in MetadataKeys : c.updated[k] \in Nat
      BY SecretType
    <2> QED
      BY <2>1 DEF Sound, Past
  <1> QED
    BY <1>1, <1>2, <1>3 DEF Sound

(* The operator takes values away and never writes one of a client.        *)
LEMMA SoundDropped ==
  ASSUME NEW c \in Secret, NEW d \in Secret, NEW q \in [Requests -> Request], NEW t \in Nat,
         Sound(c, q, t), d.updated = c.updated,
         \A k \in Keys : d.data[k] = c.data[k] \/ d.data[k] \notin Requests
  PROVE  Sound(d, q, t)
  <1>1. Dated(d, q)
    BY DEF Sound, Dated
  <1>2. Ordered(d, q)
    <2>1. \A r \in Requests : q[r].change.keys \subseteq Keys
      BY RequestType
    <2> QED
      BY <2>1 DEF Sound, Ordered
  <1>3. Past(d, t)
    BY DEF Sound, Past
  <1> QED
    BY <1>1, <1>2, <1>3 DEF Sound

(* A secret no request has written is sound.                               *)
LEMMA SoundEmpty ==
  ASSUME NEW d \in Secret, NEW q \in [Requests -> Request], NEW t \in Nat,
         \A k \in Keys : d.data[k] \notin Requests, \A k \in MetadataKeys : d.updated[k] = 0
  PROVE  Sound(d, q, t)
  <1>1. \A r \in Requests : q[r].change.keys \subseteq Keys
    BY RequestType
  <1> QED
    BY <1>1 DEF Sound, Dated, Ordered, Past

(* A request that reads now lays values over the contents that nobody has  *)
(* yet, with a time later than all there are.                              *)
LEMMA SoundStamped ==
  ASSUME NEW c \in Secret, NEW q \in [Requests -> Request], NEW p \in [Requests -> Request],
         NEW t \in Nat, NEW r \in Requests, NEW d \in Secret,
         Sound(c, q, t), Later(q, p), ~Served(q[r]), Served(p[r]), p[r].stamp = t + 1,
         \A x \in Requests : q[x].stamp <= t,
         d.data = [k \in Keys |-> IF k \in p[r].change.keys THEN r ELSE c.data[k]],
         d.updated = [k \in MetadataKeys |-> IF k \in p[r].change.keys THEN t + 1 ELSE c.updated[k]]
  PROVE  Sound(d, p, t + 1)
  <1>1. Keys \subseteq MetadataKeys
    BY DEF MetadataKeys
  <1>2. \A x \in Requests : p[x].change.keys \subseteq Keys /\ p[x].stamp \in Nat /\ q[x].stamp \in Nat
    BY RequestType
  <1>3. \A k \in Keys : c.data[k] # r
    BY DEF Sound, Dated
  <1>4. \A k \in Keys : d.data[k] = IF k \in p[r].change.keys THEN r ELSE c.data[k]
    OBVIOUS
  <1>5. \A k \in Keys : d.updated[k] = IF k \in p[r].change.keys THEN t + 1 ELSE c.updated[k]
    BY <1>1
  <1>6. \A x \in Requests, k \in Keys : x # r /\ d.data[k] = x =>
          c.data[k] = x /\ k \notin p[r].change.keys /\ Served(q[x]) /\ Served(p[x])
          /\ p[x].stamp = q[x].stamp
    BY <1>4 DEF Sound, Dated, Later
  <1>7. \A k \in Keys : d.data[k] = r => k \in p[r].change.keys
    BY <1>3, <1>4
  <1>8. Dated(d, p)
    <2> SUFFICES ASSUME NEW k \in Keys, NEW x \in Requests, d.data[k] = x
                 PROVE  d.updated[k] = p[x].stamp /\ Served(p[x])
      BY DEF Dated
    <2>1. CASE x = r
      BY <2>1, <1>5, <1>7
    <2>2. CASE x # r
      BY <2>2, <1>5, <1>6 DEF Sound, Dated
    <2> QED
      BY <2>1, <2>2
  <1>9. Ordered(d, p)
    <2> SUFFICES ASSUME NEW y \in Requests, NEW x \in Requests,
                        NEW k \in p[y].change.keys, NEW l \in p[y].change.keys,
                        d.data[k] = y, d.data[l] = x
                 PROVE  p[x].stamp >= p[y].stamp
      BY DEF Ordered
    <2>1. k \in Keys /\ l \in Keys
      BY <1>2
    <2>2. CASE y = r
      <3>1. l \in p[r].change.keys
        BY <2>2
      <3>2. x = r
        BY <2>1, <3>1, <1>4
      <3> QED
        BY <2>2, <3>2, <1>2
    <2>3. CASE y # r /\ x = r
      <3>1. p[y].stamp = q[y].stamp /\ q[y].stamp <= t
        BY <2>1, <2>3, <1>6
      <3> QED
        BY <2>3, <3>1, <1>2
    <2>4. CASE y # r /\ x # r
      <3>1. c.data[k] = y /\ c.data[l] = x /\ p[y].stamp = q[y].stamp /\ p[x].stamp = q[x].stamp
        BY <2>1, <2>4, <1>6
      <3>2. p[y].change = q[y].change
        BY DEF Later
      <3> QED
        BY <3>1, <3>2 DEF Sound, Ordered
    <2> QED
      BY <2>2, <2>3, <2>4
  <1>10. Past(d, t + 1)
    <2> SUFFICES ASSUME NEW k \in MetadataKeys PROVE d.updated[k] <= t + 1
      BY DEF Past
    <2>1. c.updated[k] \in Nat /\ c.updated[k] <= t
      BY SecretType DEF Sound, Past
    <2> QED
      BY <2>1
  <1> QED
    BY <1>8, <1>9, <1>10 DEF Sound
-----------------------------------------------------------------------------
(* The invariant                                                           *)

\* a secret is left alone, or written anew with a version nobody has read
KeptOrWritten(s) ==
  \/ secrets'[s] = secrets[s]
  \/ /\ secrets'[s].version = revision + 1 /\ revision' = revision + 1
     /\ Sound(secrets'[s], req', clock')

(* What is left to show of each action.                                    *)
LEMMA InvariantKept ==
  ASSUME IInv, TypeOK', Later(req, req'), clock <= clock', revision <= revision',
         \A s \in Secrets : KeptOrWritten(s),
         \A r \in Requests :
           /\ req'[r].stamp <= clock'
           /\ req'[r].pc = "update" => req'[r] = req[r] \/ CopyInv(r)'
  PROVE  IInv'
  <1>1. /\ req \in [Requests -> Request] /\ req' \in [Requests -> Request]
        /\ secrets \in [Secrets -> Secret] /\ secrets' \in [Secrets -> Secret]
        /\ clock \in Nat /\ clock' \in Nat /\ revision \in Nat /\ revision' \in Nat
    BY DEF IInv, TypeOK
  <1>2. ASSUME NEW s \in Secrets PROVE SecretInv(s)'
    <2>1. secrets[s] \in Secret /\ secrets[s].version \in Nat
      BY <1>1, SecretType
    <2>2. secrets[s].version <= revision /\ Sound(secrets[s], req, clock)
      BY DEF IInv, SecretInv
    <2>3. CASE secrets'[s] = secrets[s]
      <3>1. Sound(secrets[s], req', clock')
        BY <1>1, <2>1, <2>2, SoundLater
      <3> QED
        BY <1>1, <2>1, <2>2, <2>3, <3>1 DEF SecretInv
    <2>4. CASE secrets'[s] # secrets[s]
      BY <1>1, <2>4 DEF KeptOrWritten, SecretInv
    <2> QED
      BY <2>3, <2>4
  <1>3. ASSUME NEW r \in Requests, req'[r].pc = "update", req'[r] = req[r] PROVE CopyInv(r)'
    <2> DEFINE q == req[r]
               s == q.change.secret
    <2>1. q.copy \in Secret /\ q.copy.version \in Nat /\ s \in Secrets
      BY <1>1, RequestType, SecretType
    <2>2. /\ q.copy.version <= revision /\ Sound(q.copy, req, clock)
          /\ UnchangedSince(s, q.copy) =>
               IsOverlay(q.copy, secrets[s], r, q.change.keys, q.stamp)
      BY <1>3 DEF IInv, RequestInv, CopyInv
    <2>3. q.copy.version <= revision' /\ Sound(q.copy, req', clock')
      BY <1>1, <2>1, <2>2, SoundLater
    <2>4. ASSUME secrets'[s].exists, secrets'[s].version = q.copy.version
          PROVE  IsOverlay(q.copy, secrets'[s], r, q.change.keys, q.stamp)
      <3>1. secrets'[s] = secrets[s]
        BY <1>1, <2>1, <2>2, <2>4 DEF KeptOrWritten
      <3> QED
        BY <2>2, <2>4, <3>1 DEF UnchangedSince
    <2> QED
      BY <1>3, <2>3, <2>4 DEF CopyInv, UnchangedSince
  <1>4. ASSUME NEW r \in Requests PROVE RequestInv(r)'
    BY <1>3 DEF RequestInv
  <1> QED
    BY <1>2, <1>4 DEF IInv

(* A step that changes nothing of a request but its pc, and no secret.     *)
LEMMA OnlyPc ==
  ASSUME IInv, NEW r \in Requests, NEW pc \in {"read", "ok", "error"},
         req' = [req EXCEPT ![r].pc = pc], Served(req[r]) => pc # "read",
         UNCHANGED <<secrets, revision, clock>>, configured' \subseteq Secrets
  PROVE  IInv'
  <1>1. req \in [Requests -> Request] /\ req[r] \in Request /\ clock \in Nat /\ revision \in Nat
    BY DEF IInv, TypeOK
  <1>2. [req[r] EXCEPT !.pc = pc] \in Request
    BY <1>1 DEF Request
  <1>3. req' \in [Requests -> Request] /\ req'[r] = [req[r] EXCEPT !.pc = pc]
        /\ \A x \in Requests \ {r} : req'[x] = req[x]
    BY <1>1, <1>2
  <1>4. req'[r].pc = pc /\ req'[r].change = req[r].change /\ req'[r].stamp = req[r].stamp
    BY <1>1, <1>3 DEF Request
  <1>5. TypeOK'
    BY <1>3 DEF IInv, TypeOK
  <1>6. Later(req, req')
    BY <1>3, <1>4 DEF Later, Served
  <1>7. \A s \in Secrets : KeptOrWritten(s)
    BY DEF KeptOrWritten
  <1>8. \A x \in Requests : req'[x].stamp <= clock' /\ (req'[x].pc = "update" => req'[x] = req[x])
    BY <1>3, <1>4 DEF IInv, RequestInv
  <1> QED
    BY <1>1, <1>5, <1>6, <1>7, <1>8, InvariantKept

(* The operator writes contents that are sound.                            *)
LEMMA OperatorKeeps ==
  ASSUME IInv, NEW s \in Secrets, NEW c \in Secret, Sound(c, req, clock), OperatorWrites(s, c)
  PROVE  IInv'
  <1>1. /\ req \in [Requests -> Request] /\ secrets \in [Secrets -> Secret]
        /\ clock \in Nat /\ revision \in Nat
    BY DEF IInv, TypeOK
  <1> DEFINE d == [c EXCEPT !.version = revision + 1]
  <1>2. d \in Secret /\ d.version = revision + 1 /\ d.data = c.data /\ d.updated = c.updated
    BY <1>1 DEF Secret
  <1>3. Sound(d, req, clock)
    BY <1>1, <1>2, SoundDropped
  <1>4. /\ secrets' = [secrets EXCEPT ![s] = d] /\ revision' = revision + 1
        /\ UNCHANGED <<configured, clock, req>>
    BY DEF OperatorWrites
  <1> HIDE DEF d
  <1>5. TypeOK'
    BY <1>1, <1>2, <1>4 DEF IInv, TypeOK
  <1>6. Later(req, req')
    BY <1>4 DEF Later
  <1>7. \A x \in Secrets : KeptOrWritten(x)
    BY <1>1, <1>2, <1>3, <1>4 DEF KeptOrWritten
  <1>8. \A x \in Requests : req'[x].stamp <= clock' /\ (req'[x].pc = "update" => req'[x] = req[x])
    BY <1>4 DEF IInv, RequestInv
  <1> QED
    BY <1>1, <1>4, <1>5, <1>6, <1>7, <1>8, InvariantKept

(* The invariant is kept when a secret is read and the change laid over    *)
(* it.                                                                     *)
LEMMA ReadKeeps ==
  ASSUME IInv, NEW r \in Requests, ReadSecret(r)
  PROVE  IInv'
  <1> DEFINE s == req[r].change.secret
             keys == req[r].change.keys
             c == secrets[s]
             d == WithKeyValues(c, keys, r, clock + 1)
  <1>1. /\ req \in [Requests -> Request] /\ secrets \in [Secrets -> Secret]
        /\ clock \in Nat /\ revision \in Nat /\ req[r].pc = "read"
    BY DEF IInv, TypeOK, ReadSecret
  <1>2. /\ req[r] \in Request /\ s \in Secrets /\ keys \in SUBSET Keys /\ c \in Secret
        /\ c.version \in Nat
    BY <1>1, RequestType, SecretType
  <1>3. CASE req' = [req EXCEPT ![r].pc = "error"] /\ UNCHANGED clock
    BY <1>3, OnlyPc DEF ReadSecret, IInv, TypeOK
  <1>4. CASE /\ c.exists /\ clock' = clock + 1
             /\ req' = [req EXCEPT ![r] =
                  [req[r] EXCEPT !.pc = "update", !.stamp = clock + 1, !.copy = d]]
    <2>1. /\ d \in Secret /\ d.exists = c.exists /\ d.version = c.version
          /\ d.data = [k \in Keys |-> IF k \in keys THEN r ELSE c.data[k]]
          /\ d.updated = [k \in MetadataKeys |-> IF k \in keys THEN clock + 1 ELSE c.updated[k]]
      BY <1>1, <1>2, WithKeyValuesFacts
    <2>2. UNCHANGED <<secrets, configured, revision>>
      BY DEF ReadSecret
    <2> HIDE DEF d
    <2>3. LET p == [req[r] EXCEPT !.pc = "update", !.stamp = clock + 1, !.copy = d] IN
            /\ p \in Request /\ p.pc = "update" /\ p.stamp = clock + 1 /\ p.copy = d
            /\ p.change = req[r].change
      <3> DEFINE q == req[r]
                 n == clock + 1
      <3>1. q \in Request /\ d \in Secret /\ n \in Nat
        BY <1>1, <1>2, <2>1
      <3> HIDE DEF q, n
      <3>2. LET p == [q EXCEPT !.pc = "update", !.stamp = n, !.copy = d] IN
              /\ p \in Request /\ p.pc = "update" /\ p.stamp = n /\ p.copy = d
              /\ p.change = q.change
        BY <3>1 DEF Request
      <3> QED
        BY <3>2 DEF q, n
    <2>4. /\ req' \in [Requests -> Request] /\ \A x \in Requests \ {r} : req'[x] = req[x]
          /\ req'[r].pc = "update" /\ req'[r].stamp = clock + 1 /\ req'[r].copy = d
          /\ req'[r].change = req[r].change
      BY <1>1, <1>4, <2>3
    <2>5. TypeOK'
      BY <1>1, <1>4, <2>2, <2>4 DEF IInv, TypeOK
    <2>6. ~Served(req[r]) /\ Served(req'[r])
      BY <1>1, <2>4 DEF Served
    <2>7. Later(req, req')
      BY <2>4, <2>6 DEF Later
    <2>8. \A x \in Requests : req[x].stamp <= clock /\ req[x].stamp \in Nat
      BY <1>1, RequestType DEF IInv, RequestInv
    <2>9. Sound(c, req, clock) /\ c.version <= revision
      BY <1>2 DEF IInv, SecretInv
    <2>10. Sound(d, req', clock')
      <3> DEFINE changed == req'[r].change.keys
      <3>1. keys = changed
        BY <2>4
      <3>2. d.data = [k \in Keys |-> IF k \in changed THEN r ELSE c.data[k]]
        BY <2>1, <3>1
      <3>3. d.updated = [k \in MetadataKeys |-> IF k \in changed THEN clock + 1 ELSE c.updated[k]]
        BY <2>1, <3>1
      <3> HIDE DEF c
      <3>4. Sound(d, req', clock + 1)
        BY <1>1, <1>2, <2>1, <2>4, <2>6, <2>7, <2>8, <2>9, <3>2, <3>3, SoundStamped
      <3> QED
        BY <1>4, <3>4
    <2>11. Past(c, clock + 1)
      <3>1. \A k \in MetadataKeys : c.updated[k] \in Nat
        BY <1>2, SecretType
      <3> QED
        BY <1>1, <2>9, <3>1 DEF Sound, Past
    <2>12. IsOverlay(d, c, r, keys, clock + 1)
      BY <1>4, <2>1, <2>11 DEF IsOverlay
    <2>13. CopyInv(r)'
      BY <2>1, <2>2, <2>4, <2>9, <2>10, <2>12 DEF CopyInv
    <2>14. \A x \in Requests :
             /\ req'[x].stamp <= clock'
             /\ req'[x].pc = "update" => req'[x] = req[x] \/ CopyInv(x)'
      BY <1>1, <1>4, <2>4, <2>8, <2>13
    <2>15. \A x \in Secrets : KeptOrWritten(x)
      BY <2>2 DEF KeptOrWritten
    <2> QED
      BY <1>1, <1>4, <2>2, <2>5, <2>7, <2>14, <2>15, InvariantKept
  <1> QED
    BY <1>3, <1>4 DEF ReadSecret

(* The invariant is kept when a secret is written, by the resourceVersion  *)
(* it was read with.                                                       *)
LEMMA UpdateKeeps ==
  ASSUME IInv, NEW r \in Requests, UpdateSecret(r)
  PROVE  IInv'
  <1> DEFINE s == req[r].change.secret
             c == req[r].copy
             d == [c EXCEPT !.version = revision + 1]
  <1>1. /\ req \in [Requests -> Request] /\ secrets \in [Secrets -> Secret]
        /\ clock \in Nat /\ revision \in Nat /\ req[r].pc = "update"
    BY DEF IInv, TypeOK, UpdateSecret
  <1>2. req[r] \in Request /\ s \in Secrets /\ c \in Secret
    BY <1>1, RequestType
  <1>3. CASE req' = [req EXCEPT ![r].pc = "error"] /\ UNCHANGED <<secrets, revision>>
    BY <1>1, <1>3, OnlyPc DEF UpdateSecret, IInv, TypeOK
  <1>4. CASE /\ secrets' = [secrets EXCEPT ![s] = d] /\ revision' = revision + 1
             /\ \E pc \in {"ok", "error"} : req' = [req EXCEPT ![r].pc = pc]
    <2>1. d \in Secret /\ d.version = revision + 1 /\ d.data = c.data /\ d.updated = c.updated
      BY <1>1, <1>2 DEF Secret
    <2> HIDE DEF d
    <2>2. PICK pc \in {"ok", "error"} : req' = [req EXCEPT ![r].pc = pc]
      BY <1>4
    <2>3. LET p == [req[r] EXCEPT !.pc = pc] IN
            /\ p \in Request /\ p.pc = pc /\ p.stamp = req[r].stamp /\ p.change = req[r].change
      BY <1>2 DEF Request
    <2>4. /\ req' \in [Requests -> Request] /\ \A x \in Requests \ {r} : req'[x] = req[x]
          /\ req'[r].pc = pc /\ req'[r].stamp = req[r].stamp /\ req'[r].change = req[r].change
      BY <1>1, <2>2, <2>3
    <2>5. UNCHANGED <<configured, clock>>
      BY DEF UpdateSecret
    <2>6. TypeOK'
      <3>1. secrets' \in [Secrets -> Secret]
        BY <1>1, <1>4, <2>1
      <3> QED
        BY <1>1, <1>4, <2>4, <2>5, <3>1 DEF IInv, TypeOK
    <2>7. Later(req, req')
      BY <2>4 DEF Later, Served
    <2>8. Sound(c, req, clock)
      BY <1>1 DEF IInv, RequestInv, CopyInv
    <2>9. Sound(d, req, clock)
      BY <1>1, <1>2, <2>1, <2>8, SoundDropped
    <2>10. Sound(d, req', clock')
      BY <1>1, <2>1, <2>4, <2>5, <2>7, <2>9, SoundLater
    <2>11. \A x \in Secrets : KeptOrWritten(x)
      BY <1>1, <1>4, <2>1, <2>10 DEF KeptOrWritten
    <2>12. \A x \in Requests : req'[x].stamp <= clock' /\ (req'[x].pc = "update" => req'[x] = req[x])
      BY <2>4, <2>5 DEF IInv, RequestInv
    <2> QED
      BY <1>1, <1>4, <2>5, <2>6, <2>7, <2>11, <2>12, InvariantKept
  <1> QED
    BY <1>3, <1>4 DEF UpdateSecret

\* what the operator writes: no client's value, and a time only as it was
OperatorContents(s, c) ==
  /\ OperatorWrites(s, c)
  /\ Sound(c, req, clock)
  /\ \A k \in Keys : c.data[k] \in {secrets[s].data[k], Absent, Default}
  /\ secrets[s].exists /\ c.exists => c.updated = secrets[s].updated

(* What the operator writes is sound.                                      *)
LEMMA OperatorSteps ==
  ASSUME IInv, NEW s \in Secrets,
         CreateSecret(s) \/ DefaultKeys(s) \/ DeleteSecret(s) \/ \E k \in Keys : DropKey(s, k)
  PROVE  \E c \in Secret : OperatorContents(s, c)
  <1> DEFINE c == secrets[s]
  <1>1. /\ req \in [Requests -> Request] /\ c \in Secret /\ clock \in Nat /\ revision \in Nat
        /\ Sound(c, req, clock) /\ c.data \in [Keys -> Values]
    BY SecretType DEF IInv, TypeOK, SecretInv
  <1>2. CASE CreateSecret(s)
    <2>1. PICK v \in {Absent, Default} :
            OperatorWrites(s, [Blank(revision + 1) EXCEPT !.data = [k \in Keys |-> v]])
      BY <1>2 DEF CreateSecret
    <2> DEFINE b == Blank(revision + 1)
               data == [k \in Keys |-> v]
               d == [b EXCEPT !.data = data]
    <2>2. data \in [Keys -> Values] /\ b \in Secret
      BY <1>1, BlankFacts DEF Values
    <2> HIDE DEF b, data
    <2>3. d \in Secret /\ d.data = data /\ d.updated = b.updated
      BY <2>2 DEF Secret
    <2> HIDE DEF d
    <2>4. Sound(d, req, clock)
      BY <1>1, <2>3, BlankFacts, SoundEmpty DEF b, data
    <2>5. OperatorWrites(s, d)
      BY <2>1 DEF d, b, data
    <2>6. \A k \in Keys : d.data[k] \in {c.data[k], Absent, Default}
      BY <2>3 DEF data
    <2>7. ~c.exists
      BY <1>2 DEF CreateSecret
    <2> QED
      BY <2>3, <2>4, <2>5, <2>6, <2>7 DEF OperatorContents
  <1>3. CASE DefaultKeys(s)
    <2> DEFINE data == [k \in Keys |-> IF c.data[k] = Absent THEN Default ELSE c.data[k]]
               d == [c EXCEPT !.data = data]
    <2>1. data \in [Keys -> Values]
      BY <1>1 DEF Values
    <2>2. OperatorWrites(s, d)
      BY <1>3 DEF DefaultKeys
    <2> HIDE DEF data
    <2>3. d \in Secret /\ d.updated = c.updated /\ d.data = data
      BY <1>1, <2>1 DEF Secret
    <2> HIDE DEF d
    <2>4. \A k \in Keys : d.data[k] \in {c.data[k], Default} /\ Default \notin Requests
      BY <2>3 DEF data
    <2>5. Sound(d, req, clock)
      BY <1>1, <2>3, <2>4, SoundDropped
    <2> QED
      BY <2>2, <2>3, <2>4, <2>5 DEF OperatorContents
  <1>4. CASE DeleteSecret(s)
    <2> DEFINE b == Blank(0)
               d == [b EXCEPT !.version = revision + 1]
    <2>1. d \in Secret /\ d.data = b.data /\ d.updated = b.updated /\ d.exists = b.exists
      <3>1. b \in Secret
        BY BlankFacts
      <3> HIDE DEF b
      <3> QED
        BY <1>1, <3>1 DEF Secret
    <2> HIDE DEF d
    <2>2. ~d.exists /\ \A k \in Keys : d.data[k] = Absent
      BY <2>1 DEF b, Blank
    <2>3. Sound(d, req, clock)
      BY <1>1, <2>1, BlankFacts, SoundEmpty DEF b
    <2>4. OperatorWrites(s, d)
      BY <1>4 DEF d, b, DeleteSecret
    <2> QED
      BY <2>1, <2>2, <2>3, <2>4 DEF OperatorContents
  <1>5. CASE \E k \in Keys : DropKey(s, k)
    <2>1. PICK k \in Keys : DropKey(s, k)
      BY <1>5
    <2> DEFINE data == [c.data EXCEPT ![k] = Absent]
               d == [c EXCEPT !.data = data]
    <2>2. data \in [Keys -> Values]
      BY <1>1 DEF Values
    <2>3. OperatorWrites(s, d)
      BY <2>1 DEF DropKey
    <2> HIDE DEF data
    <2>4. d \in Secret /\ d.updated = c.updated /\ d.data = data
      BY <1>1, <2>2 DEF Secret
    <2> HIDE DEF d
    <2>5. \A l \in Keys : d.data[l] \in {c.data[l], Absent} /\ Absent \notin Requests
      BY <1>1, <2>4 DEF data
    <2>6. Sound(d, req, clock)
      BY <1>1, <2>4, <2>5, SoundDropped
    <2> QED
      BY <2>3, <2>4, <2>5, <2>6 DEF OperatorContents
  <1> QED
    BY <1>2, <1>3, <1>4, <1>5

(* Every step keeps the invariant.                                         *)
LEMMA StepKeeps ==
  ASSUME IInv, [Next]_vars
  PROVE  IInv'
  <1>1. /\ req \in [Requests -> Request] /\ clock \in Nat /\ revision \in Nat
        /\ configured \subseteq Secrets
    BY DEF IInv, TypeOK
  <1>2. ASSUME NEW r \in Requests, Accept(r) \/ ChangePrivateImageHubSecret(r) PROVE IInv'
    BY <1>1, <1>2, OnlyPc DEF Accept, ChangePrivateImageHubSecret, Served
  <1>3. ASSUME NEW r \in Requests, CallFails(r) PROVE IInv'
    BY <1>1, <1>3, OnlyPc DEF CallFails
  <1>4. CASE Deploy \/ UNCHANGED vars
    <2>1. UNCHANGED <<secrets, revision, clock, req>> /\ configured' \subseteq Secrets
      BY <1>1, <1>4 DEF Deploy, vars
    <2>2. TypeOK' /\ Later(req, req') /\ \A s \in Secrets : KeptOrWritten(s)
      BY <2>1 DEF IInv, TypeOK, Later, KeptOrWritten
    <2>3. \A r \in Requests : req'[r].stamp <= clock' /\ req'[r] = req[r]
      BY <2>1 DEF IInv, RequestInv
    <2> QED
      BY <1>1, <2>1, <2>2, <2>3, InvariantKept
  <1>5. ASSUME NEW s \in Secrets, NEW c \in Secret, OperatorContents(s, c) PROVE IInv'
    BY <1>5, OperatorKeeps DEF OperatorContents
  <1> QED
    BY <1>2, <1>3, <1>4, <1>5, ReadKeeps, UpdateKeeps, OperatorSteps DEF Next, RequestStep

(* The invariant holds initially, when there is nothing.                   *)
LEMMA InitialState ==
  ASSUME Init
  PROVE  /\ IInv
         /\ \A r \in Requests : req[r].pc = "idle"
         /\ \A s \in Secrets : secrets[s] = Blank(0)
  <1> DEFINE start(c) == [pc |-> "idle", change |-> c, copy |-> Blank(0), stamp |-> 0]
  <1>1. Blank(0) \in Secret /\ Blank(0).version = 0
    BY BlankFacts
  <1>2. \A c \in Changes : start(c) \in Request /\ start(c).pc = "idle" /\ start(c).stamp = 0
    BY <1>1 DEF Request
  <1>3. req \in [Requests -> {start(c) : c \in Changes}]
    BY DEF Init
  <1> HIDE DEF start
  <1>4. \A r \in Requests : req[r] \in Request /\ req[r].pc = "idle" /\ req[r].stamp = 0
    BY <1>2, <1>3
  <1>5. req \in [Requests -> Request]
    BY <1>3, <1>4
  <1>6. secrets \in [Secrets -> Secret] /\ \A s \in Secrets : secrets[s] = Blank(0)
    BY <1>1 DEF Init
  <1>7. TypeOK
    BY <1>5, <1>6 DEF Init, TypeOK
  <1>8. \A s \in Secrets : SecretInv(s)
    <2>1. Sound(Blank(0), req, 0)
      BY <1>1, <1>5, BlankFacts, SoundEmpty
    <2> QED
      BY <1>1, <1>6, <2>1 DEF Init, SecretInv
  <1>9. \A r \in Requests : RequestInv(r)
    BY <1>4 DEF Init, RequestInv
  <1> QED
    BY <1>4, <1>6, <1>7, <1>8, <1>9 DEF IInv

(* The invariant holds in every state.                                     *)
LEMMA Invariant == Spec => []IInv
  BY InitialState, StepKeeps, PTL DEF Spec
-----------------------------------------------------------------------------
(* The secrets keep their types.                                           *)
THEOREM TypeCorrect == Spec => []TypeOK
  <1>1. IInv => TypeOK
    BY DEF IInv
  <1> QED
    BY <1>1, Invariant, PTL

(* A value is stored with the time of the request that wrote it, whatever  *)
(* other requests and the operator do to its secret.                       *)
THEOREM ValuesAreDated == Spec => []DatedByWriter
  <1>1. IInv => DatedByWriter
    BY DEF IInv, SecretInv, Sound, Dated, DatedByWriter
  <1> QED
    BY <1>1, Invariant, PTL

(* The values of one request, such as a certificate and its private key,   *)
(* are replaced only by those of later requests.                           *)
THEOREM ValuesStayTogether == Spec => []StoredTogether
  <1>1. IInv => StoredTogether
    BY DEF IInv, SecretInv, Sound, Ordered, StoredTogether
  <1> QED
    BY <1>1, Invariant, PTL

(* The time of an accepted change is shown with its value, for every kind  *)
(* of secret whose metadata is looked up under the name it is recorded     *)
(* under: all but those of a key vault and those spelled in another way.   *)
THEOREM AcceptedAreDated ==
  ASSUME KeyVaultKeys = {}, \A k \in Keys : Declared[k] = k
  PROVE  Spec => []AcceptedIsDated
  <1>1. IInv => AcceptedIsDated
    <2> SUFFICES ASSUME IInv, NEW r \in Requests, NEW k \in req[r].change.keys, Current(r, k)
                 PROVE  ShownUpdated(req[r].change.secret, k) = req[r].stamp
      BY DEF AcceptedIsDated
    <2>1. k \in Keys /\ req[r].change.secret \in Secrets
      BY RequestType DEF IInv, TypeOK
    <2>2. secrets[req[r].change.secret].updated[k] = req[r].stamp
      BY <2>1 DEF Current, IInv, SecretInv, Sound, Dated
    <2> QED
      BY <2>1, <2>2 DEF ShownUpdated, MetadataKey
  <1> QED
    BY <1>1, Invariant, PTL
-----------------------------------------------------------------------------
(* What an update writes                                                   *)

(* An update that is not refused writes the secret as it is with the       *)
(* change laid over it: the copy is that of the version that is there.     *)
LEMMA OverlayWritten ==
  ASSUME IInv, NEW r \in Requests, UpdateSecret(r),
         UnchangedSince(req[r].change.secret, req[r].copy)
  PROVE  LET q == req[r]
             s == q.change.secret
         IN  /\ s \in Secrets
             /\ IsOverlay(q.copy, secrets[s], r, q.change.keys, q.stamp)
             /\ secrets'[s].data = q.copy.data /\ secrets'[s].updated = q.copy.updated
             /\ \A x \in Secrets \ {s} : secrets'[x] = secrets[x]
             /\ DOMAIN secrets' = Secrets
             /\ \E pc \in {"ok", "error"} : req' = [req EXCEPT ![r].pc = pc]
  <1> DEFINE s == req[r].change.secret
             c == req[r].copy
             d == [c EXCEPT !.version = revision + 1]
  <1>1. /\ req \in [Requests -> Request] /\ secrets \in [Secrets -> Secret]
        /\ revision \in Nat /\ req[r].pc = "update"
    BY DEF IInv, TypeOK, UpdateSecret
  <1>2. s \in Secrets /\ c \in Secret
    BY <1>1, RequestType
  <1>3. d.data = c.data /\ d.updated = c.updated
    BY <1>2 DEF Secret
  <1> HIDE DEF d
  <1>4. /\ UnchangedSince(s, c) /\ secrets' = [secrets EXCEPT ![s] = d]
        /\ \E pc \in {"ok", "error"} : req' = [req EXCEPT ![r].pc = pc]
    BY DEF UpdateSecret, d
  <1>5. IsOverlay(c, secrets[s], r, req[r].change.keys, req[r].stamp)
    BY <1>1, <1>4 DEF IInv, RequestInv, CopyInv
  <1> QED
    BY <1>1, <1>2, <1>3, <1>4, <1>5

(* While a secret is there, the times of its keys never go back: a stale   *)
(* copy of the annotation is never written.                                *)
THEOREM TimesNeverGoBack == Spec => UpdatedNeverGoesBack
  <1>1. IInv /\ [Next]_vars => [TimesGrow]_vars
    <2> SUFFICES ASSUME IInv, [Next]_vars, NEW s \in Secrets, NEW k \in Keys,
                        secrets[s].exists, secrets'[s].exists
                 PROVE  secrets'[s].updated[k] >= secrets[s].updated[k]
      BY DEF TimesGrow
    <2>1. /\ secrets \in [Secrets -> Secret] /\ k \in MetadataKeys
          /\ secrets[s].updated[k] \in Nat
      BY SecretType DEF IInv, TypeOK, MetadataKeys
    <2>2. CASE secrets'[s] = secrets[s]
      BY <2>1, <2>2
    <2>3. ASSUME NEW r \in Requests, UpdateSecret(r), secrets'[s] # secrets[s]
          PROVE  secrets'[s].updated[k] >= secrets[s].updated[k]
      <3>1. UnchangedSince(req[r].change.secret, req[r].copy)
        BY <2>3 DEF UpdateSecret
      <3>2. IsOverlay(req[r].copy, secrets[s], r, req[r].change.keys, req[r].stamp)
            /\ secrets'[s].updated = req[r].copy.updated
        BY <2>3, <3>1, OverlayWritten
      <3>3. req[r].stamp \in Nat
        BY RequestType DEF IInv, TypeOK
      <3> QED
        BY <2>1, <3>2, <3>3 DEF IsOverlay, Past
    <2>4. ASSUME NEW x \in Secrets, NEW c \in Secret, OperatorContents(x, c)
          PROVE  secrets'[s].updated[k] >= secrets[s].updated[k]
      <3> DEFINE d == [c EXCEPT !.version = revision + 1]
      <3>1. d.updated = c.updated /\ d.exists = c.exists
        BY DEF Secret
      <3> HIDE DEF d
      <3>2. secrets' = [secrets EXCEPT ![x] = d]
        BY <2>4 DEF OperatorContents, OperatorWrites, d
      <3>3. x = s => c.exists /\ secrets'[s].updated = c.updated
        BY <2>1, <3>1, <3>2
      <3>4. secrets'[s].updated = secrets[s].updated
        BY <2>1, <2>4, <3>2, <3>3 DEF OperatorContents
      <3> QED
        BY <2>1, <3>4
    <2>5. \/ secrets' = secrets
          \/ \E r \in Requests : UpdateSecret(r)
          \/ \E x \in Secrets : \E c \in Secret : OperatorContents(x, c)
      BY OperatorSteps DEF Next, RequestStep, Accept, ChangePrivateImageHubSecret, ReadSecret,
           CallFails, Deploy, vars
    <2> QED
      BY <2>2, <2>3, <2>4, <2>5
  <1> QED
    BY <1>1, Invariant, PTL DEF Spec, UpdatedNeverGoesBack
-----------------------------------------------------------------------------
(* The refinement                                                          *)

Unanswered(r) == req[r].pc \notin {"ok", "error"}

(* To the abstract specification, steps that write and answer nothing are  *)
(* none.                                                                   *)
LEMMA StutteringStep ==
  ASSUME TypeOK, UNCHANGED secrets,
         \A r \in Requests :
           /\ req'[r].change = req[r].change
           /\ req'[r].pc = req[r].pc \/ (Unanswered(r) /\ Unanswered(r)')
  PROVE  UNCHANGED Atomic!vars
  <1>1. \A r \in Requests :
          (IF req'[r].pc \in {"ok", "error"} THEN req'[r].pc ELSE "none")
            = (IF req[r].pc \in {"ok", "error"} THEN req[r].pc ELSE "none")
    BY DEF Unanswered
  <1> QED
    BY <1>1 DEF Atomic!vars

(* The requests that stay, and the one that is answered.                   *)
LEMMA PcStep ==
  ASSUME TypeOK, NEW r \in Requests, NEW pc \in {"read", "ok", "error"},
         req' = [req EXCEPT ![r].pc = pc]
  PROVE  /\ \A x \in Requests : req'[x].change = req[x].change
         /\ \A x \in Requests \ {r} : req'[x].pc = req[x].pc
         /\ req'[r].pc = pc
  BY DEF TypeOK, Request

(* An answer of failure is a refusal in the abstract specification.        *)
LEMMA RefusingStep ==
  ASSUME TypeOK, NEW r \in Requests, Unanswered(r), UNCHANGED secrets,
         req' = [req EXCEPT ![r].pc = "error"]
  PROVE  Atomic!Refuse(r)
  <1>1. /\ \A x \in Requests : req'[x].change = req[x].change
        /\ \A x \in Requests \ {r} : req'[x].pc = req[x].pc
        /\ req'[r].pc = "error"
    BY PcStep
  <1> QED
    BY <1>1 DEF Atomic!Refuse, Unanswered

(* An update is the whole change at once in the abstract specification, or *)
(* a refusal.                                                              *)
LEMMA UpdatingStep ==
  ASSUME IInv, NEW r \in Requests, UpdateSecret(r)
  PROVE  Atomic!Apply(r) \/ Atomic!Refuse(r)
  <1>1. TypeOK /\ Unanswered(r)
    BY DEF IInv, UpdateSecret, Unanswered
  <1>2. CASE ~UnchangedSince(req[r].change.secret, req[r].copy)
    BY <1>1, <1>2, RefusingStep DEF UpdateSecret
  <1>3. CASE UnchangedSince(req[r].change.secret, req[r].copy)
    <2> DEFINE s == req[r].change.secret
               keys == req[r].change.keys
    <2>1. /\ s \in Secrets /\ IsOverlay(req[r].copy, secrets[s], r, keys, req[r].stamp)
          /\ secrets'[s].data = req[r].copy.data
          /\ \A x \in Secrets \ {s} : secrets'[x] = secrets[x]
      BY <1>3, OverlayWritten
    <2>2. PICK pc \in {"ok", "error"} : req' = [req EXCEPT ![r].pc = pc]
      BY <1>3, OverlayWritten
    <2>3. /\ \A x \in Requests : req'[x].change = req[x].change
          /\ \A x \in Requests \ {r} : req'[x].pc = req[x].pc
          /\ req'[r].pc = pc
      BY <1>1, <2>2, PcStep
    <2>4. secrets'[s].data = Atomic!Overlay(secrets[s].data, keys, r)
      BY <2>1 DEF IsOverlay, Atomic!Overlay
    <2> QED
      BY <1>1, <2>1, <2>3, <2>4 DEF Atomic!Apply, Unanswered
  <1> QED
    BY <1>2, <1>3

(* What the operator does is what it may do in the abstract specification. *)
LEMMA OperatorStep ==
  ASSUME IInv, NEW s \in Secrets, NEW c \in Secret, OperatorContents(s, c)
  PROVE  Atomic!Operator(s)
  <1> DEFINE d == [c EXCEPT !.version = revision + 1]
  <1>1. d.data = c.data
    BY DEF Secret
  <1> HIDE DEF d
  <1>2. secrets' = [secrets EXCEPT ![s] = d] /\ UNCHANGED req /\ secrets \in [Secrets -> Secret]
    BY DEF IInv, TypeOK, OperatorContents, OperatorWrites, d
  <1>3. \A k \in Keys : c.data[k] \in {secrets[s].data[k], Absent, Default}
    BY DEF OperatorContents
  <1> DEFINE before == [x \in Secrets |-> secrets[x].data]
             after == [x \in Secrets |-> secrets'[x].data]
  <1>4. before[s] = secrets[s].data /\ after = [before EXCEPT ![s] = c.data]
    BY <1>1, <1>2
  <1> HIDE DEF before, after
  <1>5. /\ c.data \in [Keys -> {before[s][k] : k \in Keys} \union {Absent, Default}]
        /\ \A k \in Keys : c.data[k] \in {before[s][k], Absent, Default}
    BY <1>3, <1>4, SecretType
  <1>6. \E data \in [Keys -> {before[s][k] : k \in Keys} \union {Absent, Default}] :
          /\ \A k \in Keys : data[k] \in {before[s][k], Absent, Default}
          /\ after = [before EXCEPT ![s] = data]
    BY <1>4, <1>5
  <1> QED
    BY <1>2, <1>6 DEF Atomic!Operator, before, after

(* A change of a secret takes effect at one instant, on all its keys and   *)
(* on no other, or not at all, and success means that it did: reading,     *)
(* changing and updating the object implements AtomicSecrets.              *)
THEOREM Implementation == Spec => ImplementsAtomicSecrets
  <1>1. Init => Atomic!Init
    <2> SUFFICES ASSUME Init PROVE Atomic!Init
      OBVIOUS
    <2>1. \A s \in Secrets : secrets[s].data = [k \in Keys |-> Absent]
      BY InitialState DEF Blank
    <2>2. \A r \in Requests : req[r].pc = "idle" /\ req[r].change \in Changes
      BY InitialState, RequestType DEF IInv, TypeOK
    <2> QED
      BY <2>1, <2>2 DEF Atomic!Init
  <1>2. IInv /\ [Next]_vars => [Atomic!Next]_(Atomic!vars)
    <2> SUFFICES ASSUME IInv, [Next]_vars PROVE Atomic!Next \/ UNCHANGED Atomic!vars
      OBVIOUS
    <2>1. TypeOK
      BY DEF IInv
    <2>2. ASSUME NEW r \in Requests, Accept(r) \/ ChangePrivateImageHubSecret(r) \/ CallFails(r)
          PROVE  Atomic!Refuse(r) \/ UNCHANGED Atomic!vars
      <3>1. Unanswered(r) /\ UNCHANGED secrets
        BY <2>2 DEF Accept, ChangePrivateImageHubSecret, CallFails, Unanswered
      <3>2. CASE req' = [req EXCEPT ![r].pc = "error"]
        BY <2>1, <3>1, <3>2, RefusingStep
      <3>3. CASE req' = [req EXCEPT ![r].pc = "read"]
        <4>1. /\ \A x \in Requests : req'[x].change = req[x].change
              /\ \A x \in Requests \ {r} : req'[x].pc = req[x].pc
              /\ req'[r].pc = "read"
          BY <2>1, <3>3, PcStep
        <4> QED
          BY <2>1, <3>1, <4>1, StutteringStep DEF Unanswered
      <3> QED
        BY <2>2, <3>2, <3>3 DEF Accept, ChangePrivateImageHubSecret, CallFails
    <2>3. ASSUME NEW r \in Requests, ReadSecret(r)
          PROVE  Atomic!Refuse(r) \/ UNCHANGED Atomic!vars
      <3>1. Unanswered(r) /\ UNCHANGED secrets
        BY <2>3 DEF ReadSecret, Unanswered
      <3>2. CASE req' = [req EXCEPT ![r].pc = "error"]
        BY <2>1, <3>1, <3>2, RefusingStep
      <3>3. CASE req' # [req EXCEPT ![r].pc = "error"]
        <4> DEFINE q == req[r]
        <4>1. PICK n, d : req' = [req EXCEPT ![r] = [q EXCEPT !.pc = "update", !.stamp = n, !.copy = d]]
          BY <2>3, <3>3 DEF ReadSecret
        <4>2. q \in Request
          BY <2>1 DEF TypeOK
        <4> HIDE DEF q
        <4>3. LET p == [q EXCEPT !.pc = "update", !.stamp = n, !.copy = d] IN
                p.pc = "update" /\ p.change = q.change
          BY <4>2 DEF Request
        <4>4. /\ \A x \in Requests \ {r} : req'[x] = req[x]
              /\ req'[r].pc = "update" /\ req'[r].change = req[r].change
          BY <2>1, <4>1, <4>3 DEF TypeOK, q
        <4> QED
          BY <2>1, <3>1, <4>4, StutteringStep DEF Unanswered
      <3> QED
        BY <3>2, <3>3
    <2>4. CASE Deploy \/ UNCHANGED vars
      <3>1. UNCHANGED <<secrets, req>>
        BY <2>4 DEF Deploy, vars
      <3> QED
        BY <2>1, <3>1, StutteringStep
    <2> QED
      BY <2>2, <2>3, <2>4, UpdatingStep, OperatorSteps, OperatorStep
         DEF Next, RequestStep, Atomic!Next
  <1> QED
    BY <1>1, <1>2, Invariant, PTL DEF Spec, ImplementsAtomicSecrets, Atomic!Spec
=============================================================================
