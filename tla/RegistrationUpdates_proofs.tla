----------------------- MODULE RegistrationUpdates_proofs -----------------------
(***************************************************************************)
(* Requests do not undo each other's changes of a RadixRegistration, store *)
(* no warning that nobody acknowledged, and remove what they know to have  *)
(* made to validate access, for any number of requests, of any operation.  *)
(*                                                                         *)
(* What a request has prepared to store is related to what it has read,    *)
(* and nothing that others do to the registration disturbs that: the API   *)
(* server compares the registration with what was read only when it is     *)
(* stored.                                                                 *)
(***************************************************************************)
EXTENDS RegistrationUpdates, TLAPS

Registration == [appID : Value, creator : Value, fields : [Fields -> Value]]
Patch == UNION {[F -> Value] : F \in SUBSET Fields}

Copy == Registration \cup {NoRegistration}

Phases == {"idle", "get", "role", "binding", "access", "unbind", "unrole", "judged", "dryrun", "store", "done"}
Verdicts == {None, "member", "Forbidden", "Error"}
Answers == {None, "OK", "NotFound", "Conflict", "Warnings", "Forbidden", "Error"}

Request ==
  [op : Ops \cup {None}, pc : Phases, patch : Patch \cup {<<>>}, acknowledged : BOOLEAN,
   read : Copy, built : Copy, verdict : Verdicts, tries : Nat, canceled : BOOLEAN,
   adrift : SUBSET {"role", "binding"}, answer : Answers]

TypeOK ==
  /\ registration \in Copy
  /\ roles \subseteq Requests /\ bindings \subseteq Requests
  /\ requests \in [Requests -> Request]

(* The role and the binding exist only while they are needed, unless they  *)
(* are adrift.                                                             *)
Grants(r, q, ro, bi) ==
  /\ q.pc = "idle" => q = Idle
  /\ r \in ro => "role" \in q.adrift \/ q.pc \in {"binding", "access", "unbind", "unrole"}
  /\ r \in bi => "binding" \in q.adrift \/ q.pc \in {"access", "unbind"}

Brought(r, q) ==
  /\ q.op = "Change" => q.patch \in Bodies(r)
  /\ q.op = "Modify" => q.patch \in Patches(r)

(* q has read the registration, where it has to, and built its own.        *)
Working(q) == q.pc \in {"role", "binding", "access", "unbind", "unrole", "judged", "dryrun", "store"}

(* built is read but for what request r may change.                        *)
IsChanged(read, built, may, r) ==
  /\ read \in Registration /\ built \in Registration
  /\ built.appID = read.appID /\ built.creator = read.creator
  /\ \A f \in Fields : built.fields[f] # read.fields[f] => f \in may /\ built.fields[f] \in {r, Empty}

Prepared(r, q) ==
  Working(q) =>
    /\ q.op \in Ops
    /\ q.op = "Register" => q.built \in Registration
    /\ q.op \in {"Change", "Modify", "RegenerateSecret"} => IsChanged(q.read, q.built, MayChange(q), r)
    /\ q.op = "Change" => q.built.fields["adGroups"] = q.patch["adGroups"]

Checked(q) ==
  q.pc = "store" /\ q.op \in {"Register", "Change", "Modify"} /\ Warns(q.built) => q.acknowledged

RequestInv(r, q, ro, bi) == Grants(r, q, ro, bi) /\ Brought(r, q) /\ Prepared(r, q) /\ Checked(q)

IInv == TypeOK /\ \A r \in Requests : RequestInv(r, requests[r], roles, bindings)
-----------------------------------------------------------------------------
(* Types                                                                   *)

(* What requests bring is a patch.                                         *)
LEMMA PatchTypes ==
  ASSUME NEW r \in Requests
  PROVE  Bodies(r) \subseteq Patch /\ Patches(r) \subseteq Patch
  <1>1. r \in Value /\ Empty \in Value
    BY DEF Value
  <1>2. ASSUME NEW F \in SUBSET Fields, NEW p \in [F -> {r, Empty}] PROVE p \in Patch
    <2>1. p \in [F -> Value]
      BY <1>1
    <2> QED
      BY <2>1 DEF Patch
  <1>3. Bodies(r) \subseteq Patch
    BY <1>2 DEF Bodies
  <1>4. PatchesOf[r] \subseteq Fields
    BY PatchesAssumption
  <1> QED
    BY <1>2, <1>3, <1>4 DEF Patches

(* A request that has not come.                                            *)
LEMMA IdleFacts ==
  /\ Idle \in Request /\ Idle.op = None /\ Idle.pc = "idle" /\ Idle.adrift = {}
  BY DEF Idle, Request, None, Phases, Verdicts, Answers, Copy

(* A registration is one.                                                  *)
LEMMA RegistrationExists ==
  ASSUME NEW x \in Registration PROVE x # NoRegistration
  <1>1. DOMAIN x = {"appID", "creator", "fields"} /\ DOMAIN NoRegistration = {"appID"}
    BY DEF Registration, NoRegistration
  <1> QED
    BY <1>1

(* What each operation builds from what it has read.                       *)
LEMMA Building ==
  ASSUME NEW c \in Registration, NEW fields \in [Fields -> Value], NEW may, NEW r,
         \A f \in Fields : fields[f] # c.fields[f] => f \in may /\ fields[f] \in {r, Empty}
  PROVE  LET b == [c EXCEPT !.fields = fields] IN
         b.fields = fields /\ IsChanged(c, b, may, r)
  BY DEF Registration, IsChanged

(* ChangeRegistrationDetails changes the fields of its body only.          *)
LEMMA ChangedFacts ==
  ASSUME NEW c \in Registration, NEW r \in Requests, NEW patch \in Bodies(r)
  PROVE  LET b == Changed(c, patch) IN
         /\ IsChanged(c, b, {"sharedSecret", "adGroups", "owner"}, r)
         /\ b.fields["adGroups"] = patch["adGroups"]
  <1> DEFINE fields == [f \in Fields |->
               IF f \in {"sharedSecret", "adGroups", "owner"} THEN patch[f] ELSE c.fields[f]]
  <1>1. patch \in [Fields -> {r, Empty}] /\ c.fields \in [Fields -> Value] /\ {r, Empty} \subseteq Value
    BY DEF Bodies, Registration, Value
  <1>2. fields \in [Fields -> Value]
    BY <1>1
  <1>3. \A f \in Fields : fields[f] # c.fields[f] =>
          f \in {"sharedSecret", "adGroups", "owner"} /\ fields[f] \in {r, Empty}
    BY <1>1
  <1>4. fields["adGroups"] = patch["adGroups"]
    BY DEF Fields
  <1>5. Changed(c, patch) = [c EXCEPT !.fields = fields]
    BY DEF Changed
  <1> HIDE DEF fields
  <1> QED
    BY <1>2, <1>3, <1>4, <1>5, Building

(* ModifyRegistrationDetails changes the fields that are set in its patch  *)
(* only.                                                                   *)
LEMMA ModifiedFacts ==
  ASSUME NEW c \in Registration, NEW r \in Requests, NEW patch \in Patches(r)
  PROVE  IsChanged(c, Modified(c, patch), DOMAIN patch, r)
  <1> DEFINE fields == [f \in Fields |->
               IF f \in ModifiedFields(c, patch) THEN patch[f] ELSE c.fields[f]]
  <1>1. \A f \in DOMAIN patch : patch[f] \in {r, Empty}
    BY DEF Patches
  <1>2. c.fields \in [Fields -> Value] /\ {r, Empty} \subseteq Value
    BY DEF Registration, Value
  <1>3. ModifiedFields(c, patch) \subseteq DOMAIN patch
    BY DEF ModifiedFields
  <1>4. fields \in [Fields -> Value]
    BY <1>1, <1>2, <1>3
  <1>5. \A f \in Fields : fields[f] # c.fields[f] => f \in DOMAIN patch /\ fields[f] \in {r, Empty}
    BY <1>1, <1>3
  <1>6. Modified(c, patch) = [c EXCEPT !.fields = fields]
    BY DEF Modified
  <1> HIDE DEF fields
  <1> QED
    BY <1>4, <1>5, <1>6, Building

(* Regenerating the shared secret changes nothing else.                    *)
LEMMA WithSecretFacts ==
  ASSUME NEW c \in Registration, NEW r \in Requests
  PROVE  IsChanged(c, WithSecret(c, r), {"sharedSecret"}, r)
  <1> DEFINE fields == [c.fields EXCEPT !["sharedSecret"] = r]
  <1>1. c.fields \in [Fields -> Value] /\ r \in Value /\ "sharedSecret" \in Fields
    BY DEF Registration, Value, Fields
  <1>2. /\ fields \in [Fields -> Value]
        /\ \A f \in Fields : fields[f] # c.fields[f] => f = "sharedSecret" /\ fields[f] = r
    BY <1>1
  <1>3. WithSecret(c, r) = [c EXCEPT !.fields = fields]
    BY DEF WithSecret
  <1> HIDE DEF fields
  <1> QED
    BY <1>2, <1>3, Building
-----------------------------------------------------------------------------
(* The invariant                                                           *)

(* What is left to show of a step of request r, which makes p of it.       *)
LEMMA InvariantKept ==
  ASSUME IInv, NEW r \in Requests, NEW p \in Request, Set(r, p),
         registration' \in Copy,
         roles' \in {roles, roles \cup {r}, roles \ {r}},
         bindings' \in {bindings, bindings \cup {r}, bindings \ {r}},
         RequestInv(r, p, roles', bindings')
  PROVE  IInv'
  <1>1. requests \in [Requests -> Request] /\ requests' = [requests EXCEPT ![r] = p]
    BY DEF IInv, TypeOK, Set
  <1>2. TypeOK'
    BY <1>1 DEF IInv, TypeOK
  <1>3. ASSUME NEW x \in Requests PROVE RequestInv(x, requests'[x], roles', bindings')
    <2>1. CASE x = r
      BY <1>1, <2>1
    <2>2. CASE x # r
      <3>1. requests'[x] = requests[x] /\ (x \in roles' => x \in roles) /\ (x \in bindings' => x \in bindings)
        BY <1>1, <2>2
      <3>2. RequestInv(x, requests[x], roles, bindings)
        BY DEF IInv
      <3> QED
        BY <3>1, <3>2 DEF RequestInv, Grants
    <2> QED
      BY <2>1, <2>2
  <1> QED
    BY <1>2, <1>3 DEF IInv

(* A request that goes on with what it brought and has prepared.           *)
LEMMA GoingOn ==
  ASSUME IInv, NEW r \in Requests, NEW p \in Request, Set(r, p),
         p.op = requests[r].op, p.patch = requests[r].patch, p.acknowledged = requests[r].acknowledged,
         p.read = requests[r].read, p.built = requests[r].built,
         Working(p) => Working(requests[r]),
         registration' = registration,
         roles' \in {roles, roles \cup {r}, roles \ {r}},
         bindings' \in {bindings, bindings \cup {r}, bindings \ {r}},
         Grants(r, p, roles', bindings'), Checked(p)
  PROVE  IInv'
  <1>1. RequestInv(r, requests[r], roles, bindings) /\ registration \in Copy
    BY DEF IInv, TypeOK
  <1>2. Brought(r, p)
    BY <1>1 DEF RequestInv, Brought
  <1>3. MayChange(p) = MayChange(requests[r])
    BY DEF MayChange
  <1>4. Prepared(r, p)
    BY <1>1, <1>3 DEF RequestInv, Prepared
  <1> QED
    BY <1>1, <1>2, <1>4, InvariantKept DEF RequestInv

(* A request that only goes to another step.                               *)
LEMMA GoingTo ==
  ASSUME IInv, NEW r \in Requests, NEW pc \in Phases, Goto(r, pc), pc # "idle",
         pc # "get" => Working(requests[r]),
         pc = "store" /\ requests[r].op \in {"Register", "Change", "Modify"} /\ Warns(requests[r].built) =>
           requests[r].acknowledged,
         registration' = registration,
         roles' \in {roles, roles \cup {r}, roles \ {r}},
         bindings' \in {bindings, bindings \cup {r}, bindings \ {r}},
         r \in roles' => "role" \in requests[r].adrift \/ pc \in {"binding", "access", "unbind", "unrole"},
         r \in bindings' => "binding" \in requests[r].adrift \/ pc \in {"access", "unbind"}
  PROVE  IInv'
  <1> DEFINE q == requests[r]
             p == [q EXCEPT !.pc = pc]
  <1>1. q \in Request
    BY DEF IInv, TypeOK
  <1> HIDE DEF q
  <1>2. /\ p \in Request /\ p.pc = pc /\ p.op = q.op /\ p.patch = q.patch /\ p.adrift = q.adrift
        /\ p.acknowledged = q.acknowledged /\ p.read = q.read /\ p.built = q.built
    BY <1>1 DEF Request
  <1>3. Set(r, p)
    BY DEF Goto, q
  <1> HIDE DEF p
  <1>4. Grants(r, p, roles', bindings') /\ Checked(p) /\ (Working(p) => Working(q))
    BY <1>2 DEF Grants, Checked, Working, q
  <1> QED
    BY <1>2, <1>3, <1>4, GoingOn DEF q

(* An answer that says what is adrift.                                     *)
LEMMA Ending ==
  ASSUME IInv, NEW r \in Requests, NEW a \in Answers, NEW adrift \in SUBSET {"role", "binding"},
         Set(r, [Idle EXCEPT !.pc = "done", !.answer = a, !.adrift = adrift]),
         registration' \in Copy, bindings' = bindings, roles' \in {roles, roles \cup {r}},
         r \in roles' => "role" \in adrift, r \in bindings => "binding" \in adrift
  PROVE  IInv'
  <1> DEFINE p == [Idle EXCEPT !.pc = "done", !.answer = a, !.adrift = adrift]
  <1>1. p \in Request /\ p.op = None /\ p.pc = "done" /\ p.adrift = adrift
    BY IdleFacts DEF Request, Phases
  <1>2. Set(r, p)
    OBVIOUS
  <1> HIDE DEF p
  <1>3. Grants(r, p, roles', bindings')
    BY <1>1 DEF Grants
  <1>4. Brought(r, p) /\ Prepared(r, p) /\ Checked(p)
    BY <1>1 DEF Brought, Prepared, Working, Checked, None
  <1> QED
    BY <1>1, <1>2, <1>3, <1>4, InvariantKept DEF RequestInv

(* Answering keeps the invariant, unless grants are still to be undone.    *)
LEMMA Answering ==
  ASSUME IInv, NEW r \in Requests, NEW a \in Answers, Answer(r, a),
         registration' \in Copy, UNCHANGED <<roles, bindings>>,
         requests[r].pc \notin {"binding", "access", "unbind", "unrole"}
  PROVE  IInv'
  <1>1. requests[r] \in Request /\ RequestInv(r, requests[r], roles, bindings)
    BY DEF IInv, TypeOK
  <1>2. /\ requests[r].adrift \in SUBSET {"role", "binding"}
        /\ r \in roles => "role" \in requests[r].adrift
        /\ r \in bindings => "binding" \in requests[r].adrift
    BY <1>1 DEF Request, RequestInv, Grants
  <1> QED
    BY <1>2, Ending DEF Answer
-----------------------------------------------------------------------------
(* The steps                                                               *)

(* The invariant holds initially.                                          *)
LEMMA Initially == Init => IInv
  <1> SUFFICES ASSUME Init PROVE IInv
    OBVIOUS
  <1>1. \A f \in {[f \in Fields |-> First]} : f \in [Fields -> Value]
    BY DEF Value
  <1>2. registration \in Copy
    BY <1>1 DEF Init, Registration, Value, Copy
  <1>3. TypeOK
    BY <1>2, IdleFacts DEF Init, TypeOK
  <1>4. \A r \in Requests : RequestInv(r, requests[r], roles, bindings)
    BY IdleFacts DEF Init, RequestInv, Grants, Brought, Prepared, Working, Checked, None
  <1> QED
    BY <1>3, <1>4 DEF IInv

(* A request that has begun, and has nothing but what it brought.          *)
LEMMA Beginning ==
  ASSUME IInv, NEW r \in Requests, NEW op \in Ops, NEW patch \in Patch \cup {<<>>}, NEW ack \in BOOLEAN,
         Begin(r, op, patch, ack, "get"),
         op = "Change" => patch \in Bodies(r), op = "Modify" => patch \in Patches(r)
  PROVE  IInv'
  <1> DEFINE p == [Idle EXCEPT !.op = op, !.pc = "get", !.patch = patch, !.acknowledged = ack]
  <1>1. /\ p \in Request /\ p.op = op /\ p.pc = "get" /\ p.patch = patch
    BY IdleFacts DEF Request, Phases
  <1>2. Set(r, p) /\ requests[r].pc = "idle" /\ UNCHANGED <<registration, roles, bindings>>
    BY DEF Begin, Kept
  <1> HIDE DEF p
  <1>3. RequestInv(r, requests[r], roles, bindings) /\ registration \in Copy
    BY DEF IInv, TypeOK
  <1>4. r \notin roles /\ r \notin bindings
    BY <1>2, <1>3, IdleFacts DEF RequestInv, Grants
  <1>5. RequestInv(r, p, roles, bindings)
    BY <1>1, <1>4 DEF RequestInv, Grants, Brought, Prepared, Working, Checked
  <1> QED
    BY <1>1, <1>2, <1>3, <1>5, InvariantKept

(* The invariant is kept when an application is registered.                *)
LEMMA RegisteringKeeps ==
  ASSUME IInv, NEW r \in Requests, RegisterApplication(r)
  PROVE  IInv'
  <1>1. PICK patch \in Bodies(r), ack \in BOOLEAN :
          LET built == Registered(r, patch)
          IN  /\ requests[r].pc = "idle"
              /\ Set(r, [Idle EXCEPT !.op = "Register", !.patch = patch, !.acknowledged = ack, !.built = built,
                            !.pc = IF built.fields.adGroups # Empty THEN "role"
                                   ELSE IF ack THEN "store" ELSE "dryrun"])
              /\ Kept
    BY DEF RegisterApplication
  <1> DEFINE built == Registered(r, patch)
             pc == IF built.fields.adGroups # Empty THEN "role" ELSE IF ack THEN "store" ELSE "dryrun"
             p == [Idle EXCEPT !.op = "Register", !.patch = patch, !.acknowledged = ack, !.built = built, !.pc = pc]
  <1>2. [patch EXCEPT !["sharedSecret"] = r] \in [Fields -> Value]
    BY DEF Bodies, Value
  <1>3. built \in Registration
    BY <1>2 DEF Registered, BuildRR, Registration, Value
  <1>4. Set(r, p) /\ requests[r].pc = "idle" /\ UNCHANGED <<registration, roles, bindings>>
    BY <1>1 DEF Kept
  <1>5. /\ pc \in {"role", "store", "dryrun"}
        /\ pc = "store" => ack
    OBVIOUS
  <1>6. patch \in Patch
    BY PatchTypes
  <1> HIDE DEF built, pc
  <1>7. /\ p \in Request /\ p.op = "Register" /\ p.pc = pc /\ p.acknowledged = ack /\ p.built = built
    BY <1>3, <1>5, <1>6, IdleFacts DEF Request, Ops, Phases, Copy
  <1> HIDE DEF p
  <1>8. RequestInv(r, requests[r], roles, bindings) /\ registration \in Copy
    BY DEF IInv, TypeOK
  <1>9. r \notin roles /\ r \notin bindings
    BY <1>4, <1>8, IdleFacts DEF RequestInv, Grants
  <1>10. RequestInv(r, p, roles, bindings)
    BY <1>3, <1>5, <1>7, <1>9 DEF RequestInv, Grants, Brought, Prepared, Working, Checked, Ops
  <1> QED
    BY <1>4, <1>7, <1>8, <1>10, InvariantKept

(* The invariant is kept when a request comes.                             *)
LEMMA SubmitKeeps ==
  ASSUME IInv, NEW r \in Requests, Submit(r)
  PROVE  IInv'
  <1>1. CASE RegisterApplication(r)
    BY <1>1, RegisteringKeeps
  <1>2. CASE ChangeRegistrationDetails(r)
    BY <1>2, Beginning, PatchTypes DEF ChangeRegistrationDetails, Ops
  <1>3. CASE ModifyRegistrationDetails(r)
    BY <1>3, Beginning, PatchTypes DEF ModifyRegistrationDetails, Ops
  <1>4. CASE RegenerateSharedSecret(r) \/ DeleteApplication(r)
    BY <1>4, Beginning DEF RegenerateSharedSecret, DeleteApplication, Ops
  <1> QED
    BY <1>1, <1>2, <1>3, <1>4 DEF Submit

(* The invariant is kept when the registration is read and a new one is    *)
(* built.                                                                  *)
LEMMA GetKeeps ==
  ASSUME IInv, NEW r \in Requests, Get(r)
  PROVE  IInv'
  <1> DEFINE q == requests[r]
  <1>1. /\ q \in Request /\ q.pc = "get" /\ RequestInv(r, q, roles, bindings)
        /\ registration \in Copy
        /\ UNCHANGED <<registration, roles, bindings>>
    BY DEF IInv, TypeOK, Get, Kept
  <1>2. ASSUME NEW a \in Answers, Answer(r, a) PROVE IInv'
    BY <1>1, <1>2, Answering
  <1>3. ASSUME Exists, q.op = "Delete", Goto(r, "store") PROVE IInv'
    <2> DEFINE p == [q EXCEPT !.pc = "store"]
    <2> HIDE DEF q
    <2>1. p \in Request /\ p.op = "Delete" /\ p.pc = "store" /\ p.adrift = q.adrift
      BY <1>1, <1>3 DEF Request, Phases
    <2>2. Set(r, p)
      BY <1>3 DEF Goto, q
    <2> HIDE DEF p
    <2>3. RequestInv(r, p, roles, bindings)
      BY <1>1, <2>1 DEF RequestInv, Grants, Brought, Prepared, Working, Checked, Ops
    <2> QED
      BY <1>1, <2>1, <2>2, <2>3, InvariantKept
  <1>4. ASSUME NEW built, NEW pc \in {"dryrun", "role"}, Exists,
               Set(r, [q EXCEPT !.read = registration, !.built = built, !.pc = pc]),
               q.op \in {"Change", "Modify", "RegenerateSecret"},
               IsChanged(registration, built, MayChange(q), r),
               q.op = "Change" => built.fields["adGroups"] = q.patch["adGroups"]
        PROVE  IInv'
    <2> DEFINE p == [q EXCEPT !.read = registration, !.built = built, !.pc = pc]
    <2>1. registration \in Registration /\ built \in Registration
      BY <1>4 DEF IsChanged
    <2>2. Set(r, p)
      BY <1>4
    <2> HIDE DEF q
    <2>3. /\ p \in Request /\ p.op = q.op /\ p.pc = pc /\ p.adrift = q.adrift /\ p.patch = q.patch
          /\ p.read = registration /\ p.built = built
      BY <1>1, <2>1 DEF Request, Phases, Copy
    <2> HIDE DEF p
    <2>4. MayChange(p) = MayChange(q)
      BY <2>3 DEF MayChange
    <2>5. Prepared(r, p)
      BY <1>4, <2>3, <2>4 DEF Prepared, Ops
    <2>6. RequestInv(r, p, roles, bindings)
      BY <1>1, <2>3, <2>5 DEF RequestInv, Grants, Brought, Checked
    <2> QED
      BY <1>1, <2>2, <2>3, <2>6, InvariantKept
  <1>5. Exists => registration \in Registration
    BY <1>1 DEF Exists, Copy
  <1>6. ASSUME Exists, q.op = "Change", Set(r, [q EXCEPT !.read = registration,
                 !.built = Changed(registration, q.patch), !.pc = "dryrun"])
        PROVE  IInv'
    <2>1. q.patch \in Bodies(r)
      BY <1>1, <1>6 DEF RequestInv, Brought
    <2>2. MayChange(q) = {"sharedSecret", "adGroups", "owner"}
      BY <1>6 DEF MayChange
    <2> HIDE DEF q
    <2> QED
      BY <1>4, <1>5, <1>6, <2>1, <2>2, ChangedFacts
  <1>7. ASSUME Exists, q.op = "RegenerateSecret", Set(r, [q EXCEPT !.read = registration,
                 !.built = WithSecret(registration, r), !.pc = "dryrun"])
        PROVE  IInv'
    <2>1. MayChange(q) = {"sharedSecret"}
      BY <1>7 DEF MayChange
    <2> HIDE DEF q
    <2> QED
      BY <1>4, <1>5, <1>7, <2>1, WithSecretFacts
  <1>8. ASSUME Exists, q.op = "Modify", NEW pc \in {"dryrun", "role"}, Set(r, [q EXCEPT !.read = registration,
                 !.built = Modified(registration, q.patch), !.pc = pc])
        PROVE  IInv'
    <2>1. q.patch \in Patches(r)
      BY <1>1, <1>8 DEF RequestInv, Brought
    <2>2. MayChange(q) = DOMAIN q.patch
      BY <1>8 DEF MayChange
    <2> HIDE DEF q
    <2> QED
      BY <1>4, <1>5, <1>8, <2>1, <2>2, ModifiedFacts
  <1>9. "NotFound" \in Answers /\ "OK" \in Answers
    BY DEF Answers
  <1>10. PICK pc \in {"dryrun", "role"} :
           pc = IF "adGroups" \in ModifiedFields(registration, q.patch) /\ q.patch["adGroups"] # Empty
                THEN "role" ELSE "dryrun"
    OBVIOUS
  <1>11. \/ Answer(r, "NotFound") \/ Answer(r, "OK")
         \/ Exists /\ q.op = "Delete" /\ Goto(r, "store")
         \/ Exists /\ q.op = "Change" /\ Set(r, [q EXCEPT !.read = registration,
                 !.built = Changed(registration, q.patch), !.pc = "dryrun"])
         \/ Exists /\ q.op = "RegenerateSecret" /\ Set(r, [q EXCEPT !.read = registration,
                 !.built = WithSecret(registration, r), !.pc = "dryrun"])
         \/ Exists /\ q.op = "Modify" /\ Set(r, [q EXCEPT !.read = registration,
                 !.built = Modified(registration, q.patch), !.pc = pc])
    BY <1>10, Zenon DEF Get
  <1> HIDE DEF q
  <1> QED
    BY <1>2, <1>3, <1>6, <1>7, <1>8, <1>9, <1>11

(* The validation of access makes a role and a binding, and removes them.  *)
LEMMA MembershipKeeps ==
  ASSUME IInv, NEW r \in Requests, Membership(r)
  PROVE  IInv'
  <1> DEFINE q == requests[r]
  <1>1. q \in Request /\ RequestInv(r, q, roles, bindings)
    BY DEF IInv, TypeOK
  <1>2. {"Error", "member", "Forbidden"} \subseteq Verdicts \cap (Answers \cup {"member"})
    BY DEF Answers, Verdicts
  <1>3. {"binding", "access", "unbind", "unrole", "judged", "dryrun", "store"} \subseteq Phases
    BY DEF Phases
  <1>4. CASE CreateRole(r)
    <2>1. CASE roles' = roles /\ Answer(r, "Error")
      BY <1>2, <1>4, <2>1, Answering DEF CreateRole, IInv, TypeOK
    <2>2. CASE roles' = roles \cup {r} /\ Goto(r, "binding")
      <3>1. Working(q) /\ (r \in bindings => "binding" \in q.adrift)
        BY <1>1, <1>4 DEF CreateRole, Working, RequestInv, Grants
      <3> QED
        BY <1>3, <1>4, <2>2, <3>1, GoingTo DEF CreateRole
    <2>3. CASE /\ roles' = roles \cup {r}
               /\ Set(r, [Idle EXCEPT !.pc = "done", !.answer = "Error", !.adrift = q.adrift \cup {"role"}])
      <3> DEFINE adrift == q.adrift \cup {"role"}
      <3>1. /\ adrift \in SUBSET {"role", "binding"} /\ "role" \in adrift
            /\ r \in bindings => "binding" \in adrift
        BY <1>1, <1>4 DEF Request, CreateRole, RequestInv, Grants
      <3>2. registration' \in Copy /\ bindings' = bindings
        BY <1>4 DEF CreateRole, IInv, TypeOK
      <3>3. Set(r, [Idle EXCEPT !.pc = "done", !.answer = "Error", !.adrift = adrift])
        BY <2>3
      <3> HIDE DEF adrift
      <3> QED
        BY <1>2, <2>3, <3>1, <3>2, <3>3, Ending
    <2> QED
      BY <1>4, <2>1, <2>2, <2>3 DEF CreateRole
  <1>5. CASE CreateBinding(r)
    <2>0. /\ q.pc = "binding" /\ Working(q) /\ (r \in bindings => "binding" \in q.adrift)
          /\ UNCHANGED <<registration, roles>>
      BY <1>1, <1>5 DEF CreateBinding, Working, RequestInv, Grants
    <2>1. CASE bindings' = bindings \cup {r} /\ Goto(r, "access")
      BY <1>3, <2>0, <2>1, GoingTo
    <2>2. ASSUME NEW adrift \in SUBSET {"role", "binding"},
                 Set(r, [q EXCEPT !.pc = "unrole", !.verdict = "Error", !.adrift = adrift]),
                 bindings' \in {bindings, bindings \cup {r}}, r \in bindings' => "binding" \in adrift
          PROVE  IInv'
      <3> DEFINE p == [q EXCEPT !.pc = "unrole", !.verdict = "Error", !.adrift = adrift]
      <3>1. Set(r, p)
        BY <2>2
      <3> HIDE DEF q
      <3>2. /\ p \in Request /\ p.pc = "unrole" /\ p.op = q.op /\ p.patch = q.patch /\ p.adrift = adrift
            /\ p.acknowledged = q.acknowledged /\ p.read = q.read /\ p.built = q.built
        BY <1>1, <1>2, <1>3 DEF Request
      <3> HIDE DEF p
      <3>3. Grants(r, p, roles', bindings') /\ Checked(p)
        BY <2>0, <2>2, <3>2 DEF Grants, Checked
      <3> QED
        BY <2>0, <2>2, <3>1, <3>2, <3>3, GoingOn DEF q
    <2>3. q.adrift \in SUBSET {"role", "binding"} /\ q.adrift \cup {"binding"} \in SUBSET {"role", "binding"}
      BY <1>1 DEF Request
    <2>4. CASE /\ bindings' = bindings
               /\ Set(r, [q EXCEPT !.pc = "unrole", !.verdict = "Error", !.adrift = q.adrift])
      BY <2>0, <2>2, <2>3, <2>4
    <2>5. CASE /\ bindings' = bindings \cup {r}
               /\ Set(r, [q EXCEPT !.pc = "unrole", !.verdict = "Error", !.adrift = q.adrift \cup {"binding"}])
      BY <2>2, <2>3, <2>5
    <2> QED
      BY <1>5, <2>1, <2>4, <2>5 DEF CreateBinding
  <1>6. CASE HasAccess(r)
    <2>1. q.pc = "access" /\ Working(q) /\ UNCHANGED <<registration, roles, bindings>>
      BY <1>6 DEF HasAccess, Kept, Working
    <2>2. PICK v \in {"member", "Forbidden", "Error"} : Set(r, [q EXCEPT !.pc = "unbind", !.verdict = v])
      BY <1>6 DEF HasAccess
    <2> DEFINE p == [q EXCEPT !.pc = "unbind", !.verdict = v]
    <2>3. Set(r, p)
      BY <2>2
    <2> HIDE DEF q
    <2>4. /\ p \in Request /\ p.pc = "unbind" /\ p.op = q.op /\ p.patch = q.patch /\ p.adrift = q.adrift
          /\ p.acknowledged = q.acknowledged /\ p.read = q.read /\ p.built = q.built
      BY <1>1, <1>2, <1>3 DEF Request
    <2> HIDE DEF p
    <2>5. Grants(r, p, roles', bindings') /\ Checked(p)
      BY <2>4 DEF Grants, Checked
    <2> QED
      BY <2>1, <2>3, <2>4, <2>5, GoingOn DEF q
  <1>7. ASSUME Working(q), registration' = registration, UNCHANGED <<roles, bindings>>,
               NEW pc \in {"unrole", "judged"}, NEW object \in {"role", "binding"},
               Set(r, [q EXCEPT !.pc = pc, !.adrift = @ \cup {object}]),
               r \in roles => "role" \in q.adrift \/ object = "role" \/ pc = "unrole",
               r \in bindings => "binding" \in q.adrift \/ object = "binding"
        PROVE  IInv'
    <2> DEFINE p == [q EXCEPT !.pc = pc, !.adrift = @ \cup {object}]
    <2>1. Set(r, p)
      BY <1>7
    <2> HIDE DEF q
    <2>2. /\ p \in Request /\ p.pc = pc /\ p.op = q.op /\ p.patch = q.patch /\ p.adrift = q.adrift \cup {object}
          /\ p.acknowledged = q.acknowledged /\ p.read = q.read /\ p.built = q.built
      BY <1>1, <1>3, <1>7 DEF Request
    <2> HIDE DEF p
    <2>3. Grants(r, p, roles', bindings') /\ Checked(p)
      BY <1>7, <2>2 DEF Grants, Checked
    <2> QED
      BY <1>7, <2>1, <2>2, <2>3, GoingOn DEF q
  <1>8. CASE DeleteBinding(r)
    <2>1. q.pc = "unbind" /\ Working(q) /\ UNCHANGED <<registration, roles>>
      BY <1>8 DEF DeleteBinding, Working
    <2>2. CASE bindings' = bindings \ {r} /\ Goto(r, "unrole")
      BY <1>3, <2>1, <2>2, GoingTo
    <2>3. CASE bindings' = bindings /\ Set(r, [q EXCEPT !.pc = "unrole", !.adrift = @ \cup {"binding"}])
      BY <1>7, <2>1, <2>3
    <2> QED
      BY <1>8, <2>2, <2>3 DEF DeleteBinding, Removes
  <1>9. CASE DeleteRole(r)
    <2>1. /\ q.pc = "unrole" /\ Working(q) /\ (r \in bindings => "binding" \in q.adrift)
          /\ UNCHANGED <<registration, bindings>>
      BY <1>1, <1>9 DEF DeleteRole, Working, RequestInv, Grants
    <2>2. CASE roles' = roles \ {r} /\ Goto(r, "judged")
      BY <1>3, <2>1, <2>2, GoingTo
    <2>3. CASE roles' = roles /\ Set(r, [q EXCEPT !.pc = "judged", !.adrift = @ \cup {"role"}])
      BY <1>7, <2>1, <2>3
    <2> QED
      BY <1>9, <2>2, <2>3 DEF DeleteRole, Removes
  <1>10. CASE Judge(r)
    <2>1. /\ q.pc = "judged" /\ Working(q) /\ (r \in roles => "role" \in q.adrift) /\ (r \in bindings => "binding" \in q.adrift)
          /\ UNCHANGED <<registration, roles, bindings>>
      BY <1>1, <1>10 DEF Judge, Kept, Working, RequestInv, Grants
    <2>2. CASE q.verdict # "member"
      <3>1. q.verdict \in Answers
        BY <1>1, <2>2 DEF Request, Verdicts, Answers
      <3>2. registration \in Copy
        BY DEF IInv, TypeOK
      <3> QED
        BY <1>10, <2>1, <2>2, <3>1, <3>2, Answering DEF Judge
    <2>3. CASE q.verdict = "member"
      <3>1. \/ Goto(r, "dryrun")
            \/ Goto(r, "store") /\ q.acknowledged
        BY <1>10, <2>3 DEF Judge
      <3> QED
        BY <1>3, <2>1, <3>1, GoingTo
    <2> QED
      BY <2>2, <2>3
  <1> QED
    BY <1>4, <1>5, <1>6, <1>8, <1>9, <1>10 DEF Membership

(* A conflict is answered, or the registration is read again.              *)
LEMMA ConflictKeeps ==
  ASSUME IInv, NEW r \in Requests, requests[r].pc \in {"dryrun", "store"}, Conflict(r),
         UNCHANGED <<registration, roles, bindings>>
  PROVE  IInv'
  <1> DEFINE q == requests[r]
             p == [q EXCEPT !.pc = "get", !.tries = q.tries + 1]
  <1>1. q \in Request /\ RequestInv(r, q, roles, bindings) /\ registration \in Copy
    BY DEF IInv, TypeOK
  <1>2. CASE Set(r, p)
    <2> HIDE DEF q
    <2>0. q.tries + 1 \in Nat
      BY <1>1 DEF Request
    <2>1. /\ p \in Request /\ p.pc = "get" /\ p.op = q.op /\ p.patch = q.patch /\ p.adrift = q.adrift
          /\ p.acknowledged = q.acknowledged /\ p.read = q.read /\ p.built = q.built
      BY <1>1, <2>0 DEF Request, Phases
    <2> HIDE DEF p
    <2>2. Grants(r, p, roles', bindings') /\ Checked(p) /\ ~Working(p)
      BY <1>1, <2>1 DEF RequestInv, Grants, Checked, Working, q
    <2> QED
      BY <1>2, <2>1, <2>2, GoingOn DEF q
  <1>3. CASE Answer(r, "Conflict") \/ Answer(r, "NotFound")
    BY <1>1, <1>3, Answering DEF Answers
  <1> QED
    BY <1>2, <1>3 DEF Conflict

(* The invariant is kept when that is validated and its warnings are       *)
(* weighed.                                                                *)
LEMMA ValidateKeeps ==
  ASSUME IInv, NEW r \in Requests, Validate(r)
  PROVE  IInv'
  <1> DEFINE q == requests[r]
  <1>1. /\ RequestInv(r, q, roles, bindings) /\ registration \in Copy /\ q.pc = "dryrun" /\ Working(q)
        /\ UNCHANGED <<registration, roles, bindings>>
    BY DEF IInv, TypeOK, Validate, Kept, Working
  <1>2. CASE Conflict(r)
    BY <1>1, <1>2, ConflictKeeps
  <1>3. CASE Answer(r, "Warnings")
    BY <1>1, <1>3, Answering DEF Answers
  <1>4. CASE Goto(r, "store") /\ (Warns(Validated(q)) => q.acknowledged \/ q.op = "RegenerateSecret")
    <2>1. q.op = "Change" => Validated(q).fields.adGroups = q.built.fields.adGroups
      BY <1>1 DEF RequestInv, Prepared, Validated, BuildRR
    <2>2. q.op \in {"Register", "Change", "Modify"} /\ Warns(q.built) => q.acknowledged
      BY <1>4, <2>1 DEF Warns, Validated
    <2>3. (r \in roles => "role" \in q.adrift) /\ (r \in bindings => "binding" \in q.adrift)
      BY <1>1 DEF RequestInv, Grants
    <2> QED
      BY <1>1, <1>4, <2>2, <2>3, GoingTo DEF Phases
  <1> QED
    BY <1>2, <1>3, <1>4 DEF Validate

(* What is stored over what was read.                                      *)
LEMMA Stored ==
  ASSUME IInv, NEW r \in Requests, Store(r), registration' # registration
  PROVE  LET q == requests[r] IN
         /\ q.pc = "store" /\ q.op \in {"Register", "Change", "Modify", "RegenerateSecret"}
         /\ \E a \in {"OK", "Error"} : Answer(r, a)
         /\ registration' = q.built /\ registration' \in Registration
         /\ q.op = "Register" => ~Exists
         /\ q.op # "Register" => IsChanged(registration, registration', MayChange(q), r)
         /\ q.op # "RegenerateSecret" /\ Warns(registration') => q.acknowledged
  <1> DEFINE q == requests[r]
  <1>1. RequestInv(r, q, roles, bindings)
    BY DEF IInv
  <1>2. /\ q.pc = "store" /\ q.op # "Delete" /\ ~Refused(q) /\ registration' = q.built
        /\ \E a \in {"OK", "Error"} : Answer(r, a)
    BY DEF Store
  <1>3. Prepared(r, q) /\ Checked(q) /\ Working(q)
    BY <1>1, <1>2 DEF RequestInv, Working
  <1>4. q.op \in {"Register", "Change", "Modify", "RegenerateSecret"}
    BY <1>2, <1>3 DEF Prepared, Ops
  <1>5. q.op # "Register" => registration = q.read /\ IsChanged(q.read, q.built, MayChange(q), r)
    BY <1>2, <1>3, <1>4 DEF Prepared, Refused
  <1>6. q.built \in Registration
    BY <1>3, <1>4, <1>5 DEF Prepared, IsChanged
  <1> QED
    BY <1>2, <1>3, <1>4, <1>5, <1>6 DEF Checked, Refused

(* The invariant is kept by every step of a request.                       *)
LEMMA StepKeeps ==
  ASSUME IInv, NEW r \in Requests, Step(r)
  PROVE  IInv'
  <1>1. registration \in Copy /\ {"OK", "NotFound", "Error"} \subseteq Answers
    BY DEF IInv, TypeOK, Answers
  <1>2. CASE Validate(r) \/ Get(r) \/ Membership(r)
    BY <1>2, ValidateKeeps, GetKeeps, MembershipKeeps
  <1>3. CASE Store(r)
    <2>1. CASE Refused(requests[r]) /\ Conflict(r) /\ UNCHANGED registration
      BY <1>3, <2>1, ConflictKeeps DEF Store
    <2>2. CASE registration' = requests[r].built /\ \E a \in {"OK", "Error"} : Answer(r, a)
      <3>1. registration' \in Copy
        BY <1>1, <1>3, Stored DEF Copy
      <3> QED
        BY <1>1, <1>3, <2>2, <3>1, Answering DEF Store
    <2> QED
      BY <1>3, <2>1, <2>2 DEF Store
  <1>4. CASE Remove(r)
    BY <1>1, <1>4, Answering DEF Remove, Copy
  <1>5. CASE Fails(r)
    BY <1>1, <1>5, Answering DEF Fails, Kept
  <1> QED
    BY <1>2, <1>3, <1>4, <1>5 DEF Step

(* The invariant is kept when a client goes away.                          *)
LEMMA CancelKeeps ==
  ASSUME IInv, NEW r \in Requests, Cancel(r)
  PROVE  IInv'
  <1> DEFINE q == requests[r]
             p == [q EXCEPT !.canceled = TRUE]
  <1>1. /\ q \in Request /\ RequestInv(r, q, roles, bindings)
        /\ q.pc # "idle" /\ Set(r, p) /\ UNCHANGED <<registration, roles, bindings>>
    BY DEF IInv, TypeOK, Cancel, Kept
  <1> HIDE DEF q
  <1>2. /\ p \in Request /\ p.pc = q.pc /\ p.op = q.op /\ p.patch = q.patch /\ p.adrift = q.adrift
        /\ p.acknowledged = q.acknowledged /\ p.read = q.read /\ p.built = q.built
    BY <1>1 DEF Request
  <1> HIDE DEF p
  <1>3. Grants(r, p, roles', bindings') /\ Checked(p) /\ (Working(p) => Working(q))
    BY <1>1, <1>2 DEF RequestInv, Grants, Checked, Working
  <1> QED
    BY <1>1, <1>2, <1>3, GoingOn DEF q

(* The invariant holds in every state.                                     *)
LEMMA Invariant == Spec => []IInv
  <1>1. IInv /\ [Next]_vars => IInv'
    <2>1. CASE UNCHANGED vars
      BY <2>1 DEF vars, IInv, TypeOK
    <2>2. ASSUME IInv, NEW r \in Requests, Submit(r) \/ Step(r) \/ Cancel(r) PROVE IInv'
      BY <2>2, SubmitKeeps, StepKeeps, CancelKeeps
    <2> QED
      BY <2>1, <2>2 DEF Next
  <1> QED
    BY <1>1, Initially, PTL DEF Spec
-----------------------------------------------------------------------------
(* The theorems                                                            *)

(* Every variable keeps its type: what is stored is a whole registration,  *)
(* whichever fields a request left out.                                    *)
THEOREM TypeCorrect == Spec => []TypeOK
  <1>1. IInv => TypeOK
    BY DEF IInv
  <1> QED
    BY <1>1, Invariant, PTL

(* A role or a binding whose creation was answered with success is gone    *)
(* when the request is answered, whether or not its client is still there, *)
(* unless its deletion failed; nothing is promised of one that was made    *)
(* although its creation ended with an error                               *)
(* (validateUserIsMemberOfAdGroups).                                       *)
THEOREM NoRoleStays == Spec => []RolesAreRemoved
  <1>1. IInv => RolesAreRemoved
    BY DEF IInv, RequestInv, Grants, RolesAreRemoved
  <1> QED
    BY <1>1, Invariant, PTL

(* Only a request that stores changes the registration, or removes it.     *)
LEMMA WhoChanges ==
  ASSUME IInv, [Next]_vars, registration' # registration, registration' # NoRegistration
  PROVE  \E r \in Requests : Store(r)
  BY DEF Next, vars, Submit, RegisterApplication, ChangeRegistrationDetails, ModifyRegistrationDetails,
         RegenerateSharedSecret, DeleteApplication, Begin, Step, Get, Membership, CreateRole, CreateBinding,
         HasAccess, DeleteBinding, DeleteRole, Judge, Validate, Remove, Fails, Cancel, Kept

(* An answer is the end of a request.                                      *)
LEMMA Answered ==
  ASSUME IInv, NEW r \in Requests, NEW a, Answer(r, a)
  PROVE  requests'[r].pc = "done"
  <1> DEFINE p == [Idle EXCEPT !.pc = "done", !.answer = a, !.adrift = requests[r].adrift]
  <1>1. p.pc = "done"
    BY DEF Idle
  <1> HIDE DEF p
  <1> QED
    BY <1>1 DEF Answer, Set, IInv, TypeOK, p

(* What is stored over a registration differs from it, as it is at that    *)
(* moment, only in what the request may change and brought.                *)
THEOREM OnlyRequestedIsStored == Spec => OnlyRequested
  <1>1. IInv /\ [Next]_vars =>
          (Exists /\ registration' # registration /\ registration' # NoRegistration =>
             \E r \in Requests :
               /\ requests'[r].pc = "done" /\ requests[r].pc = "store"
               /\ <<registration'.appID, registration'.creator>> = <<registration.appID, registration.creator>>
               /\ \A f \in Fields : registration'.fields[f] # registration.fields[f] =>
                     /\ f \in MayChange(requests[r])
                     /\ registration'.fields[f] \in {r, Empty})
    <2> SUFFICES ASSUME IInv, [Next]_vars, Exists, registration' # registration,
                        registration' # NoRegistration
                 PROVE  \E r \in Requests :
                          /\ requests'[r].pc = "done" /\ requests[r].pc = "store"
                          /\ <<registration'.appID, registration'.creator>>
                               = <<registration.appID, registration.creator>>
                          /\ \A f \in Fields : registration'.fields[f] # registration.fields[f] =>
                                /\ f \in MayChange(requests[r])
                                /\ registration'.fields[f] \in {r, Empty}
      OBVIOUS
    <2>1. PICK r \in Requests : Store(r)
      BY WhoChanges
    <2>2. /\ requests[r].pc = "store" /\ \E a \in {"OK", "Error"} : Answer(r, a)
          /\ IsChanged(registration, registration', MayChange(requests[r]), r)
      BY <2>1, Stored
    <2>3. requests'[r].pc = "done"
      BY <2>2, Answered
    <2> QED
      BY <2>2, <2>3 DEF IsChanged
  <1> QED
    BY <1>1, Invariant, PTL DEF Spec, OnlyRequested

(* A registration that gains a warning was stored by a request that        *)
(* acknowledged it, also when others change it between dry run and store.  *)
THEOREM NoUnseenWarning == Spec => WarningsAreAcknowledged
  <1>1. IInv /\ [Next]_vars =>
          (registration' # NoRegistration /\ Warns(registration') /\ ~(Exists /\ Warns(registration)) =>
             \E r \in Requests : requests'[r].pc = "done" /\ requests[r].pc = "store" /\ requests[r].acknowledged)
    <2> SUFFICES ASSUME IInv, [Next]_vars, registration' # NoRegistration, Warns(registration'),
                        ~(Exists /\ Warns(registration))
                 PROVE  \E r \in Requests :
                          requests'[r].pc = "done" /\ requests[r].pc = "store" /\ requests[r].acknowledged
      OBVIOUS
    <2>1. registration' # registration
      BY DEF Exists
    <2>2. PICK r \in Requests : Store(r)
      BY <2>1, WhoChanges
    <2>3. requests[r].pc = "store" /\ requests'[r].pc = "done"
      BY <2>1, <2>2, Stored, Answered
    <2>4. CASE requests[r].op = "RegenerateSecret"
      <3>1. IsChanged(registration, registration', {"sharedSecret"}, r)
        BY <2>1, <2>2, <2>4, Stored DEF MayChange
      <3>2. registration'.fields["adGroups"] = registration.fields["adGroups"]
        BY <3>1 DEF IsChanged, Fields
      <3>3. Exists
        BY <3>1, RegistrationExists DEF IsChanged, Exists
      <3> QED
        BY <3>2, <3>3 DEF Warns
    <2>5. CASE requests[r].op # "RegenerateSecret"
      BY <2>1, <2>2, <2>3, <2>5, Stored
    <2> QED
      BY <2>4, <2>5
  <1> QED
    BY <1>1, Invariant, PTL DEF Spec, WarningsAreAcknowledged
=============================================================================
