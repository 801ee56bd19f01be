------------------------- MODULE RegistrationUpdates -------------------------
(***************************************************************************)
(* The life of one application's RadixRegistration: registering, changing, *)
(* modifying, a new shared secret and deletion                             *)
(* (api/applications/applications_handler.go and the handlers of           *)
(* applications_controller.go).                                            *)
(*                                                                         *)
(* A request reads the registration, builds a new one, lets the API server *)
(* validate it in a dry run and stores it; the dry run and the store are   *)
(* refused when the registration has changed since it was read. A change   *)
(* of the administrators first proves that the user is one of them: a role *)
(* and a binding are created for the proof and removed again, also when    *)
(* the client has gone away after they were made. A call may take effect   *)
(* and yet end with an error, when its client goes or its answer is lost.  *)
(***************************************************************************)
EXTENDS Naturals, FiniteSets, Functions

CONSTANTS
    Requests,   \* concurrent requests; the values a request brings bear its name
    OpsOf,      \* bound: the operations each request may ask for
    PatchesOf,  \* bound: the fields each request may modify
    Retries     \* retry.DefaultRetry.Steps

ASSUME RetriesAssumption == Retries \in Nat \ {0}

None == "none"
Empty == "empty"
First == "first"    \* the values of the registration there is at first

\* owner stands for every field that is handled like it: the repository,
\* the branch and name of the configuration, the configuration item.
Fields == {"sharedSecret", "adGroups", "adUsers", "owner"}

ASSUME PatchesAssumption == \A r \in Requests : PatchesOf[r] \subseteq Fields \ {"sharedSecret"}

Value == Requests \cup {Empty, First}
NoRegistration == [appID |-> None]

Ops == {"Register", "Change", "Modify", "RegenerateSecret", "Delete"}

VARIABLES
    registration,   \* the RadixRegistration of the application
    roles,          \* the requests whose Role for the access validation exists
    bindings,       \* the requests whose RoleBinding exists
    requests        \* the requests under way

vars == <<registration, roles, bindings, requests>>

\* adrift: what the request made for the access validation and could not remove,
\* because the answer of the creation or the deletion itself failed.
Idle == [op |-> None, pc |-> "idle", patch |-> <<>>, acknowledged |-> FALSE, read |-> NoRegistration,
         built |-> NoRegistration, verdict |-> None, tries |-> 0, canceled |-> FALSE, adrift |-> {},
         answer |-> None]

Exists == registration # NoRegistration

-----------------------------------------------------------------------------
(* What is built from a request *)

\* The registration built from a request alone, by the registration builder.
BuildRR(patch, appID, creator) ==
    [appID |-> appID, creator |-> creator,
     fields |-> patch]

\* mutant: what the request brought is stored as it was built
MutantChanged(current, patch) == BuildRR(patch, Empty, Empty)

\* A change replaces these fields, also by nothing.
Changed(current, patch) ==
    [current EXCEPT !.fields = [f \in Fields |->
        IF f \in {"sharedSecret", "adGroups", "owner"} THEN patch[f] ELSE @[f]]]

\* A modification replaces what it brings: lists that differ, also by the
\* empty list, and other values unless they are empty.
ModifiedFields(current, patch) ==
    {f \in DOMAIN patch \cap {"adGroups", "adUsers"} : patch[f] # current.fields[f]}
      \cup {f \in DOMAIN patch \cap {"owner"} : patch[f] # Empty}

Modified(current, patch) ==
    [current EXCEPT !.fields = [f \in Fields |->
        IF f \in ModifiedFields(current, patch) THEN patch[f] ELSE @[f]]]

WithSecret(current, secret) == [current EXCEPT !.fields.sharedSecret = secret]

\* The warnings of the API server's webhook: no administrators.
Warns(r) == r.fields.adGroups = Empty

-----------------------------------------------------------------------------
(* Steps *)

Set(r, q) == requests' = [requests EXCEPT ![r] = q]
Answer(r, a) == Set(r, [Idle EXCEPT !.pc = "done", !.answer = a, !.adrift = requests[r].adrift])
Goto(r, pc) == Set(r, [requests[r] EXCEPT !.pc = pc])
Kept == UNCHANGED <<registration, roles, bindings>>

Begin(r, op, patch, acknowledged, pc) ==
    /\ requests[r].pc = "idle" /\ op \in OpsOf[r]
    /\ Set(r, [Idle EXCEPT !.op = op, !.pc = pc, !.patch = patch, !.acknowledged = acknowledged])
    /\ Kept

\* The body of a registration, and of a modification, which may leave out fields.
Bodies(r) == [Fields -> {r, Empty}]
Patches(r) == UNION {[F -> {r, Empty}] : F \in SUBSET PatchesOf[r]}

\* A registration with no shared secret gets a random one; it is given an
\* identifier of its own and the user as its creator.
Registered(r, patch) ==
    BuildRR([patch EXCEPT !["sharedSecret"] = r], r, r)

RegisterApplication(r) ==
    \E patch \in Bodies(r), ack \in BOOLEAN :
        LET built == Registered(r, patch)
        IN  /\ requests[r].pc = "idle" /\ "Register" \in OpsOf[r]
            /\ Set(r, [Idle EXCEPT !.op = "Register", !.patch = patch, !.acknowledged = ack, !.built = built,
                          !.pc = IF built.fields.adGroups # Empty THEN "role"
                                 ELSE IF ack THEN "store" ELSE "dryrun"])
            /\ Kept

ChangeRegistrationDetails(r) ==
    \E patch \in Bodies(r), ack \in BOOLEAN : Begin(r, "Change", patch, ack, "get")
ModifyRegistrationDetails(r) ==
    \E patch \in Patches(r), ack \in BOOLEAN : Begin(r, "Modify", patch, ack, "get")
RegenerateSharedSecret(r) == Begin(r, "RegenerateSecret", <<>>, FALSE, "get")
DeleteApplication(r) == Begin(r, "Delete", <<>>, FALSE, "get")

Submit(r) ==
    \/ RegisterApplication(r) \/ ChangeRegistrationDetails(r) \/ ModifyRegistrationDetails(r)
    \/ RegenerateSharedSecret(r) \/ DeleteApplication(r)

\* A call made for the request fails without effect when its client has gone
\* away, and may fail for other reasons. So does a change whose body has another
\* name than its path, before the registration is read.
Fails(r) ==
    /\ requests[r].pc \in {"get", "dryrun", "store"}
    /\ Answer(r, "Error")
    /\ Kept

Ok(r) == ~requests[r].canceled

\* The registration as read, and what each operation makes of it.
Get(r) ==
    LET q == requests[r]
        read(built, pc) == Set(r, [q EXCEPT !.read = registration, !.built = built, !.pc = pc])
    IN  /\ q.pc = "get" /\ Ok(r)
        /\ \/ ~Exists /\ Answer(r, "NotFound")
           \/ Exists /\ q.op = "Delete" /\ Goto(r, "store")
           \/ Exists /\ q.op = "Change" /\ read(Changed(registration, q.patch), "dryrun")
           \/ /\ Exists /\ q.op = "RegenerateSecret"
              /\ \/ Answer(r, "OK")     \* the user brought the secret that is there
                 \/ read(WithSecret(registration, r), "dryrun")
           \/ /\ Exists /\ q.op = "Modify"
              /\ \/ /\ ModifiedFields(registration, q.patch) = {}
                    /\ Answer(r, "OK")
                 \/ /\ ModifiedFields(registration, q.patch) # {}
                    /\ read(Modified(registration, q.patch),
                            IF "adGroups" \in ModifiedFields(registration, q.patch) /\ q.patch["adGroups"] # Empty
                            THEN "role" ELSE "dryrun")
        /\ Kept

-----------------------------------------------------------------------------
(* validateUserIsMemberOfAdGroups *)

\* The Role and the RoleBinding are created with the request's context and under
\* generated names: one that was made although its creation ended with an error
\* is not known to the request, which defers no deletion of it.
CreateRole(r) ==
    LET q == requests[r]
    IN  /\ q.pc = "role"
        /\ \/ Ok(r) /\ roles' = roles \cup {r} /\ Goto(r, "binding")
           \/ roles' = roles /\ Answer(r, "Error")
           \/ /\ roles' = roles \cup {r}
              /\ Set(r, [Idle EXCEPT !.pc = "done", !.answer = "Error", !.adrift = q.adrift \cup {"role"}])
        /\ UNCHANGED <<registration, bindings>>

CreateBinding(r) ==
    LET q == requests[r]
        fails(adrift) == Set(r, [q EXCEPT !.pc = "unrole", !.verdict = "Error", !.adrift = adrift])
    IN  /\ q.pc = "binding"
        /\ \/ Ok(r) /\ bindings' = bindings \cup {r} /\ Goto(r, "access")
           \/ bindings' = bindings /\ fails(q.adrift)
           \/ bindings' = bindings \cup {r} /\ fails(q.adrift \cup {"binding"})
        /\ UNCHANGED <<registration, roles>>

HasAccess(r) ==
    /\ requests[r].pc = "access"
    /\ \E v \in {"member", "Forbidden", "Error"} :
          /\ v # "Error" => Ok(r)
          /\ Set(r, [requests[r] EXCEPT !.pc = "unbind", !.verdict = v])
    /\ Kept

\* The deferred deletions are made with a context of their own; a failure is
\* only logged.
Removes(r, object, S, pc) ==
    \/ S' = S \ {r} /\ Goto(r, pc)
    \/ S' = S /\ Set(r, [requests[r] EXCEPT !.pc = pc, !.adrift = @ \cup {object}])

DeleteBinding(r) ==
    /\ requests[r].pc = "unbind"
    /\ Removes(r, "binding", bindings, "unrole")
    /\ UNCHANGED <<registration, roles>>

\* mutant: the role is deleted with the request's context
MutantDeleteRole(r) ==
    /\ requests[r].pc = "unrole"
    /\ IF Ok(r) THEN Removes(r, "role", roles, "judged") ELSE roles' = roles /\ Goto(r, "judged")
    /\ UNCHANGED <<registration, bindings>>

DeleteRole(r) ==
    /\ requests[r].pc = "unrole"
    /\ Removes(r, "role", roles, "judged")
    /\ UNCHANGED <<registration, bindings>>

Judge(r) ==
    LET q == requests[r]
    IN  /\ q.pc = "judged"
        /\ IF q.verdict # "member" THEN Answer(r, q.verdict)
           ELSE Goto(r, IF q.op = "Register" /\ q.acknowledged THEN "store" ELSE "dryrun")
        /\ Kept

-----------------------------------------------------------------------------
(* Validation and storing *)

\* mutant: the registration as it was is validated
MutantValidated(q) == IF q.op = "Register" THEN q.built ELSE q.read

\* What is handed to the dry run: for a change what the request alone gives.
Validated(q) == IF q.op = "Change" THEN BuildRR(q.patch, Empty, Empty) ELSE q.built

\* What the API server refuses, in a dry run and when storing: what exists
\* already, or has changed or gone since it was read.
Refused(q) == IF q.op = "Register" THEN Exists ELSE registration # q.read

\* A change validates an object that was never read: there is nothing for the
\* API server to compare.
RefusedDryRun(q) == IF q.op = "Change" THEN ~Exists ELSE Refused(q)

\* A new shared secret is tried again after a conflict.
Conflict(r) ==
    LET q == requests[r]
    IN  IF q.op = "RegenerateSecret" /\ Exists /\ q.tries + 1 < Retries
        THEN Set(r, [q EXCEPT !.pc = "get", !.tries = @ + 1])
        ELSE Answer(r, IF q.op = "Register" \/ Exists THEN "Conflict" ELSE "NotFound")

Validate(r) ==
    LET q == requests[r]
    IN  /\ q.pc = "dryrun" /\ Ok(r)
        /\ \/ RefusedDryRun(q) /\ Conflict(r)
           \/ /\ ~RefusedDryRun(q) /\ Warns(Validated(q)) /\ ~q.acknowledged /\ q.op # "RegenerateSecret"
              /\ Answer(r, "Warnings")
           \/ /\ ~RefusedDryRun(q) /\ (Warns(Validated(q)) => q.acknowledged \/ q.op = "RegenerateSecret")
              /\ Goto(r, "store")
        /\ Kept

\* What was stored or removed may be answered with an error.
Store(r) ==
    LET q == requests[r]
    IN  /\ q.pc = "store" /\ q.op # "Delete" /\ Ok(r)
        /\ \/ Refused(q) /\ Conflict(r) /\ UNCHANGED registration
           \/ ~Refused(q) /\ registration' = q.built /\ \E a \in {"OK", "Error"} : Answer(r, a)
        /\ UNCHANGED <<roles, bindings>>

Remove(r) ==
    /\ requests[r].pc = "store" /\ requests[r].op = "Delete" /\ Ok(r)
    /\ registration' = NoRegistration
    /\ \E a \in {IF Exists THEN "OK" ELSE "NotFound", "Error"} : Answer(r, a)
    /\ UNCHANGED <<roles, bindings>>

\* The client goes away in the middle of its request.
Cancel(r) ==
    /\ requests[r].pc \notin {"idle", "done"} /\ ~requests[r].canceled
    /\ Set(r, [requests[r] EXCEPT !.canceled = TRUE])
    /\ Kept

-----------------------------------------------------------------------------

Init ==
    /\ registration \in {NoRegistration,
                         [appID |-> First, creator |-> First, fields |-> [f \in Fields |-> First]]}
    /\ roles = {} /\ bindings = {}
    /\ requests = [r \in Requests |-> Idle]

Membership(r) == CreateRole(r) \/ CreateBinding(r) \/ HasAccess(r) \/ DeleteBinding(r) \/ DeleteRole(r) \/ Judge(r)
Step(r) == Get(r) \/ Membership(r) \/ Validate(r) \/ Store(r) \/ Remove(r) \/ Fails(r)
Next == \E r \in Requests : Submit(r) \/ Step(r) \/ Cancel(r)
Spec == Init /\ [][Next]_vars

-----------------------------------------------------------------------------
(* Properties *)

\* A role or a binding whose creation was answered with success is gone when
\* the request is answered, however the validation went on and whether or not the
\* client is still there, unless its own deletion failed. One that was made
\* although its creation ended with an error stays (validateUserIsMemberOfAdGroups):
\* the property does not promise that it is removed.
RolesAreRemoved ==
    \A r \in Requests : requests[r].pc = "done" =>
        /\ r \in roles => "role" \in requests[r].adrift
        /\ r \in bindings => "binding" \in requests[r].adrift

\* What is stored over an existing registration differs from it, as it is at
\* that moment, only in the fields the operation may change and the request
\* brought: no other request's change is undone and its identity is kept.
MayChange(q) ==
    CASE q.op = "Change" -> {"sharedSecret", "adGroups", "owner"}
      [] q.op = "Modify" -> DOMAIN q.patch
      [] q.op = "RegenerateSecret" -> {"sharedSecret"}
      [] OTHER -> {}

OnlyRequested ==
    [][Exists /\ registration' # registration /\ registration' # NoRegistration =>
          \E r \in Requests :
              /\ requests'[r].pc = "done" /\ requests[r].pc = "store"
              /\ <<registration'.appID, registration'.creator>> = <<registration.appID, registration.creator>>
              /\ \A f \in Fields : registration'.fields[f] # registration.fields[f] =>
                    /\ f \in MayChange(requests[r])
                    /\ registration'.fields[f] \in {r, Empty}]_vars

\* A registration that gains a warning was stored by a request that
\* acknowledged it: what was validated is what is stored, as far as the
\* warnings go, also when others change it in between.
WarningsAreAcknowledged ==
    [][registration' # NoRegistration /\ Warns(registration') /\ ~(Exists /\ Warns(registration)) =>
          \E r \in Requests : requests'[r].pc = "done" /\ requests[r].pc = "store" /\ requests[r].acknowledged]_vars
==============================================================================
