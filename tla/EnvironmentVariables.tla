------------------------ MODULE EnvironmentVariables ------------------------
(***************************************************************************)
(* Changing the environment variables of a component                       *)
(* (api/environmentvariables/env_vars_handler.go).                         *)
(*                                                                         *)
(* The values are one ConfigMap, and what radixconfig.yaml says of those   *)
(* that were changed is another, the metadata. A change reads both, and    *)
(* patches one after the other.                                            *)
(***************************************************************************)
EXTENDS Naturals, FiniteSets

CONSTANTS
    Requests,     \* bound: the requests, each of which is made once
    Variables,    \* environment variables
    Reserved,     \* those of Radix itself, which nobody may change
    ChangesOf,    \* bound: the variables each request may change
    Words,        \* values
    Folded        \* Folded[w]: w as EqualFold compares it

None == "none"    \* no such variable, no metadata

VARIABLES
    data,         \* the ConfigMap with the values
    metadata,     \* RadixConfigValue of each variable
    config,       \* the values in radixconfig.yaml
    alone,        \* every change so far was made alone and to its end
    requests      \* the requests under way

vars == <<data, metadata, config, alone, requests>>

Idle == [pc |-> "idle", change |-> <<>>, data |-> <<>>, metadata |-> <<>>, answer |-> None]
UnderWay == {r \in Requests : requests[r].pc \notin {"idle", "done"}}

Set(r, q) == requests' = [requests EXCEPT ![r] = q]
Answer(r, a) == Set(r, [Idle EXCEPT !.pc = "done", !.answer = a])

\* A change gives new values to some variables, known or not.
ChangeEnvVar(r) ==
    /\ requests[r].pc = "idle"
    /\ \E change \in UNION {[V -> Words] : V \in SUBSET ChangesOf[r]} :
          Set(r, [Idle EXCEPT !.pc = "read", !.change = change])
    /\ alone' = (alone /\ UnderWay = {})
    /\ UNCHANGED <<data, metadata, config>>

-----------------------------------------------------------------------------
(* The loop over the parameters, which name different variables *)

\* mutant: the variables of Radix may be changed like others
MutantChanged(change) == DOMAIN change

Changed(change) == DOMAIN change \ Reserved
Known(change, read) == {v \in Changed(change) : read[v] # None}

DesiredData(change, read) ==
    [v \in Variables |-> IF v \in Known(change, read) THEN change[v] ELSE read[v]]

\* mutant: what is remembered is the value before the latest change
MutantDesiredMetadata(change, read, meta) ==
    [v \in Variables |->
        IF v \notin Changed(change) THEN meta[v]
        ELSE IF read[v] = None THEN None
        ELSE IF meta[v] # None /\ Folded[meta[v]] = Folded[change[v]] THEN None
        ELSE IF Folded[read[v]] # Folded[change[v]] THEN read[v]
        ELSE meta[v]]

\* A variable that is not there loses its metadata, and so does one that gets
\* back the value of radixconfig.yaml; the first change of a variable is told
\* by its having none.
DesiredMetadata(change, read, meta) ==
    [v \in Variables |->
        IF v \notin Changed(change) THEN meta[v]
        ELSE IF read[v] = None THEN None
        ELSE IF meta[v] # None THEN (IF Folded[meta[v]] = Folded[change[v]] THEN None ELSE meta[v])
        ELSE IF Folded[read[v]] # Folded[change[v]] THEN read[v]
        ELSE None]

Read(r) ==
    LET q == requests[r]
    IN  /\ q.pc = "read"
        /\ \/ Answer(r, "Error")
           \/ Changed(q.change) = {} /\ Answer(r, "OK")
           \/ Changed(q.change) # {} /\ Set(r, [q EXCEPT !.pc = "data", !.data = data, !.metadata = metadata])
        /\ UNCHANGED <<data, metadata, config, alone>>

\* ApplyConfigMap: the variables that differ from what was read are patched. The
\* answer may be lost after that.
Patched(current, read, desired) ==
    [v \in Variables |-> IF desired[v] # read[v] THEN desired[v] ELSE current[v]]

ApplyConfigMap(r) ==
    LET q == requests[r]
    IN  /\ q.pc = "data"
        /\ \/ /\ data' = Patched(data, q.data, DesiredData(q.change, q.data))
              /\ \/ Set(r, [q EXCEPT !.pc = "metadata"]) /\ UNCHANGED alone
                 \/ Answer(r, "Error") /\ alone' = FALSE
           \/ Answer(r, "Error") /\ UNCHANGED <<data, alone>>
        /\ UNCHANGED <<metadata, config>>

\* All metadata is one value of its ConfigMap, replaced as a whole if it differs
\* from what was read. When this fails the values stay changed.
ApplyMetadata(r) ==
    LET q == requests[r]
        desired == DesiredMetadata(q.change, q.data, q.metadata)
    IN  /\ q.pc = "metadata"
        /\ \/ /\ metadata' = IF desired # q.metadata THEN desired ELSE metadata
              /\ Answer(r, "OK") /\ UNCHANGED alone
           \/ Answer(r, "Error") /\ alone' = FALSE /\ UNCHANGED metadata
        /\ UNCHANGED <<data, config>>

-----------------------------------------------------------------------------
(* GetComponentEnvVars *)

\* What is shown of a variable: its value and the one in radixconfig.yaml, if
\* that is known to be another.
Shown(v) == [value |-> data[v], configValue |-> metadata[v]]

Init ==
    /\ config \in [Variables -> Words \cup {None}]
    /\ data = config /\ metadata = [v \in Variables |-> None]
    /\ alone = TRUE
    /\ requests = [r \in Requests |-> Idle]

Step(r) == Read(r) \/ ApplyConfigMap(r) \/ ApplyMetadata(r)
Next == \E r \in Requests : ChangeEnvVar(r) \/ Step(r)
Spec == Init /\ [][Next]_vars

\* Between changes that were made alone and to their end, however many: a
\* variable is shown with the value that radixconfig.yaml has for it exactly
\* when that is another (ChangeEnvVar).
ConfigValueIsShown ==
    alone /\ UnderWay = {} =>
        \A v \in Variables : Shown(v).configValue = IF data[v] # config[v] THEN config[v] ELSE None

\* models/env_var_metadata.go:6: what is shown as the value in radixconfig.yaml
\* is that value. Two values that differ by case are another matter.
ConfigValueIsTrue ==
    alone /\ UnderWay = {} =>
        \A v \in Variables : Shown(v).configValue \in {None, config[v]}

\* Changes that meet undo none of each other's values: a variable only ever
\* gets the value of a request that names it, and the variables of Radix and
\* unknown ones never change (ChangeEnvVar).
OnlyNamedChange ==
    [][\A v \in Variables : data'[v] # data[v] =>
          /\ v \notin Reserved /\ data[v] # None
          /\ \E r \in UnderWay :
                v \in DOMAIN requests[r].change /\ data'[v] = requests[r].change[v]]_vars
=============================================================================
