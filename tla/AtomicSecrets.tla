----------------------------- MODULE AtomicSecrets -----------------------------
(***************************************************************************)
(* What clients are promised of the secrets: a change takes effect at one  *)
(* instant, on all the keys it names and on no other, or not at all; a     *)
(* change that is answered with success has taken effect.  An error does   *)
(* not tell: the answer to an update that was made may have been lost.     *)
(* Besides the clients only the Radix operator writes, and it never writes *)
(* a value of a client.                                                    *)
(***************************************************************************)
CONSTANTS
  Secrets,   \* secret objects
  Keys,      \* keys of their data
  Requests,  \* requests; a request writes its own name as the value
  Changes,   \* what a request may ask for: a secret and some of its keys
  Absent,    \* the value of a key that is not there
  Default    \* the value the operator gives to a key that is not set yet

VARIABLES contents, change, answer

vars == <<contents, change, answer>>

Init ==
  /\ contents \in [Secrets -> [Keys -> {Absent, Default}]]
  /\ change \in [Requests -> Changes]
  /\ answer = [r \in Requests |-> "none"]

Overlay(data, keys, r) == [k \in Keys |-> IF k \in keys THEN r ELSE data[k]]

Apply(r) ==
  /\ answer[r] = "none"
  /\ contents' = [contents EXCEPT ![change[r].secret] = Overlay(@, change[r].keys, r)]
  /\ \E a \in {"ok", "error"} : answer' = [answer EXCEPT ![r] = a]
  /\ UNCHANGED change

Refuse(r) ==
  /\ answer[r] = "none"
  /\ answer' = [answer EXCEPT ![r] = "error"]
  /\ UNCHANGED <<contents, change>>

Operator(s) ==
  /\ \E data \in [Keys -> {contents[s][k] : k \in Keys} \union {Absent, Default}] :
       /\ \A k \in Keys : data[k] \in {contents[s][k], Absent, Default}
       /\ contents' = [contents EXCEPT ![s] = data]
  /\ UNCHANGED <<change, answer>>

Next ==
  \/ \E r \in Requests : Apply(r) \/ Refuse(r)
  \/ \E s \in Secrets : Operator(s)

Spec == Init /\ [][Next]_vars
=============================================================================
