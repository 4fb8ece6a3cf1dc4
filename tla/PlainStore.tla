----------------------------- MODULE PlainStore -----------------------------
(***************************************************************************)
(* What the artifact store and the output writer promise: named artifacts  *)
(* whose bytes never change, whatever their storage, and an output that is *)
(* a prefix of one artifact, all of it on success.  An artifact has a field  *)
(* bytes, its length.                                                      *)
(***************************************************************************)
EXTENDS Integers

CONSTANTS Ids, Artifacts
VARIABLES contents, output, result
vars == <<contents, output, result>>

NoOutput == [ref |-> "none", length |-> 0]

Init ==
    /\ contents \in UNION {[held -> Artifacts] : held \in SUBSET Ids}
    /\ output = NoOutput /\ result = "none"

\* A task's result joins the store under its id, an artifact leaves it.
Put ==
    /\ result = "none" /\ output = NoOutput
    /\ \E id \in Ids, artifact \in Artifacts :
           contents' = [i \in DOMAIN contents \cup {id} |->
                            IF i = id THEN artifact ELSE contents[i]]
    /\ UNCHANGED <<output, result>>
Drop ==
    /\ result = "none" /\ output = NoOutput
    /\ \E id \in DOMAIN contents :
           contents' = [i \in DOMAIN contents \ {id} |-> contents[i]]
    /\ UNCHANGED <<output, result>>

Open ==
    /\ result = "none" /\ output = NoOutput
    /\ \E id \in DOMAIN contents : output' = [ref |-> id, length |-> 0]
    /\ UNCHANGED <<contents, result>>
Extend ==
    /\ result = "none" /\ output # NoOutput
    /\ \E n \in (output.length + 1)..contents[output.ref].bytes :
           output' = [output EXCEPT !.length = n]
    /\ UNCHANGED <<contents, result>>

Succeed ==
    /\ result = "none" /\ output # NoOutput
    /\ output.length = contents[output.ref].bytes
    /\ result' = "ok" /\ UNCHANGED <<contents, output>>
Fail ==
    /\ result = "none" /\ result' \notin {"none", "ok"}
    /\ UNCHANGED <<contents, output>>

Next == Put \/ Drop \/ Open \/ Extend \/ Succeed \/ Fail
Spec == Init /\ [][Next]_vars
=============================================================================
