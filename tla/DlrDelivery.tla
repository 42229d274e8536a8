----------------------------- MODULE DlrDelivery -----------------------------
(***************************************************************************)
(* What a download promises its caller, whatever the network, the store    *)
(* and the disk do meanwhile: either it is delivered, and the file is one  *)
(* whole content that the store has offered, or it fails and there is no   *)
(* file to install from.  Nobody is told when the disk loses the end of a  *)
(* file as it is closed: then what is left is the beginning of one.        *)
(***************************************************************************)
EXTENDS Integers, Sequences

CONSTANTS
    Archives, Absent,
    Cuts       \* TRUE: closing a file may lose its end

VARIABLES
    offered,   \* contents the store has offered so far
    result,    \* "none" until the current download is decided
    file       \* what the caller may install from, or Absent

vars == <<offered, result, file>>

Init ==
    /\ \E a \in Archives : offered = {a}
    /\ result = "none"
    /\ file = Absent

Offer ==
    /\ \E a \in Archives : offered' = offered \cup {a}
    /\ UNCHANGED <<result, file>>

Begin ==
    /\ result' = "none"
    /\ file' = Absent
    /\ UNCHANGED offered

Deliver ==
    /\ result = "none"
    /\ result' = "delivered"
    /\ file' \in offered
    /\ UNCHANGED offered

Damage ==
    /\ Cuts
    /\ result = "none"
    /\ result' = "damaged"
    /\ \E a \in offered : \E n \in 0..Len(a) : file' = SubSeq(a, 1, n)
    /\ UNCHANGED offered

Fail ==
    /\ result' = "failed"
    /\ file' = Absent
    /\ UNCHANGED offered

Next == Offer \/ Begin \/ Deliver \/ Damage \/ Fail

Spec == Init /\ [][Next]_vars
=============================================================================
