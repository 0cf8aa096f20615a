------------------------------ MODULE PortLease ------------------------------
(***************************************************************************)
(* What serial_new and serial_destory promise: a serial device is leased   *)
(* either to one holder, or to any number of holders that all agreed to    *)
(* share it and to its settings.                                           *)
(***************************************************************************)
EXTENDS Naturals

CONSTANTS Device, Setting

VARIABLE lease         (* who holds a device, and on which terms            *)

Terms == [setting : Setting, shared : BOOLEAN]

(* Nobody holds it: the terms of the next lease are open. *)
Vacant == [terms |-> {}, holders |-> 0]

Init == lease = [d \in Device |-> Vacant]

Grant(d) ==
  /\ lease[d] = Vacant
  /\ \E terms \in Terms : lease' = [lease EXCEPT ![d] = [terms |-> {terms}, holders |-> 1]]

Join(d) ==
  /\ \E terms \in Terms : lease[d].terms = {terms} /\ terms.shared
  /\ lease' = [lease EXCEPT ![d].holders = @ + 1]

Leave(d) ==
  LET left == lease[d].holders - 1
  IN  /\ lease[d].holders > 0
      /\ lease' = [lease EXCEPT ![d] = IF left = 0 THEN Vacant ELSE [@ EXCEPT !.holders = left]]

Next == \E d \in Device : Grant(d) \/ Join(d) \/ Leave(d)

Spec == Init /\ [][Next]_lease

=============================================================================
