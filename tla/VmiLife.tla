------------------------------ MODULE VmiLife ------------------------------
(***************************************************************************)
(* What createIfNotExistsOrFailedOrRemove promises of a                    *)
(* VirtualMachineInstance: it is started, it may end, and it is taken away *)
(* only when it has ended or its Lab is no more; another starts when it is *)
(* gone.  SRVMEnsure and NodeEnsure implement this.                        *)
(***************************************************************************)
CONSTANT VMs

VARIABLES
  st,    \* of each VM: "off", "on", "ended" or "ending" (being deleted)
  kept   \* the VMs whose Lab is there

vars == <<st, kept>>

Init == st = [x \in VMs |-> "off"] /\ kept \in SUBSET VMs

Move(x, from, to) == st[x] = from /\ st' = [st EXCEPT ![x] = to]

Start(x)  == Move(x, "off", "on") /\ kept' \in SUBSET VMs
End(x)    == Move(x, "on", "ended") /\ UNCHANGED kept
Remove(x) == /\ Move(x, "ended", "ending") \/ (x \notin kept /\ Move(x, "on", "ending"))
             /\ UNCHANGED kept
Gone(x)   == Move(x, "ending", "off") /\ kept' \in SUBSET VMs

\* Labs are created and deleted.
Relabel == kept' \in SUBSET VMs /\ UNCHANGED st

Next == Relabel \/ \E x \in VMs : Start(x) \/ End(x) \/ Remove(x) \/ Gone(x)

Spec == Init /\ [][Next]_vars

=============================================================================
