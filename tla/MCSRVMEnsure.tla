---------------------------- MODULE MCSRVMEnsure ----------------------------
(* A small instance of SRVMEnsure. *)
EXTENDS SRVMEnsure

\* A MAG-c of two cards and a vSIM of one.
MagcVsim      == {"magc-1", "vsim-1"}
MagcVsimKinds == [c \in MagcVsim |-> IF c = "magc-1" THEN "magc" ELSE "vsim"]
MagcVsimSlots == [c \in MagcVsim |-> IF c = "magc-1" THEN {"A", "1"} ELSE {"A"}]
Distributed   == [c \in MagcVsim |-> IF c = "magc-1" THEN "VSR" ELSE "SR-7"]
OwnChassis    == [c \in MagcVsim |-> [s \in MagcVsimSlots[c] |-> Distributed[c]]]

\* The KNLConfig gives both loader images; before it is loaded GCONF has none.
BothLoaders == {Loaders}

=============================================================================
