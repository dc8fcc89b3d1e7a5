------------------------------- MODULE MCBoot -------------------------------
(***************************************************************************)
(* An arena of twelve alignment units of four bytes with its start off the *)
(* alignment; frames that leave room exactly, that crowd out the pool, and *)
(* that are refused themselves.                                            *)
(***************************************************************************)
EXTENDS Boot

MCSizes == {0, 1, 9, 12, 16, 44}

Absent == [ahci |-> FALSE, bar5 |-> 0]
Adapter(bar) == [ahci |-> TRUE, bar5 |-> bar]
Tag(type, bytes) == [type |-> type, bytes |-> bytes]

\* VMX comes with MSR 0x3A, and only with it can firmware have set the MSR.
Sensible(m) == m.msr \/ (~m.vmx /\ m.feature = "unlocked")

MCMachines == {m \in
    [pci : {<<Absent>>, <<Absent, Adapter(1)>>, <<Adapter(0), Adapter(1)>>},
     drive : BOOLEAN, uart : BOOLEAN,
     tags : {<<>>, <<Tag(8, 12)>>, <<Tag(1, 0), Tag(8, 44), Tag(8, 9), Tag(0, 0), Tag(8, 16)>>,
             <<Tag(8, 16)>>, <<Tag(8, 44)>>, <<Tag(0, 0)>>},
     msr : BOOLEAN, feature : {"unlocked", "off", "on"}, vmx : BOOLEAN] : Sensible(m)}
=============================================================================
