---------------------------- MODULE TopologicalVM ----------------------------
(***************************************************************************)
(* The virtual machine of src/core/tvm.hpp: the guest's image lies in the  *)
(* manifold, and so do the handlers of its exits, one atom for each exit   *)
(* reason.  The guest runs outside this repository; each of its exits is   *)
(* one step.  An exit to halt, given a storage service, only makes the     *)
(* service look ahead (UtilizeIdleCycles of StorageStack) and changes      *)
(* nothing here.  vmexits_, which is only counted, is left out, and what a *)
(* handler does is what the clients of the manifold do.                    *)
(***************************************************************************)
EXTENDS AddressedManifold

CONSTANTS
    DispatchRoot,  \* HYPERVISOR_DISPATCH_ROOT
    GuestBase,     \* where load_guest puts the image (0x1000)
    ImageSizes,    \* sizes of images, in atoms
    ImageAtom,     \* what an image's atoms hold
    Reasons,       \* the exit reasons a guest causes
    HltReason,     \* exit reason 12
    Handlers       \* the atoms installed as handlers

ASSUME MachineAssumption ==
    /\ ImageAtom \in Values /\ Handlers \subseteq Values
    /\ Reasons \subseteq Nat /\ ImageSizes \subseteq Nat

VARIABLES
    is_active,  \* is_active_
    service,    \* preemption_service_ is not null
    called      \* history: the reason of the last exit, and the handler called or None

vmVars == <<is_active, service, called>>

VmInit == is_active = FALSE /\ service \in BOOLEAN /\ called = None

DispatchVaddr(reason) == DispatchRoot + reason * LensCount

ASSUME PlacesAssumption ==
    /\ DispatchRoot \in Nat
    /\ \A reason \in Reasons : Addressed(DispatchVaddr(reason), 1)
    /\ \A atoms \in ImageSizes : Addressed(GuestBase, atoms)

LoadGuest(atoms) ==
    /\ Store(GuestBase, atoms, ImageAtom)
    /\ is_active' = TRUE /\ UNCHANGED <<service, called>>

\* Handlers are stored through the manifold like everything else.
InstallHandler(reason, handler) ==
    Store(DispatchVaddr(reason), 1, handler) /\ UNCHANGED vmVars

\* Error: the route of the handler's atom is not looked at.
StopsOnNull(atom) == atom.lo = 0

Stops(atom) == atom.route \in {HALT_ROUTE, ERROR_ROUTE} \/ atom.lo = 0

\* One round of the loop in run().
GuestExit(reason) ==
    LET atom == Fetch(DispatchVaddr(reason))
    IN  /\ is_active /\ ~(reason = HltReason /\ service)
        /\ Counted /\ UNCHANGED <<addressedVars, service>>
        /\ is_active' = ~Stops(atom)
        /\ called' = [reason |-> reason, handler |-> IF Stops(atom) THEN None ELSE atom.lo]

VmNext ==
    \/ \E atoms \in ImageSizes : LoadGuest(atoms)
    \/ \E reason \in Reasons : GuestExit(reason) \/ \E h \in Handlers : InstallHandler(reason, h)

-----------------------------------------------------------------------------
(***************************************************************************)
(* While the clients' blocks fit the pool, an exit calls the handler last  *)
(* installed for its reason and nothing else, and the guest is stopped     *)
(* only by an atom that says so: one with a halt or error route or without *)
(* a handler, or none at all in a block nobody uses.                       *)
(***************************************************************************)
ExitsReachTheirHandlers ==
    [][\A reason \in Reasons :
          LET due == Owed(DispatchVaddr(reason))
              ends == due.route \in {HALT_ROUTE, ERROR_ROUTE} \/ due.lo = 0
          IN  GuestExit(reason) /\ Undisturbed /\ due # None =>
                /\ is_active' = ~ends
                /\ ~ends => called' = [reason |-> reason, handler |-> due.lo]]_vmVars
=============================================================================
