----------------------------- MODULE SectorDisk -----------------------------
(***************************************************************************)
(* What a caller of SubstrateIO may rely on (src/vdev/substrate_io.hpp): a *)
(* transfer happens at one moment between the call and its return, or not  *)
(* at all; when it is reported done it has happened; and nothing moves     *)
(* between the medium and memory once the call has returned.               *)
(***************************************************************************)
CONSTANTS
    Lbas,      \* sectors
    Values,    \* contents of a sector
    None       \* no call

VARIABLES
    medium,    \* the sectors
    memory,    \* the caller's buffer
    pending,   \* None, or the call and whether its transfer has happened
    result     \* what the last call reported

vars == <<medium, memory, pending, result>>

Requests == [op : {"read"}, lba : Lbas] \cup [op : {"write"}, lba : Lbas, value : Values]

TypeOK ==
    /\ medium \in [Lbas -> Values]
    /\ memory \in Values
    /\ pending \in {None} \cup [request : Requests, served : BOOLEAN]
    /\ result \in BOOLEAN

Init ==
    /\ medium \in [Lbas -> Values]
    /\ memory \in Values
    /\ pending = None
    /\ result = FALSE

\* The buffer of a write is filled by the caller before the call.
Ask(r) ==
    /\ pending = None
    /\ pending' = [request |-> r, served |-> FALSE]
    /\ memory' = IF r.op = "write" THEN r.value ELSE memory
    /\ UNCHANGED <<medium, result>>

Serve ==
    /\ pending # None
    /\ ~ pending.served
    /\ pending' = [pending EXCEPT !.served = TRUE]
    /\ IF pending.request.op = "write"
       THEN medium' = [medium EXCEPT ![pending.request.lba] = memory] /\ UNCHANGED memory
       ELSE memory' = medium[pending.request.lba] /\ UNCHANGED medium
    /\ UNCHANGED result

Return(ok) ==
    /\ pending # None
    /\ ok => pending.served
    /\ pending' = None
    /\ result' = ok
    /\ UNCHANGED <<medium, memory>>

Next == Serve \/ (\E r \in Requests : Ask(r)) \/ (\E ok \in BOOLEAN : Return(ok))

Spec == Init /\ [][Next]_vars
=============================================================================
