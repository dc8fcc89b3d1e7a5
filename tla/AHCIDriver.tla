----------------------------- MODULE AHCIDriver -----------------------------
(***************************************************************************)
(* The disk driver of src/hal/ahci.hpp and the host adapter it polls.      *)
(*                                                                         *)
(* The driver has one command slot, one command table and no interrupt: a  *)
(* call fills the table, waits a bounded time for the port to be ready,    *)
(* sets PxCI and then looks in turn at PxCI and at PxIS until one of them  *)
(* answers.  The adapter fetches the table when it sees PxCI, transfers    *)
(* and clears PxCI, or reports a task file error and stops with PxCI set.  *)
(* The adapter and the drive are external: they are modelled from what the *)
(* driver waits for.                                                       *)
(***************************************************************************)
EXTENDS Integers

CONSTANTS
    Lbas,          \* sectors
    Values,        \* contents of a sector
    None,          \* no command
    SpinLimit,     \* polls of PxTFD before a call gives up (1000000)
    StaleStatus,   \* whether firmware may have left PxIS.TFES set
    MaxCalls       \* bound on the number of calls

Requests == [op : {"read"}, lba : Lbas] \cup [op : {"write"}, lba : Lbas, value : Values]

ASSUME DriverAssumption ==
    /\ SpinLimit \in Nat \ {0}
    /\ StaleStatus \subseteq BOOLEAN
    /\ MaxCalls \in Nat
    /\ None \notin Requests
    /\ None \notin [request : Requests, served : BOOLEAN]

VARIABLES
    pc,            \* where the driver stands
    active_port,   \* active_port_: -1, or the port that has a drive
    request,       \* the arguments of issue_command
    spin,          \* spin
    result,        \* what the last call returned
    cmd_table,     \* cmd_list_[0] and cmd_table_: the command laid out for the adapter
    engine,        \* PxCMD: ST and FRE set, cleared with CR or FR still set, or at rest
    ci,            \* bit 0 of PxCI
    tfes,          \* PxIS.TFES
    busy,          \* PxTFD.BSY or PxTFD.DRQ
    command,       \* the command the adapter has fetched
    stopped,       \* the adapter stopped on an error
    medium,        \* the sectors
    memory,        \* the caller's buffer
    served,        \* history: the transfer of this call has happened
    calls          \* calls so far

callVars == <<request, result, spin>>
driverVars == <<pc, active_port, cmd_table, callVars>>
portVars == <<engine, ci, tfes, busy, command, stopped>>
dataVars == <<medium, memory>>
ahciHistory == <<served, calls>>
outside == <<portVars, dataVars, ahciHistory>>
ahciVars == <<driverVars, outside>>

DriverTypeOK ==
    /\ pc \in {"boot", "stopping", "idle", "spinning", "issuing", "poll_ci", "poll_is"}
    /\ active_port \in {-1, 0}
    /\ spin \in 0 .. SpinLimit
    /\ engine \in {"running", "stopping", "resting"}
    /\ {request, cmd_table, command} \subseteq {None} \cup Requests
    /\ {result, ci, tfes, busy, stopped, served} \subseteq BOOLEAN
    /\ medium \in [Lbas -> Values]
    /\ memory \in Values

\* Firmware has used the port and left it running; the drive may still be busy.
DriverInit ==
    /\ pc = "boot"
    /\ active_port = -1
    /\ request = None /\ cmd_table = None /\ command = None
    /\ spin = 0
    /\ engine = "running"
    /\ tfes \in StaleStatus
    /\ busy \in BOOLEAN
    /\ result = FALSE /\ ci = FALSE /\ stopped = FALSE
    /\ medium \in [Lbas -> Values]
    /\ memory \in Values
    /\ served = FALSE
    /\ calls = 0

-----------------------------------------------------------------------------
(* initialize and setup_port *)

\* No implemented port reports a drive: the driver stays without a port.
FindNoDrive ==
    /\ pc = "boot"
    /\ pc' = "idle"
    /\ UNCHANGED <<active_port, cmd_table, callVars, outside>>

\* The first port with a drive is taken and told to stop.  GHC.AE is set; nothing
\* is reset, and PxIS is left as it is.
FindDrive ==
    /\ pc = "boot"
    /\ pc' = "stopping"
    /\ active_port' = 0
    /\ engine' = "stopping"
    /\ UNCHANGED <<cmd_table, callVars, ci, tfes, busy, command, stopped, dataVars,
                   ahciHistory>>

\* The loop on CR and FR has no bound.  Then the list and the table are allocated
\* and the port is started.
StartPort ==
    /\ pc = "stopping"
    /\ engine = "resting"
    /\ pc' = "idle"
    /\ engine' = "running"
    /\ UNCHANGED <<active_port, cmd_table, callVars, ci, tfes, busy, command, stopped,
                   dataVars, ahciHistory>>

-----------------------------------------------------------------------------
(* read, write: issue_command *)

\* The buffer of a write is filled by the caller; the table is laid out before
\* the port is looked at.
Call(r) ==
    /\ pc = "idle"
    /\ calls < MaxCalls
    /\ calls' = calls + 1
    /\ request' = r
    /\ memory' = IF r.op = "write" THEN r.value ELSE memory
    /\ served' = FALSE
    /\ spin' = 0
    /\ IF active_port = -1
       THEN pc' = "issuing" /\ UNCHANGED cmd_table
       ELSE pc' = "spinning" /\ cmd_table' = r
    /\ UNCHANGED <<active_port, result, portVars, medium>>

Goto(place) == pc' = place /\ UNCHANGED <<request, result>>

Answer(ok) ==
    /\ pc' = "idle"
    /\ request' = None
    /\ result' = ok

\* Without a port nothing is tried.
NoPort ==
    /\ pc = "issuing"
    /\ active_port = -1
    /\ Answer(FALSE)
    /\ UNCHANGED <<active_port, cmd_table, spin, outside>>

\* A wait without its bound (kept for mutation).
SpinForever ==
    /\ pc = "spinning"
    /\ busy
    /\ spin' = spin + 1
    /\ UNCHANGED <<pc, request, result, active_port, cmd_table, outside>>

Spin ==
    /\ pc = "spinning"
    /\ busy
    /\ spin < SpinLimit
    /\ spin' = spin + 1
    /\ UNCHANGED <<pc, request, result, active_port, cmd_table, outside>>

\* The bound decides even when the port became ready on the last poll.
GiveUp ==
    /\ pc = "spinning"
    /\ spin = SpinLimit
    /\ Answer(FALSE)
    /\ UNCHANGED <<active_port, cmd_table, spin, outside>>

\* A busy port taken for ready (kept for mutation).
PortTaken ==
    /\ pc = "spinning"
    /\ spin < SpinLimit
    /\ Goto("issuing")
    /\ UNCHANGED <<active_port, cmd_table, spin, outside>>

PortReady ==
    /\ pc = "spinning"
    /\ ~ busy
    /\ spin < SpinLimit
    /\ Goto("issuing")
    /\ UNCHANGED <<active_port, cmd_table, spin, outside>>

Issue ==
    /\ pc = "issuing"
    /\ active_port # -1
    /\ ci' = TRUE
    /\ Goto("poll_ci")
    /\ UNCHANGED <<active_port, cmd_table, spin, engine, tfes, busy, command, stopped,
                   dataVars, ahciHistory>>

\* The command taken as done once it is issued (kept for mutation).
PollCiOnce ==
    /\ pc = "poll_ci"
    /\ Answer(TRUE)
    /\ UNCHANGED <<active_port, cmd_table, spin, outside>>

PollCi ==
    /\ pc = "poll_ci"
    /\ IF ci THEN Goto("poll_is") ELSE Answer(TRUE)
    /\ UNCHANGED <<active_port, cmd_table, spin, outside>>

\* The error bit not looked at, and a wait that is given up (kept for mutation).
PollIsBlind ==
    /\ pc = "poll_is"
    /\ Goto("poll_ci")
    /\ UNCHANGED <<active_port, cmd_table, spin, outside>>
PollIsImpatient ==
    /\ pc = "poll_is"
    /\ Answer(FALSE)
    /\ UNCHANGED <<active_port, cmd_table, spin, outside>>

\* PxIS is read and never written back to clear it.
PollIs ==
    /\ pc = "poll_is"
    /\ IF tfes THEN Answer(FALSE) ELSE Goto("poll_ci")
    /\ UNCHANGED <<active_port, cmd_table, spin, outside>>

Driver ==
    \/ FindNoDrive \/ FindDrive \/ StartPort
    \/ NoPort \/ Spin \/ GiveUp \/ PortReady \/ Issue \/ PollCi \/ PollIs

-----------------------------------------------------------------------------
(* The adapter and the drive *)

\* After ST and FRE are cleared CR and FR follow.
EnginesStop ==
    /\ engine = "stopping"
    /\ engine' = "resting"
    /\ UNCHANGED <<driverVars, ci, tfes, busy, command, stopped, dataVars, ahciHistory>>

\* A drive that was busy at power-on comes ready.
DriveReady ==
    /\ busy
    /\ command = None
    /\ busy' = FALSE
    /\ UNCHANGED <<driverVars, engine, ci, tfes, command, stopped, dataVars, ahciHistory>>

FetchTable ==
    /\ engine = "running" /\ ci /\ ~ stopped /\ ~ busy
    /\ command = None
    /\ command' = cmd_table
    /\ busy' = TRUE
    /\ UNCHANGED <<driverVars, engine, ci, tfes, stopped, dataVars, ahciHistory>>

Transfer ==
    /\ served' = TRUE
    /\ IF command.op = "write"
       THEN medium' = [medium EXCEPT ![command.lba] = memory] /\ UNCHANGED memory
       ELSE memory' = medium[command.lba] /\ UNCHANGED medium

Complete ==
    /\ command # None
    /\ Transfer
    /\ command' = None
    /\ ci' = FALSE
    /\ busy' = FALSE
    /\ UNCHANGED <<driverVars, engine, tfes, stopped, calls>>

\* A task file error, with the transfer done or not: PxCI stays set and the
\* adapter fetches nothing more.
Fail ==
    /\ command # None
    /\ Transfer \/ UNCHANGED <<served, dataVars>>
    /\ command' = None
    /\ busy' = FALSE
    /\ tfes' = TRUE
    /\ stopped' = TRUE
    /\ UNCHANGED <<driverVars, engine, ci, calls>>

Adapter == EnginesStop \/ DriveReady \/ FetchTable \/ Complete \/ Fail

-----------------------------------------------------------------------------
DriverNext == Driver \/ Adapter \/ \E r \in Requests : Call(r)

\* The driver's own code keeps running; the adapter stops its engines, and
\* answers a command it was given.
Fairness ==
    /\ WF_ahciVars(Driver)
    /\ WF_ahciVars(EnginesStop) /\ WF_ahciVars(FetchTable) /\ WF_ahciVars(Complete \/ Fail)

DriverSpec == DriverInit /\ [][DriverNext]_ahciVars /\ Fairness

-----------------------------------------------------------------------------
(* Properties *)

Disk == INSTANCE SectorDisk WITH
    pending <- IF request = None THEN None ELSE [request |-> request, served |-> served]

\* With no error status left by firmware, the driver and the adapter together are
\* a SectorDisk: a call reported done was carried out, with this call's sector and
\* data, between its start and its return.
ImplementsSectorDisk == Disk!Spec

\* While no call is in progress the adapter holds no command: it moves nothing
\* into or out of a buffer its owner has taken back.
QuietWhenIdle == request = None => command = None /\ (ci => stopped)

\* The loop that waits for an answer has no bound, and it needs none: while it runs,
\* one of the two bits it looks at says that it is over, or the adapter works on the
\* command, or nothing keeps the adapter from fetching it.
PollHasAnAnswer ==
    pc \in {"poll_ci", "poll_is"} =>
        \/ ~ci \/ tfes
        \/ command # None
        \/ engine = "running" /\ ~stopped /\ ~busy

\* Every call returns, whether the drive is missing, busy, working or failing.
CallsReturn == (request # None) ~> (request = None)

=============================================================================
