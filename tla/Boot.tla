-------------------------------- MODULE Boot --------------------------------
(***************************************************************************)
(* kmain of src/boot/kmain.cpp from the first line to the menu, with the   *)
(* buffers it takes from the allocator this module extends:                *)
(*   find_ahci_base of src/hal/pci.hpp and setup_port of src/hal/ahci.hpp, *)
(*   the multiboot tags and initialize of src/hal/vga.hpp,                 *)
(*   VMXController of src/core/vmx_impl.hpp,                               *)
(*   the access key and the manifold's pool.                               *)
(*                                                                         *)
(* The machine is chosen in the initial state.  A refused request is a     *)
(* null pointer the code goes on with: page 0 is mapped, and only the      *)
(* frame buffer is large enough to run from there into the kernel ("wild").*)
(***************************************************************************)
EXTENDS PhysicalMemory, SequencesExt

CONSTANTS
    SmallSize,   \* the command list, its table, the FIS area and the VMX regions
    PoolBytes,   \* the manifold's pool
    Machines,    \* the machines that are started
    Null         \* no buffer, no region

ASSUME BootAssumption ==
    /\ SmallSize \in Sizes /\ SmallSize > 0 /\ SmallSize <= Align
    /\ PoolBytes \in Sizes /\ MaxGrants >= 7 /\ Null \notin Nat

VARIABLES
    machine,    \* pci: the functions 0 in scan order; drive: a port with a drive;
                \* uart: bit 5 of the byte at g_mmio_uart_base + 5; tags: the multiboot
                \* tags, or none for another magic; msr, feature, vmx: MSR 0x3A exists,
                \* what it says, and CPUID's VMX bit
    pc,         \* what kmain does next
    engines,    \* the port's engines run
    buffers,    \* every pointer to a buffer, once it is set
    vmx_on,     \* the region VMXON was given
    vmcs,       \* the region VMPTRLD was given
    vmx_ready

bootVars == <<pmmVars, machine, pc, engines, buffers, vmx_on, vmcs, vmx_ready>>
vmxVars == <<vmx_on, vmcs, vmx_ready>>

Buffers == {"cmd_list", "fis_base", "cmd_table", "back_buffer", "vmxon_region",
            "vmcs_region", "cache_pool"}

BootInit ==
    /\ Init /\ machine \in Machines /\ pc = "pci" /\ engines \in BOOLEAN
    /\ buffers = <<>> /\ vmx_on = Null /\ vmcs = Null /\ vmx_ready = FALSE

GoTo(next) == pc' = next /\ UNCHANGED <<machine, engines>>

Pointing(name, base) ==
    [n \in DOMAIN buffers \cup {name} |-> IF n = name THEN base ELSE buffers[n]]

\* allocate for one pointer; nobody looks at the result.
Ask(name, size, next) ==
    /\ \/ Grant(size) /\ buffers' = Pointing(name, Rounded)
       \/ Refuse(size) /\ buffers' = Pointing(name, Null)
    /\ GoTo(next) /\ UNCHANGED vmxVars

-----------------------------------------------------------------------------
\* The BAR of the first AHCI function 0; 0 if there is none.
AhciBase ==
    LET i == SelectInSeq(machine.pci, LAMBDA device : device.ahci)
    IN  IF i = 0 THEN 0 ELSE machine.pci[i].bar5

FindDisk ==
    /\ pc = "pci"
    /\ GoTo(IF AhciBase # 0 /\ machine.drive THEN "port" ELSE "frame")
    /\ UNCHANGED <<pmmVars, buffers, vmxVars>>

\* The adapter stops its engines once ST and FRE are clear.
EnginesStop ==
    /\ pc = "port" /\ engines /\ engines' = FALSE
    /\ UNCHANGED <<pmmVars, machine, pc, buffers, vmxVars>>

SetupPort ==
    \/ pc = "port" /\ ~engines /\ Ask("cmd_list", SmallSize, "fis")
    \/ pc = "fis" /\ Ask("fis_base", SmallSize, "table")
    \/ pc = "table" /\ Ask("cmd_table", SmallSize, "verified")

\* "Hardware Verified on Port": write_char waits for the bit at an address that
\* is memory on this architecture, so nothing ever changes it.
PrintVerified ==
    /\ pc = "verified" /\ machine.uart
    /\ GoTo("frame") /\ UNCHANGED <<pmmVars, buffers, vmxVars>>

\* The last frame buffer tag before the end tag counts.
FrameIn(tags) ==
    LET Take(st, tag) ==
          IF st.ended \/ tag.type = 0 THEN [st EXCEPT !.ended = TRUE]
          ELSE IF tag.type = 8 THEN [st EXCEPT !.bytes = tag.bytes, !.found = TRUE]
          ELSE st
    IN  FoldLeft(Take, [bytes |-> 0, found |-> FALSE, ended |-> FALSE], tags)

ASSUME FrameAssumption == \A m \in Machines : FrameIn(m.tags).bytes \in Sizes

FrameBytes == FrameIn(machine.tags)

SetUpFrame ==
    /\ pc = "frame"
    /\ \/ /\ ~FrameBytes.found
          /\ GoTo("vmxon") /\ UNCHANGED <<pmmVars, buffers, vmxVars>>
       \/ /\ FrameBytes.found
          /\ Ask("back_buffer", FrameBytes.bytes,
                 IF Fits(FrameBytes.bytes) THEN "vmxon" ELSE "wild")

SetUpRegions ==
    \/ pc = "vmxon" /\ Ask("vmxon_region", SmallSize, "vmcs")
    \/ pc = "vmcs" /\ Ask("vmcs_region", SmallSize, "enable")

-----------------------------------------------------------------------------
\* Error: the MSR is written whether or not it is locked.
FaultsIfLocked == ~machine.msr \/ machine.feature # "unlocked" \/ ~machine.vmx

\* VMXController::enable.  MSR 0x3A is read, and written when it is unlocked,
\* before CPUID is asked: without it, or without VMX, that is a #GP, whose
\* handler never returns.
Faults == ~machine.msr \/ (machine.feature = "unlocked" /\ ~machine.vmx)
Enabled == machine.feature # "off" /\ machine.vmx

\* Error: the result of VMXON is not looked at.
EnableUnchecked ==
    /\ pc = "enable" /\ ~Faults /\ Enabled
    /\ GoTo("key") /\ UNCHANGED <<pmmVars, buffers>>
    /\ vmx_on' \in {Null, buffers["vmxon_region"]}
    /\ vmcs' = buffers["vmcs_region"] /\ vmx_ready' = TRUE

GeneralProtection ==
    /\ pc = "enable" /\ Faults
    /\ GoTo("halted") /\ UNCHANGED <<pmmVars, buffers, vmxVars>>

StayOff ==
    /\ pc = "enable" /\ ~Faults /\ ~Enabled
    /\ GoTo("key") /\ UNCHANGED <<pmmVars, buffers, vmxVars>>

\* VMXON may fail, and after it VMPTRLD.
Enable ==
    /\ pc = "enable" /\ ~Faults /\ Enabled
    /\ GoTo("key") /\ UNCHANGED <<pmmVars, buffers>>
    /\ \/ UNCHANGED vmxVars
       \/ vmx_on' = buffers["vmxon_region"] /\ UNCHANGED <<vmcs, vmx_ready>>
       \/ /\ vmx_on' = buffers["vmxon_region"] /\ vmcs' = buffers["vmcs_region"]
          /\ vmx_ready' = TRUE

-----------------------------------------------------------------------------
\* read_password returns once the user has ended a line.
EnterKey ==
    /\ pc = "key"
    /\ GoTo("pool") /\ UNCHANGED <<pmmVars, buffers, vmxVars>>

MakeManifold == pc = "pool" /\ Ask("cache_pool", PoolBytes, "menu")

Kernel ==
    \/ FindDisk \/ SetupPort \/ PrintVerified \/ SetUpFrame \/ SetUpRegions
    \/ GeneralProtection \/ StayOff \/ Enable \/ MakeManifold

BootNext == Kernel \/ EnginesStop \/ EnterKey

\* The kernel runs, the adapter stops its engines, and the user enters a key.
BootSpec ==
    /\ BootInit /\ [][BootNext]_bootVars
    /\ WF_bootVars(Kernel) /\ WF_bootVars(EnginesStop) /\ WF_bootVars(EnterKey)

-----------------------------------------------------------------------------
\* A frame that leaves room for everything else in the arena: each of the five
\* small buffers takes a unit of alignment, and so does the end of the frame.
Up(n) == ((n + Align - 1) \div Align) * Align
FrameLeavesRoom == Up(Start) + 5 * Align + Up(FrameBytes.bytes) + PoolBytes < max_address

(***************************************************************************)
(* With a frame that leaves room no request of the boot is refused, so no  *)
(* pointer is null where the code goes on without looking, and buffers of  *)
(* different names are different blocks.                                   *)
(***************************************************************************)
BuffersAreGranted ==
    FrameLeavesRoom =>
        /\ pc # "wild"
        /\ \A name \in DOMAIN buffers : \E i \in 1 .. Len(grants) : buffers[name] = grants[i].base
        /\ \A a, b \in DOMAIN buffers :
              a # b /\ buffers[a] = buffers[b] => FrameBytes.bytes = 0

(***************************************************************************)
(* VMX_ACCELERATION is shown as enabled only when the processor has VMX,   *)
(* its firmware allows it, and both VMXON and VMPTRLD succeeded, each with *)
(* its own region.                                                         *)
(***************************************************************************)
ReadyMeansOn ==
    vmx_ready =>
        /\ machine.vmx /\ machine.feature # "off"
        /\ FrameLeavesRoom => vmx_on # Null /\ vmcs # Null /\ vmx_on # vmcs

(***************************************************************************)
(* The boot ends in the menu on a machine with MSR 0x3A, with VMX or with  *)
(* the MSR locked, and with the bit write_char waits for or no drive to    *)
(* report: past an adapter whose engines ran, a failing VMXON and a user   *)
(* who takes his time.                                                     *)
(***************************************************************************)
Bootable ==
    /\ FrameLeavesRoom
    /\ machine.msr /\ (machine.vmx \/ machine.feature # "unlocked")
    /\ machine.uart \/ AhciBase = 0 \/ ~machine.drive
BootReachesMenu == Bootable ~> pc = "menu"
=============================================================================
