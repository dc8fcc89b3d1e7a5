--------------------------- MODULE HandoverProofs ---------------------------
(***************************************************************************)
(* Two pairs that work at the same time and hand things over by looking:   *)
(* the disk driver and its adapter, and the two cores of the predictive    *)
(* engine.                                                                 *)
(*                                                                         *)
(* The driver beside the adapter, for any disk, any bound on polls and any *)
(* number of calls: a call that reports success did its transfer, and none *)
(* leaves a command behind.  Both need a port that firmware left without   *)
(* an error status, as the code never clears one.                          *)
(*                                                                         *)
(* The ring of the predictive engine, for any ring of two places or more   *)
(* and any number of guesses, with the two cores interleaved at every      *)
(* access: until the ring is overrun no record is compared half written,   *)
(* guesses are accepted in order and none slips out between the cores.  A  *)
(* place is known by its distance from tail_; what a fetch under way will  *)
(* bring back into the ring when it publishes counts as pending.           *)
(***************************************************************************)
EXTENDS AHCIDriver, PredictiveRing, SlotArithmetic

-----------------------------------------------------------------------------
(* The disk driver *)

\* Firmware leaves no error status behind.
CleanStatus == StaleStatus \subseteq {FALSE}

Polling == pc \in {"poll_ci", "poll_is"}

\* A call is in progress exactly between its arguments and its answer, and with a
\* port its command lies in the table.
CallInv ==
    /\ request = None <=> pc \in {"boot", "stopping", "idle"}
    /\ pc \in {"boot", "stopping"} => ~ci
    /\ pc = "spinning" \/ Polling => active_port # -1
    /\ request # None /\ active_port # -1 => cmd_table = request
    /\ pc \in {"spinning", "issuing"} => ~served

\* The adapter has a command, or may still fetch one, only while the driver polls:
\* the error status and the stop come together, and PxCI clears when the transfer
\* is done and not before.
PortInv ==
    /\ tfes <=> stopped
    /\ stopped => ci
    /\ ci /\ ~stopped => Polling /\ ~served
    /\ Polling /\ ~ci => served
    /\ command # None => ci /\ ~stopped /\ command = request

DriverInv == DriverTypeOK /\ CallInv /\ PortInv

-----------------------------------------------------------------------------
\* What a command asks for is a sector, and a value where it writes.
LEMMA RequestFields ==
    ASSUME NEW r \in Requests
    PROVE  /\ r # None /\ r.op \in {"read", "write"} /\ r.lba \in Lbas
           /\ r.op = "write" => r.value \in Values
    BY DriverAssumption DEF Requests

LEMMA DriverStart ==
    ASSUME CleanStatus, DriverInit
    PROVE  DriverInv
<1>1. tfes = FALSE /\ ci = FALSE /\ stopped = FALSE /\ served = FALSE /\ result = FALSE
    BY Zenon DEF CleanStatus, DriverInit
<1>2. DriverTypeOK
  <2>1. spin \in 0 .. SpinLimit
      BY DriverAssumption DEF DriverInit
  <2> QED
      BY <1>1, <2>1 DEF DriverInit, DriverTypeOK
<1>3. CallInv /\ PortInv
    BY <1>1 DEF DriverInit, CallInv, PortInv, Polling
<1> QED
    BY <1>2, <1>3 DEF DriverInv

LEMMA CallStep ==
    ASSUME DriverInv, NEW r \in Requests, Call(r)
    PROVE  DriverInv'
<1>1. r # None /\ r.op \in {"read", "write"} /\ (r.op = "write" => r.value \in Values)
    BY RequestFields
<1>2. DriverTypeOK'
  <2>1. request' = r /\ cmd_table' \in {None} \cup Requests /\ command' = command
      BY DEF DriverInv, DriverTypeOK, Call, portVars
  <2>2. served' = FALSE /\ UNCHANGED <<result, ci, tfes, busy, stopped>>
      BY DEF Call, portVars
  <2>3. memory' \in Values /\ medium' \in [Lbas -> Values]
      BY <1>1 DEF DriverInv, DriverTypeOK, Call
  <2>4. spin' \in 0 .. SpinLimit
      BY DriverAssumption DEF Call
  <2>5. /\ pc' \in {"issuing", "spinning"}
        /\ active_port' \in {-1, 0}
        /\ engine' \in {"running", "stopping", "resting"}
      BY DEF DriverInv, DriverTypeOK, Call, portVars
  <2> QED
      BY <2>1, <2>2, <2>3, <2>4, <2>5 DEF DriverInv, DriverTypeOK
<1>3. CallInv'
    BY <1>1 DEF DriverInv, DriverTypeOK, CallInv, PortInv, Polling, Call, portVars
<1>4. PortInv'
    BY <1>1 DEF DriverInv, DriverTypeOK, CallInv, PortInv, Polling, Call, portVars
<1> QED
    BY <1>2, <1>3, <1>4 DEF DriverInv

LEMMA DriverStep ==
    ASSUME DriverInv, Driver
    PROVE  DriverInv'
<1> USE DEF DriverInv, DriverTypeOK, CallInv, PortInv, Polling, Goto, Answer, callVars, outside,
            portVars, dataVars, ahciHistory
<1>1. CASE FindNoDrive
    BY <1>1 DEF FindNoDrive
<1>2. CASE FindDrive
    BY <1>2 DEF FindDrive
<1>3. CASE StartPort
    BY <1>3 DEF StartPort
<1>4. CASE NoPort
    BY <1>4 DEF NoPort
<1>5. CASE Spin
    BY <1>5, DriverAssumption DEF Spin
<1>6. CASE GiveUp
    BY <1>6 DEF GiveUp
<1>7. CASE PortReady
    BY <1>7 DEF PortReady
<1>8. CASE Issue
    BY <1>8 DEF Issue
<1>9. CASE PollCi
  <2>1. CASE ci
      BY <1>9, <2>1 DEF PollCi
  <2>2. CASE ~ci
      BY <1>9, <2>2 DEF PollCi
  <2> QED
      BY <2>1, <2>2
<1>10. CASE PollIs
    BY <1>10 DEF PollIs
<1> QED
    BY <1>1, <1>2, <1>3, <1>4, <1>5, <1>6, <1>7, <1>8, <1>9, <1>10 DEF Driver

LEMMA TransferTypes ==
    ASSUME DriverInv, command # None, Transfer \/ UNCHANGED <<served, dataVars>>
    PROVE  medium' \in [Lbas -> Values] /\ memory' \in Values /\ served' \in BOOLEAN
<1>1. command \in Requests
    BY DEF DriverInv, DriverTypeOK
<1>2. command.op \in {"read", "write"} /\ command.lba \in Lbas
    BY <1>1, RequestFields
<1> QED
    BY <1>2 DEF DriverInv, DriverTypeOK, Transfer, dataVars

LEMMA AdapterStep ==
    ASSUME DriverInv, Adapter
    PROVE  DriverInv'
<1> USE DEF DriverInv, DriverTypeOK, CallInv, PortInv, Polling, driverVars, callVars, dataVars,
            ahciHistory
<1>1. CASE EnginesStop
    BY <1>1 DEF EnginesStop
<1>2. CASE DriveReady
    BY <1>2 DEF DriveReady
<1>3. CASE FetchTable
    BY <1>3 DEF FetchTable
<1>4. CASE Complete
  <2>1. medium' \in [Lbas -> Values] /\ memory' \in Values /\ served' \in BOOLEAN /\ served'
      BY <1>4, TransferTypes DEF Complete, Transfer
  <2> QED
      BY <1>4, <2>1 DEF Complete
<1>5. CASE Fail
  <2>1. medium' \in [Lbas -> Values] /\ memory' \in Values /\ served' \in BOOLEAN
      BY <1>5, TransferTypes DEF Fail
  <2> QED
      BY <1>5, <2>1 DEF Fail
<1> QED
    BY <1>1, <1>2, <1>3, <1>4, <1>5 DEF Adapter

LEMMA DriverInvariant == CleanStatus => (DriverSpec => []DriverInv)
<1> SUFFICES ASSUME CleanStatus PROVE DriverSpec => []DriverInv
    OBVIOUS
<1>1. DriverInit => DriverInv
    BY DriverStart
<1>2. DriverInv /\ [DriverNext]_ahciVars => DriverInv'
  <2> SUFFICES ASSUME DriverInv, [DriverNext]_ahciVars PROVE DriverInv'
      OBVIOUS
  <2>1. CASE UNCHANGED ahciVars
      BY <2>1 DEF ahciVars, driverVars, callVars, outside, portVars, dataVars, ahciHistory,
                  DriverInv, DriverTypeOK, CallInv, PortInv, Polling
  <2> QED
      BY <2>1, CallStep, DriverStep, AdapterStep DEF DriverNext
<1> QED
    BY <1>1, <1>2, PTL DEF DriverSpec

-----------------------------------------------------------------------------
\* The driver's and the adapter's state stays in range (issue_command's counter of
\* polls among it).
THEOREM DriverTypes == CleanStatus => (DriverSpec => []DriverTypeOK)
<1>1. DriverInv => DriverTypeOK
    BY DEF DriverInv
<1> QED
    BY <1>1, DriverInvariant, PTL

\* No command outlives its call, however the polls and the adapter interleave
\* (issue_command gives up before it sets PxCI, or waits for an answer).
THEOREM NoCommandOutlivesItsCall == CleanStatus => (DriverSpec => []QuietWhenIdle)
<1>1. DriverInv => QuietWhenIdle
    BY DEF DriverInv, CallInv, PortInv, Polling, QuietWhenIdle
<1> QED
    BY <1>1, DriverInvariant, PTL

\* From the moment the port was found ready it is busy with a fetched command and
\* with nothing else; and the engines rest only while the port is set up.
ReadyInv ==
    /\ engine # "running" => pc = "stopping"
    /\ Polling \/ (pc = "issuing" /\ active_port # -1) => (busy <=> command # None)

LEMMA ReadyStays ==
    ASSUME DriverInv, ReadyInv, [DriverNext]_ahciVars
    PROVE  ReadyInv'
<1> USE DEF ReadyInv, Polling, callVars, driverVars, outside, portVars, dataVars, ahciHistory
<1>1. ASSUME NEW r \in Requests, Call(r) PROVE ReadyInv'
    BY <1>1 DEF Call, DriverInv, CallInv
<1>2. CASE FindNoDrive \/ FindDrive \/ StartPort
    BY <1>2 DEF FindNoDrive, FindDrive, StartPort
<1>3. CASE NoPort \/ Spin \/ GiveUp
    BY <1>3 DEF NoPort, Spin, GiveUp, Answer
<1>4. CASE PortReady
  <2>1. command = None
      BY <1>4 DEF PortReady, DriverInv, PortInv
  <2> QED
      BY <1>4, <2>1 DEF PortReady, Goto
<1>5. CASE Issue
    BY <1>5 DEF Issue, Goto
<1>6. CASE PollCi \/ PollIs
    BY <1>6 DEF PollCi, PollIs, Goto, Answer
<1>7. CASE EnginesStop \/ DriveReady
    BY <1>7 DEF EnginesStop, DriveReady
<1>8. CASE FetchTable
  <2>1. Polling
      BY <1>8 DEF FetchTable, DriverInv, PortInv
  <2>2. command' # None
      BY <1>8, <2>1, DriverAssumption DEF FetchTable, DriverInv, CallInv
  <2> QED
      BY <1>8, <2>1, <2>2 DEF FetchTable
<1>9. CASE Complete \/ Fail
    BY <1>9 DEF Complete, Fail
<1>10. CASE UNCHANGED ahciVars
    BY <1>10 DEF ahciVars
<1> QED
    BY <1>1, <1>2, <1>3, <1>4, <1>5, <1>6, <1>7, <1>8, <1>9, <1>10
    DEF DriverNext, Driver, Adapter

\* The unbounded wait of issue_command always has an answer to wait for: the call
\* began it on a port that was ready, and nothing but its own command uses the port.
THEOREM PollsAreAnswerable == CleanStatus => (DriverSpec => []PollHasAnAnswer)
<1> SUFFICES ASSUME CleanStatus PROVE DriverSpec => []PollHasAnAnswer
    OBVIOUS
<1>1. DriverInit => ReadyInv
    BY DEF DriverInit, ReadyInv, Polling
<1>2. DriverInv /\ ReadyInv /\ [DriverNext]_ahciVars => ReadyInv'
    BY ReadyStays
<1>3. DriverInv /\ ReadyInv => PollHasAnAnswer
    BY DEF DriverInv, DriverTypeOK, PortInv, ReadyInv, Polling, PollHasAnAnswer
<1> QED
    BY <1>1, <1>2, <1>3, DriverInvariant, PTL DEF DriverSpec

-----------------------------------------------------------------------------
(* The driver and the adapter implement a SectorDisk *)

\* The disk's record of a call in progress is never mistaken for no call.
LEMMA PendingIsACall ==
    ASSUME NEW r \in {None} \cup Requests, r # None, NEW done \in BOOLEAN
    PROVE  [request |-> r, served |-> done] # None
<1>1. [request |-> r, served |-> done] \in [request : Requests, served : BOOLEAN]
    OBVIOUS
<1> QED
    BY <1>1, DriverAssumption

LEMMA DiskStart == DriverInit => Disk!Init
    BY DEF DriverInit, Disk!Init

\* issue_command is entered: the disk is asked.
LEMMA CallAsks ==
    ASSUME DriverInv, NEW r \in Requests, Call(r)
    PROVE  Disk!Ask(r)
<1>1. request = None /\ request' = r /\ r # None
    BY RequestFields DEF DriverInv, CallInv, Call
<1>2. served' = FALSE /\ UNCHANGED <<medium, result>>
    BY DEF Call
<1>3. memory' = IF r.op = "write" THEN r.value ELSE memory
    BY DEF Call
<1> QED
    BY <1>1, <1>2, <1>3 DEF Disk!Ask

\* The driver's steps return the disk's answer or are invisible.
LEMMA DriverReturns ==
    ASSUME DriverInv, Driver
    PROVE  (\E ok \in BOOLEAN : Disk!Return(ok)) \/ UNCHANGED Disk!vars
<1>a. ASSUME NEW ok \in BOOLEAN, request # None, ok => served, Answer(ok), UNCHANGED dataVars
      PROVE  Disk!Return(ok)
  <2>1. [request |-> request, served |-> served].served = served
      OBVIOUS
  <2>2. [request |-> request, served |-> served] # None
      BY <1>a, PendingIsACall DEF DriverInv, DriverTypeOK
  <2>3. request' = None /\ result' = ok /\ UNCHANGED <<medium, memory>>
      BY <1>a DEF Answer, dataVars
  <2> QED
      BY <1>a, <2>1, <2>2, <2>3 DEF Disk!Return
<1>b. ASSUME UNCHANGED <<request, result, served, dataVars>>
      PROVE  UNCHANGED Disk!vars
    BY <1>b DEF dataVars, Disk!vars
<1>1. CASE FindNoDrive \/ FindDrive \/ StartPort \/ Spin \/ PortReady \/ Issue
    BY <1>1, <1>b DEF FindNoDrive, FindDrive, StartPort, Spin, PortReady, Issue, Goto,
                      callVars, outside, ahciHistory
<1>2. CASE NoPort \/ GiveUp
    BY <1>2, <1>a DEF NoPort, GiveUp, outside, DriverInv, CallInv
<1>3. CASE PollCi
  <2>1. pc = "poll_ci" /\ request # None /\ (~ci => served)
      BY <1>3 DEF PollCi, DriverInv, CallInv, PortInv, Polling
  <2>2. CASE ci
      BY <1>3, <1>b, <2>2 DEF PollCi, Goto, outside, ahciHistory
  <2>3. CASE ~ci
      BY <1>3, <1>a, <2>1, <2>3 DEF PollCi, outside
  <2> QED
      BY <2>2, <2>3
<1>4. CASE PollIs
  <2>1. CASE tfes
      BY <1>4, <1>a, <2>1 DEF PollIs, outside, DriverInv, CallInv
  <2>2. CASE ~tfes
      BY <1>4, <1>b, <2>2 DEF PollIs, Goto, outside, ahciHistory
  <2> QED
      BY <2>1, <2>2
<1> QED
    BY <1>1, <1>2, <1>3, <1>4 DEF Driver

\* Serving a pending call changes only its mark.
LEMMA ServedMark ==
    ASSUME NEW r, NEW d
    PROVE  [[request |-> r, served |-> d] EXCEPT !.served = TRUE]
             = [request |-> r, served |-> TRUE]
<1> DEFINE p == [request |-> r, served |-> d]
           q == [p EXCEPT !.served = TRUE]
           t == [request |-> r, served |-> TRUE]
<1>1. DOMAIN q = DOMAIN p
    OBVIOUS
<1>2. DOMAIN p = {"request", "served"} /\ DOMAIN t = {"request", "served"}
    OBVIOUS
<1>3. q["request"] = t["request"] /\ q["served"] = t["served"]
    OBVIOUS
<1> QED
    BY <1>1, <1>2, <1>3

\* The adapter moves data once, for the call in progress, or not at all.
LEMMA AdapterServes ==
    ASSUME DriverInv, Adapter
    PROVE  Disk!Serve \/ UNCHANGED Disk!vars
<1>a. ASSUME command # None, Transfer, UNCHANGED <<request, result>>
      PROVE  Disk!Serve
  <2>1. request # None /\ command = request /\ served = FALSE
      BY <1>a DEF DriverInv, DriverTypeOK, PortInv
  <2>2. served' = TRUE /\ request' = request
      BY <1>a DEF Transfer
  <2>3. IF request.op = "write"
        THEN medium' = [medium EXCEPT ![request.lba] = memory] /\ UNCHANGED memory
        ELSE memory' = medium[request.lba] /\ UNCHANGED medium
      BY <1>a, <2>1 DEF Transfer
  <2>4. [[request |-> request, served |-> served] EXCEPT !.served = TRUE]
          = [request |-> request, served |-> TRUE]
      BY ServedMark
  <2>5. [request |-> request, served |-> served] # None
      BY <2>1, PendingIsACall DEF DriverInv, DriverTypeOK
  <2>6. [request |-> request, served |-> served].request = request
      OBVIOUS
  <2>7. [request |-> request, served |-> served].served = served
      OBVIOUS
  <2> QED
      BY <1>a, <2>1, <2>2, <2>3, <2>4, <2>5, <2>6, <2>7 DEF Disk!Serve
<1>b. ASSUME UNCHANGED <<request, result, served, dataVars>>
      PROVE  UNCHANGED Disk!vars
    BY <1>b DEF dataVars, Disk!vars
<1>1. CASE EnginesStop \/ DriveReady \/ FetchTable
    BY <1>1, <1>b DEF EnginesStop, DriveReady, FetchTable, driverVars, callVars, ahciHistory
<1>2. CASE Complete
    BY <1>2, <1>a DEF Complete, driverVars, callVars
<1>3. CASE Fail
    BY <1>3, <1>a, <1>b DEF Fail, driverVars, callVars
<1> QED
    BY <1>1, <1>2, <1>3 DEF Adapter

\* With a port that firmware left clean, every behaviour of the driver and the
\* adapter is one of a disk that transfers once between a call and its return and
\* reports done only what it did (issue_command, and read and write above it).
THEOREM DriverIsADisk == CleanStatus => (DriverSpec => ImplementsSectorDisk)
<1> SUFFICES ASSUME CleanStatus PROVE DriverSpec => ImplementsSectorDisk
    OBVIOUS
<1>1. DriverInv /\ [DriverNext]_ahciVars => [Disk!Next]_Disk!vars
  <2> SUFFICES ASSUME DriverInv, [DriverNext]_ahciVars PROVE [Disk!Next]_Disk!vars
      OBVIOUS
  <2>1. CASE UNCHANGED ahciVars
      BY <2>1 DEF ahciVars, driverVars, callVars, outside, dataVars, ahciHistory, Disk!vars
  <2>2. ASSUME NEW r \in Requests, Call(r)
        PROVE  Disk!Next
      BY <2>2, CallAsks DEF Disk!Next, Requests, Disk!Requests
  <2> QED
      BY <2>1, <2>2, DriverReturns, AdapterServes DEF DriverNext, Disk!Next
<1> QED
    BY <1>1, DiskStart, DriverInvariant, PTL DEF DriverSpec, ImplementsSectorDisk, Disk!Spec

-----------------------------------------------------------------------------
(* The ring of the predictive engine *)

\* The steps round the ring that lead from one place to another.
Steps(from, to) == IF to >= from THEN to - from ELSE to - from + RingSize

Busy == fetcher.at # "away"

\* Where head_ stands, or stood when the fetch under way read it.
Limit == IF Busy THEN fetcher.head ELSE head

Pending == {i \in Places : Steps(tail, i) < Steps(tail, Limit)}

\* The guesses whose fetch has returned are those up to this one.
Returned == IF Busy THEN guesses - 1 ELSE guesses

Guess(i) == spec_ring[i].predicted

TypeInv == TypeOK /\ guesses \in Guesses

HistoryInv ==
    /\ Busy => guesses # 0
    /\ wrong \subseteq 1 .. Returned
    /\ accepted \in Seq(Nat)
    /\ \A k \in DOMAIN accepted : accepted[k] \in 1 .. Returned

\* The verifier may have emptied the ring under a fetch, and it did so because
\* the oldest guess was wrong; only the record under the fetch may be torn.
FetcherInv ==
    /\ Busy => head \in {fetcher.head, tail}
    /\ Busy /\ head = tail /\ fetcher.head # tail => Guess(tail) \in wrong
    /\ fetcher.at = "predicted" => spec_ring[fetcher.head].vaddr = guesses
    /\ fetcher.at = "publish" => Guess(fetcher.head) = guesses
    /\ \A i \in Places :
          spec_ring[i].vaddr = Guess(i) \/ (fetcher.at = "predicted" /\ i = fetcher.head)

\* While the verifier is under way the ring is not empty, so the record it reads
\* is not the one being written.
VerifierInv ==
    /\ verifier.at # "look" => verifier.tail = tail /\ tail # head
    /\ verifier.at \in {"predicted", "compare", "retract"} =>
          verifier.vaddr = spec_ring[tail].vaddr
    /\ verifier.at \in {"compare", "retract"} => verifier.predicted = Guess(tail)
    /\ verifier.at = "retract" => Guess(tail) \in wrong

OrderInv ==
    /\ \A i \in Pending : Guess(i) \in 1 .. Returned
    /\ \A i, j \in Pending : Steps(tail, i) < Steps(tail, j) => Guess(i) < Guess(j)
    /\ \A k \in DOMAIN accepted, i \in Pending : accepted[k] < Guess(i)
    /\ \A k, l \in DOMAIN accepted : k < l => accepted[k] < accepted[l]

\* A wrong guess that will not come back.
Dropped(w) == w \in wrong /\ ~ Contains(accepted, w) /\ \A i \in Pending : Guess(i) # w

Kept(g) ==
    \/ \E i \in Pending : Guess(i) = g
    \/ Contains(accepted, g)
    \/ \E w \in wrong : w <= g /\ Dropped(w)

KeptInv == \A g \in 1 .. Returned : Kept(g)

Parts == HistoryInv /\ FetcherInv /\ VerifierInv /\ OrderInv /\ KeptInv

RingInv == ~ overrun => Parts

-----------------------------------------------------------------------------
(* Places of the ring *)

LEMMA NextPlaceIs ==
    ASSUME NEW i \in Places
    PROVE  NextPlace(i) = IF i = RingSize - 1 THEN 0 ELSE i + 1
<1>1. RingSize \in Nat \ {0} /\ RingSize \in Int /\ i \in Nat
    BY RingAssumption DEF Places
<1>2. CASE i = RingSize - 1
  <2>1. RingSize = RingSize * 1 + 0 /\ RingSize \in Nat /\ i + 1 = RingSize
      BY <1>1, <1>2
  <2>2. RingSize % RingSize = 0
      BY <1>1, <2>1, RemainderIs
  <2> QED
      BY <1>2, <2>1, <2>2 DEF NextPlace
<1>3. CASE i # RingSize - 1
  <2>1. i + 1 \in 0 .. RingSize - 1
      BY <1>1, <1>3 DEF Places
  <2> QED
      BY <1>1, <1>3, <2>1, SmallRemainder DEF NextPlace
<1> QED
    BY <1>2, <1>3

LEMMA NextPlaceIsPlace ==
    ASSUME NEW i \in Places
    PROVE  NextPlace(i) \in Places
    BY NextPlaceIs, RingAssumption DEF Places

LEMMA StepsRange ==
    ASSUME NEW from \in Places, NEW to \in Places
    PROVE  /\ Steps(from, to) \in Places
           /\ Steps(from, to) = 0 <=> from = to
    BY RingAssumption DEF Places, Steps

LEMMA StepsDistinct ==
    ASSUME NEW from \in Places, NEW i \in Places, NEW j \in Places,
           Steps(from, i) = Steps(from, j)
    PROVE  i = j
    BY RingAssumption DEF Places, Steps

\* One place further is one step more, short of a full round.
LEMMA StepsGrow ==
    ASSUME NEW from \in Places, NEW to \in Places, NextPlace(to) # from
    PROVE  Steps(from, NextPlace(to)) = Steps(from, to) + 1
    BY NextPlaceIs, RingAssumption DEF Places, Steps

\* From one place further it is one step less.
LEMMA StepsShrink ==
    ASSUME NEW from \in Places, NEW i \in Places, i # from
    PROVE  Steps(NextPlace(from), i) = Steps(from, i) - 1
    BY NextPlaceIs, RingAssumption DEF Places, Steps

\* From one place further the place itself is the last.
LEMMA StepsRound ==
    ASSUME NEW from \in Places
    PROVE  Steps(NextPlace(from), from) = RingSize - 1
    BY NextPlaceIs, RingAssumption DEF Places, Steps

\* What a sequence holds when a value is appended.
LEMMA Appended ==
    ASSUME NEW s \in Seq(Nat), NEW e \in Nat
    PROVE  /\ Append(s, e) \in Seq(Nat)
           /\ \A k \in DOMAIN Append(s, e) :
                 \/ k \in DOMAIN s /\ Append(s, e)[k] = s[k]
                 \/ Append(s, e)[k] = e /\ \A l \in DOMAIN s : l < k
           /\ \A k, l \in DOMAIN Append(s, e) : k < l => k \in DOMAIN s
           /\ \A x : Contains(Append(s, e), x) <=> Contains(s, x) \/ x = e
<1>1. /\ Append(s, e) \in Seq(Nat) /\ Len(s) \in Nat
      /\ Len(Append(s, e)) = Len(s) + 1
      /\ DOMAIN s = 1 .. Len(s) /\ DOMAIN Append(s, e) = 1 .. Len(s) + 1
      /\ \A k \in 1 .. Len(s) : Append(s, e)[k] = s[k]
      /\ Append(s, e)[Len(s) + 1] = e
    OBVIOUS
<1>2. \A k \in 1 .. Len(s) + 1 : k \in 1 .. Len(s) \/ k = Len(s) + 1
    BY <1>1
<1>3. \A x : Contains(Append(s, e), x) <=> Contains(s, x) \/ x = e
  <2>1. Len(s) + 1 \in 1 .. Len(s) + 1 /\ 1 .. Len(s) \subseteq 1 .. Len(s) + 1
      BY <1>1
  <2> QED
      BY <1>1, <1>2, <2>1 DEF Contains
<1> QED
    BY <1>1, <1>2, <1>3

-----------------------------------------------------------------------------
(* Type correctness *)

LEMMA TypeStart == Init => TypeInv
<1> SUFFICES ASSUME Init PROVE TypeInv
    OBVIOUS
<1>1. 0 \in Places /\ 0 \in Guesses
    BY RingAssumption DEF Places, Guesses
<1> QED
    BY <1>1 DEF Init, TypeInv, TypeOK

LEMMA TypeStep == TypeInv /\ [Next]_vars => TypeInv'
<1> SUFFICES ASSUME TypeInv, [Next]_vars PROVE TypeInv'
    OBVIOUS
<1> USE DEF TypeInv, TypeOK
<1>1. CASE UNCHANGED vars
    BY <1>1 DEF vars, ringVars, historyVars
<1>2. CASE BeginFetch
  <2>1. guesses + 1 \in Guesses
      BY <1>2, RingAssumption DEF BeginFetch, Guesses
  <2> QED
      BY <1>2, <2>1 DEF BeginFetch, ringVars
<1>3. CASE WriteVaddr
    BY <1>3 DEF WriteVaddr, Wrote, historyVars
<1>4. CASE WritePredicted
    BY <1>4 DEF WritePredicted, Wrote, historyVars
<1>5. CASE Publish
    BY <1>5, NextPlaceIsPlace DEF Publish, PublishAfter
<1>6. CASE Look
    BY <1>6 DEF Look, ringVars, historyVars
<1>7. CASE ReadVaddr
    BY <1>7 DEF ReadVaddr, ringVars, historyVars
<1>8. CASE ReadPredicted
    BY <1>8 DEF ReadPredicted, ringVars, historyVars
<1>9. CASE Accept
    BY <1>9, NextPlaceIsPlace DEF Accept, AcceptInto
<1>10. CASE Reject
    BY <1>10 DEF Reject, ringVars
<1>11. CASE Retract
    BY <1>11 DEF Retract, historyVars
<1> QED
    BY <1>1, <1>2, <1>3, <1>4, <1>5, <1>6, <1>7, <1>8, <1>9, <1>10, <1>11
    DEF Next, Fetch, Verify

\* Both cores stay inside the ring, and what they hold are places and guesses
\* (head_ and tail_ are reduced modulo the ring's size wherever they move).
THEOREM TypeCorrect == Spec => []TypeOK
<1>1. TypeInv => TypeOK
    BY DEF TypeInv
<1> QED
    BY <1>1, TypeStart, TypeStep, PTL DEF Spec

-----------------------------------------------------------------------------
(* Each step of either core keeps the ring in order *)

\* The oldest pending guess is the one tail_ points at.
LEMMA OldestIsTail ==
    ASSUME TypeInv, Limit # tail
    PROVE  /\ tail \in Pending
           /\ \A i \in Pending : i # tail => Steps(tail, tail) < Steps(tail, i)
<1>1. tail \in Places /\ Limit \in Places
    BY DEF TypeInv, TypeOK, Limit
<1>2. Steps(tail, tail) = 0 /\ Steps(tail, Limit) # 0
    BY <1>1, StepsRange
<1>3. \A i \in Places : Steps(tail, i) \in Nat /\ (i # tail => Steps(tail, i) # 0)
    BY <1>1, StepsRange DEF Places
<1>4. \A i \in Places : i # tail => 0 < Steps(tail, i)
    BY <1>3
<1>5. 0 < Steps(tail, Limit)
    BY <1>1, <1>2, <1>4
<1> QED
    BY <1>1, <1>2, <1>4, <1>5 DEF Pending

\* While the verifier is under way head_ is where the fetch read it.
LEMMA VerifierSeesLimit ==
    ASSUME TypeInv, FetcherInv, VerifierInv, verifier.at # "look" \/ tail # head
    PROVE  tail # head /\ Limit = head
    BY DEF FetcherInv, VerifierInv, Limit, Busy

LEMMA BeginFetchKeeps ==
    ASSUME TypeInv, Parts, BeginFetch
    PROVE  Parts'
<1>1. /\ ~ Busy /\ Busy' /\ Limit' = Limit /\ Limit = head
      /\ guesses \in Nat /\ guesses' = guesses + 1
      /\ head' = head /\ tail' = tail /\ fetcher'.head = head /\ fetcher'.at = "vaddr"
      /\ spec_ring' = spec_ring /\ verifier' = verifier
      /\ accepted' = accepted /\ wrong' = wrong
    BY DEF BeginFetch, Busy, Limit, ringVars, TypeInv, Guesses
<1>2. Returned' = Returned /\ Pending' = Pending
    BY <1>1 DEF Returned, Pending
<1>3. HistoryInv'
    BY <1>1, <1>2 DEF Parts, HistoryInv
<1>4. FetcherInv'
    BY <1>1 DEF Parts, FetcherInv, Guess, Busy
<1>5. VerifierInv'
    BY <1>1 DEF Parts, VerifierInv, Guess
<1>6. OrderInv'
    BY <1>1, <1>2 DEF Parts, OrderInv, Guess
<1>7. KeptInv'
    BY <1>1, <1>2 DEF Parts, KeptInv, Kept, Dropped, Guess
<1> QED
    BY <1>3, <1>4, <1>5, <1>6, <1>7 DEF Parts

\* A fetch writes a place that is not pending.
LEMMA WriteKeeps ==
    ASSUME TypeInv, Parts, WriteVaddr \/ WritePredicted
    PROVE  Parts'
<1>1. /\ Busy /\ Busy' /\ Limit' = Limit /\ Limit = fetcher.head
      /\ head' = head /\ tail' = tail /\ fetcher'.head = fetcher.head
      /\ verifier' = verifier /\ guesses' = guesses
      /\ accepted' = accepted /\ wrong' = wrong
    BY DEF WriteVaddr, WritePredicted, Wrote, Busy, Limit, historyVars, TypeInv, TypeOK
<1>2. Returned' = Returned /\ Pending' = Pending
    BY <1>1 DEF Returned, Pending
<1>3. fetcher.head \in Places /\ tail \in Places /\ fetcher.head \notin Pending
  <2>1. fetcher.head \in Places /\ tail \in Places
      BY DEF TypeInv, TypeOK
  <2>2. Steps(tail, fetcher.head) \in Nat
      BY <2>1, StepsRange DEF Places
  <2> QED
      BY <1>1, <2>1, <2>2 DEF Pending
<1>4. \A i \in Places : i # fetcher.head => spec_ring'[i] = spec_ring[i]
    BY <1>3 DEF WriteVaddr, WritePredicted, Wrote, TypeInv, TypeOK
<1>5. \A i \in Pending : i \in Places /\ spec_ring'[i] = spec_ring[i]
    BY <1>3, <1>4 DEF Pending
<1>6. HistoryInv'
    BY <1>1, <1>2 DEF Parts, HistoryInv
<1>7. FetcherInv'
  <2>1. CASE WriteVaddr
    <3>1. /\ fetcher'.at = "predicted"
          /\ spec_ring'[fetcher.head].vaddr = guesses
        BY <2>1, <1>3 DEF WriteVaddr, Wrote, TypeInv, TypeOK
    <3>2. fetcher.at = "vaddr"
        BY <2>1 DEF WriteVaddr, Wrote
    <3> QED
        BY <1>1, <1>3, <1>4, <3>1, <3>2 DEF Parts, FetcherInv, Guess
  <2>2. CASE WritePredicted
    <3>1. /\ fetcher'.at = "publish"
          /\ spec_ring'[fetcher.head].predicted = guesses
          /\ spec_ring'[fetcher.head].vaddr = spec_ring[fetcher.head].vaddr
        BY <2>2, <1>3 DEF WritePredicted, Wrote, TypeInv, TypeOK
    <3>2. fetcher.at = "predicted"
        BY <2>2 DEF WritePredicted, Wrote
    <3> QED
        BY <1>1, <1>3, <1>4, <3>1, <3>2 DEF Parts, FetcherInv, Guess
  <2> QED
      BY <2>1, <2>2
<1>8. VerifierInv'
  <2>1. CASE verifier.at = "look"
      BY <1>1, <2>1 DEF Parts, VerifierInv
  <2>2. CASE verifier.at # "look"
    <3>1. tail # fetcher.head
        BY <1>1, <2>2, VerifierSeesLimit DEF Parts
    <3>2. spec_ring'[tail] = spec_ring[tail]
        BY <1>3, <1>4, <3>1
    <3> QED
        BY <1>1, <3>2 DEF Parts, VerifierInv, Guess
  <2> QED
      BY <2>1, <2>2
<1>9. OrderInv'
    BY <1>1, <1>2, <1>5 DEF Parts, OrderInv, Guess
<1>10. KeptInv'
    BY <1>1, <1>2, <1>5 DEF Parts, KeptInv, Kept, Dropped, Guess
<1> QED
    BY <1>6, <1>7, <1>8, <1>9, <1>10 DEF Parts

\* Publishing makes the newest guess pending, and brings back what the verifier
\* dropped while it was being written.
LEMMA PublishKeeps ==
    ASSUME TypeInv, ~ overrun, ~ overrun', Parts, Publish
    PROVE  Parts'
<1>1. /\ Busy /\ ~ Busy' /\ fetcher.at = "publish" /\ fetcher'.at = "away"
      /\ Limit = fetcher.head /\ Limit' = head' /\ head' = NextPlace(fetcher.head)
      /\ head' # tail /\ tail' = tail /\ spec_ring' = spec_ring
      /\ verifier' = verifier /\ guesses' = guesses
      /\ accepted' = accepted /\ wrong' = wrong
    BY DEF Publish, PublishAfter, Busy, Limit, TypeInv, TypeOK
<1>2. guesses \in Nat \ {0} /\ Returned = guesses - 1 /\ Returned' = guesses
    BY <1>1 DEF Returned, Parts, HistoryInv, TypeInv, Guesses
<1>3. fetcher.head \in Places /\ tail \in Places
    BY DEF TypeInv, TypeOK
<1>4. \A i \in Places : Steps(tail, i) \in Nat
    BY <1>3, StepsRange DEF Places
<1>5. Steps(tail, head') = Steps(tail, fetcher.head) + 1
    BY <1>1, <1>3, StepsGrow
<1>6. Pending' = Pending \cup {fetcher.head}
  <2>1. ASSUME NEW i \in Places
        PROVE  Steps(tail, i) < Steps(tail, head')
                  <=> Steps(tail, i) < Steps(tail, fetcher.head) \/ i = fetcher.head
    <3>1. Steps(tail, i) = Steps(tail, fetcher.head) <=> i = fetcher.head
        BY <1>3, StepsDistinct
    <3> QED
        BY <1>3, <1>4, <1>5, <3>1
  <2> QED
      BY <1>1, <1>3, <2>1 DEF Pending
<1>7. \A i \in Pending : /\ i \in Places /\ i # fetcher.head
                         /\ Steps(tail, i) < Steps(tail, fetcher.head)
    BY <1>1, <1>3, <1>4 DEF Pending
<1>8. Guess(fetcher.head) = guesses
    BY <1>1 DEF Parts, FetcherInv
<1>9. HistoryInv'
  <2>1. 1 .. Returned \subseteq 1 .. Returned'
      BY <1>2
  <2> QED
      BY <1>1, <2>1 DEF Parts, HistoryInv
<1>10. FetcherInv'
    BY <1>1 DEF Parts, FetcherInv, Guess
<1>11. VerifierInv'
    BY <1>1 DEF Parts, VerifierInv, Guess
<1>12. OrderInv'
  <2>1. \A i \in Pending' : Guess(i) \in 1 .. Returned'
      BY <1>2, <1>6, <1>8 DEF Parts, OrderInv
  <2>2. ASSUME NEW i \in Pending', NEW j \in Pending', Steps(tail, i) < Steps(tail, j)
        PROVE  Guess(i) < Guess(j)
    <3>1. CASE i \in Pending /\ j \in Pending
        BY <2>2, <3>1 DEF Parts, OrderInv
    <3>2. CASE i \in Pending /\ j = fetcher.head
        BY <3>2, <1>2, <1>8 DEF Parts, OrderInv
    <3>3. CASE i = fetcher.head
      <4>1. j = fetcher.head \/ j \in Pending
          BY <1>6
      <4>2. Steps(tail, i) \in Nat /\ Steps(tail, j) \in Nat
          BY <1>3, <1>4, <1>7, <4>1, <3>3
      <4> QED
          BY <2>2, <3>3, <1>7, <4>1, <4>2
    <3> QED
        BY <1>6, <3>1, <3>2, <3>3
  <2>3. \A k \in DOMAIN accepted, i \in Pending' : accepted[k] < Guess(i)
    <3>1. \A k \in DOMAIN accepted : accepted[k] \in 1 .. Returned
        BY DEF Parts, HistoryInv
    <3> QED
        BY <1>2, <1>6, <1>8, <3>1 DEF Parts, OrderInv
  <2> QED
      BY <1>1, <2>1, <2>2, <2>3 DEF Parts, OrderInv, Guess
<1>13. KeptInv'
  <2> SUFFICES ASSUME NEW g \in 1 .. guesses PROVE Kept(g)'
      BY <1>2 DEF KeptInv
  <2>1. CASE g = guesses
      BY <2>1, <1>1, <1>6, <1>8 DEF Kept, Guess
  <2>2. CASE g # guesses
    <3>1. g \in 1 .. Returned
        BY <2>2, <1>2
    <3>2. Kept(g)
        BY <3>1 DEF Parts, KeptInv
    <3>3. \A w \in wrong : Dropped(w) => Dropped(w)'
      <4>1. \A w \in wrong : w # guesses
          BY <1>2 DEF Parts, HistoryInv
      <4> QED
          BY <1>1, <1>6, <1>8, <4>1 DEF Dropped, Guess
    <3> QED
        BY <1>1, <1>6, <3>2, <3>3 DEF Kept, Guess
  <2> QED
      BY <2>1, <2>2
<1> QED
    BY <1>9, <1>10, <1>11, <1>12, <1>13 DEF Parts

\* The verifier's reads change nothing but what it holds.
LEMMA ReadKeeps ==
    ASSUME TypeInv, Parts, Look \/ ReadVaddr \/ ReadPredicted
    PROVE  Parts'
<1>1. UNCHANGED <<ringVars, fetcher, historyVars>>
    BY DEF Look, ReadVaddr, ReadPredicted
<1>2. /\ Busy' = Busy /\ Limit' = Limit /\ Returned' = Returned /\ Pending' = Pending
      /\ head' = head /\ tail' = tail /\ spec_ring' = spec_ring /\ fetcher' = fetcher
      /\ guesses' = guesses /\ accepted' = accepted /\ wrong' = wrong
    BY <1>1 DEF Busy, Limit, Returned, Pending, ringVars, historyVars
<1>3. HistoryInv' /\ FetcherInv' /\ OrderInv' /\ KeptInv'
    BY <1>2 DEF Parts, HistoryInv, FetcherInv, OrderInv, KeptInv, Kept, Dropped, Guess
<1>4. VerifierInv'
  <2>1. CASE Look
      BY <1>2, <2>1 DEF Look, VerifierInv, TypeInv, TypeOK
  <2>2. CASE ReadVaddr
      BY <1>2, <2>2 DEF ReadVaddr, Parts, VerifierInv, TypeInv, TypeOK
  <2>3. CASE ReadPredicted
      BY <1>2, <2>3 DEF ReadPredicted, Parts, VerifierInv, Guess, TypeInv, TypeOK
  <2> QED
      BY <2>1, <2>2, <2>3
<1> QED
    BY <1>3, <1>4 DEF Parts

\* A verdict is on the oldest pending guess, the one tail_ points at.
LEMMA VerdictOnOldest ==
    ASSUME TypeInv, Parts, verifier.at \in {"compare", "retract"}
    PROVE  /\ verifier.tail = tail /\ verifier.predicted = Guess(tail)
           /\ tail # head /\ Limit = head /\ tail \in Places /\ tail \in Pending
           /\ Guess(tail) \in 1 .. Returned
           /\ \A i \in Pending : i # tail => Guess(tail) < Guess(i)
           /\ ~ Contains(accepted, Guess(tail))
<1>1. /\ verifier.tail = tail /\ verifier.predicted = Guess(tail)
      /\ tail # head /\ Limit = head /\ tail \in Places
    BY VerifierSeesLimit DEF Parts, VerifierInv, TypeInv, TypeOK
<1>2. tail \in Pending /\ \A i \in Pending : i # tail => Steps(tail, tail) < Steps(tail, i)
    BY <1>1, OldestIsTail
<1>3. /\ Guess(tail) \in 1 .. Returned
      /\ \A i \in Pending : i # tail => Guess(tail) < Guess(i)
    BY <1>2 DEF Parts, OrderInv
<1>4. ~ Contains(accepted, Guess(tail))
  <2>1. accepted \in Seq(Nat) /\ \A k \in DOMAIN accepted : accepted[k] < Guess(tail)
      BY <1>2 DEF Parts, OrderInv, HistoryInv
  <2>2. DOMAIN accepted = 1 .. Len(accepted) /\ \A k \in DOMAIN accepted : accepted[k] \in Nat
      BY <2>1
  <2> QED
      BY <1>3, <2>1, <2>2 DEF Contains
<1> QED
    BY <1>1, <1>2, <1>3, <1>4

\* Accepting moves the oldest pending guess to the accepted ones.
LEMMA AcceptKeeps ==
    ASSUME TypeInv, Parts, Accept
    PROVE  Parts'
<1>1. /\ verifier.at = "compare" /\ verifier'.at = "look"
      /\ tail' = NextPlace(verifier.tail)
      /\ accepted' = Append(accepted, verifier.predicted)
      /\ head' = head /\ spec_ring' = spec_ring /\ fetcher' = fetcher
      /\ guesses' = guesses /\ wrong' = wrong
    BY DEF Accept, AcceptInto, TypeInv, TypeOK
<1>2. /\ tail # head /\ Limit = head /\ tail \in Places /\ tail \in Pending
      /\ tail' = NextPlace(tail) /\ accepted' = Append(accepted, Guess(tail))
      /\ Guess(tail) \in 1 .. Returned
      /\ \A i \in Pending : i # tail => Guess(tail) < Guess(i)
      /\ ~ Contains(accepted, Guess(tail))
    BY <1>1, VerdictOnOldest
<1>3. Busy' = Busy /\ Limit' = Limit /\ Returned' = Returned
    BY <1>1 DEF Busy, Limit, Returned
<1>4. head \in Places /\ tail' \in Places
    BY <1>2, NextPlaceIsPlace DEF TypeInv, TypeOK
<1>5. \A i \in Places : /\ Steps(tail, i) \in Places /\ Steps(tail', i) \in Places
                        /\ i # tail => Steps(tail', i) = Steps(tail, i) - 1
    BY <1>2, <1>4, StepsRange, StepsShrink
<1>6. Pending' = Pending \ {tail}
  <2>1. tail \notin Pending'
    <3>1. Steps(tail', tail) = RingSize - 1
        BY <1>2, StepsRound
    <3>2. Steps(tail', head) \in Places
        BY <1>4, <1>5
    <3>3. ~ (Steps(tail', tail) < Steps(tail', head))
        BY <3>1, <3>2, RingAssumption DEF Places
    <3> QED
        BY <1>2, <1>3, <3>3 DEF Pending
  <2>2. ASSUME NEW i \in Places, i # tail
        PROVE  Steps(tail', i) < Steps(tail', head) <=> Steps(tail, i) < Steps(tail, head)
    <3>1. /\ Steps(tail', i) = Steps(tail, i) - 1
          /\ Steps(tail', head) = Steps(tail, head) - 1
        BY <1>2, <1>4, <1>5, <2>2
    <3>2. Steps(tail, i) \in Int /\ Steps(tail, head) \in Int
        BY <1>4, <1>5 DEF Places
    <3> QED
        BY <3>1, <3>2
  <2> QED
      BY <1>1, <1>2, <1>3, <2>1, <2>2 DEF Pending
<1>7. accepted \in Seq(Nat) /\ Guess(tail) \in Nat
    BY <1>2 DEF Parts, HistoryInv
<1>8. /\ accepted' \in Seq(Nat)
      /\ \A k \in DOMAIN accepted' :
            \/ k \in DOMAIN accepted /\ accepted'[k] = accepted[k]
            \/ accepted'[k] = Guess(tail) /\ \A l \in DOMAIN accepted : l < k
      /\ \A k, l \in DOMAIN accepted' : k < l => k \in DOMAIN accepted
      /\ \A x : Contains(accepted', x) <=> Contains(accepted, x) \/ x = Guess(tail)
    BY <1>2, <1>7, Appended
<1>9. HistoryInv'
    BY <1>1, <1>2, <1>3, <1>8 DEF Parts, HistoryInv
<1>10. FetcherInv'
    BY <1>1, <1>2 DEF Parts, FetcherInv, Guess, Busy, Limit
<1>11. VerifierInv'
    BY <1>1 DEF VerifierInv
<1>12. OrderInv'
  <2>1. \A i \in Pending' : Guess(i) \in 1 .. Returned
      BY <1>6 DEF Parts, OrderInv
  <2>2. ASSUME NEW i \in Pending', NEW j \in Pending', Steps(tail', i) < Steps(tail', j)
        PROVE  Guess(i) < Guess(j)
    <3>1. i \in Pending /\ j \in Pending /\ i # tail /\ j # tail
        BY <1>6
    <3>2. i \in Places /\ j \in Places
        BY <3>1 DEF Pending
    <3>3. Steps(tail, i) < Steps(tail, j)
        BY <1>5, <2>2, <3>1, <3>2 DEF Places
    <3> QED
        BY <3>1, <3>3 DEF Parts, OrderInv
  <2>3. \A k \in DOMAIN accepted' : \A i \in Pending' : accepted'[k] < Guess(i)
      BY <1>2, <1>6, <1>8 DEF Parts, OrderInv
  <2>4. ASSUME NEW k \in DOMAIN accepted', NEW l \in DOMAIN accepted', k < l
        PROVE  accepted'[k] < accepted'[l]
    <3>1. k \in DOMAIN accepted /\ k \in Nat /\ l \in Nat
        BY <1>7, <1>8, <2>4
    <3>2. accepted'[k] = accepted[k]
        BY <1>8, <3>1
    <3>3. CASE l \in DOMAIN accepted
      <4>1. accepted'[l] = accepted[l]
          BY <1>8, <3>1, <3>3
      <4> QED
          BY <2>4, <3>1, <3>2, <3>3, <4>1 DEF Parts, OrderInv
    <3>4. CASE l \notin DOMAIN accepted
        BY <1>2, <1>8, <3>1, <3>2, <3>4 DEF Parts, OrderInv
    <3> QED
        BY <3>3, <3>4
  <2> QED
      BY <1>1, <1>3, <2>1, <2>2, <2>3, <2>4 DEF OrderInv, Guess
<1>13. KeptInv'
  <2> SUFFICES ASSUME NEW g \in 1 .. Returned PROVE Kept(g)'
      BY <1>3 DEF KeptInv
  <2>1. Kept(g)
      BY DEF Parts, KeptInv
  <2>2. \A w \in wrong : Dropped(w) => Dropped(w)'
      BY <1>1, <1>2, <1>6, <1>8 DEF Dropped, Guess
  <2> QED
      BY <1>1, <1>6, <1>8, <2>1, <2>2 DEF Kept, Guess
<1> QED
    BY <1>9, <1>10, <1>11, <1>12, <1>13 DEF Parts

\* The interrupt is sent while the ring still holds what will be dropped.
LEMMA RejectKeeps ==
    ASSUME TypeInv, Parts, Reject
    PROVE  Parts'
<1>1. /\ verifier.at = "compare" /\ verifier' = [verifier EXCEPT !.at = "retract"]
      /\ wrong' = wrong \cup {verifier.predicted} /\ fetcher' = fetcher
      /\ head' = head /\ tail' = tail /\ spec_ring' = spec_ring
      /\ guesses' = guesses /\ accepted' = accepted
    BY DEF Reject, ringVars
<1>2. /\ verifier.predicted = Guess(tail) /\ tail \in Pending
      /\ Guess(tail) \in 1 .. Returned
    BY <1>1, VerdictOnOldest
<1>3. Busy' = Busy /\ Limit' = Limit /\ Returned' = Returned /\ Pending' = Pending
    BY <1>1 DEF Busy, Limit, Returned, Pending
<1>4. HistoryInv'
    BY <1>1, <1>2, <1>3 DEF Parts, HistoryInv
<1>5. FetcherInv'
    BY <1>1, <1>3 DEF Parts, FetcherInv, Guess
<1>6. VerifierInv'
    BY <1>1, <1>2 DEF Parts, VerifierInv, Guess, TypeInv, TypeOK
<1>7. OrderInv'
    BY <1>1, <1>3 DEF Parts, OrderInv, Guess
<1>8. KeptInv'
    BY <1>1, <1>3 DEF Parts, KeptInv, Kept, Dropped, Guess
<1> QED
    BY <1>4, <1>5, <1>6, <1>7, <1>8 DEF Parts

\* Emptying the ring drops the pending guesses for good, unless a fetch is under
\* way, which will bring them back.
LEMMA RetractKeeps ==
    ASSUME TypeInv, Parts, Retract
    PROVE  Parts'
<1>1. /\ verifier.at = "retract" /\ verifier'.at = "look" /\ head' = verifier.tail
      /\ tail' = tail /\ spec_ring' = spec_ring /\ fetcher' = fetcher
      /\ guesses' = guesses /\ accepted' = accepted /\ wrong' = wrong
    BY DEF Retract, historyVars, TypeInv, TypeOK
<1>2. /\ head' = tail /\ tail # head /\ Limit = head /\ tail \in Places
      /\ Guess(tail) \in wrong /\ Guess(tail) \in 1 .. Returned
      /\ \A i \in Pending : i # tail => Guess(tail) < Guess(i)
      /\ ~ Contains(accepted, Guess(tail))
    BY <1>1, VerdictOnOldest DEF Parts, VerifierInv
<1>3. Busy' = Busy /\ Returned' = Returned
    BY <1>1 DEF Busy, Returned
<1>4. HistoryInv'
    BY <1>1, <1>3 DEF Parts, HistoryInv
<1>5. FetcherInv'
    BY <1>1, <1>2, <1>3 DEF Parts, FetcherInv, Guess
<1>6. VerifierInv'
    BY <1>1 DEF VerifierInv
<1>7. OrderInv' /\ KeptInv'
  <2>1. CASE Busy
    <3>1. Pending' = Pending
        BY <1>1, <2>1 DEF Pending, Limit, Busy
    <3> QED
        BY <1>1, <1>3, <3>1 DEF Parts, OrderInv, KeptInv, Kept, Dropped, Guess
  <2>2. CASE ~ Busy
    <3>1. Pending' = {}
      <4>1. Limit' = tail
          BY <1>1, <1>2, <2>2 DEF Limit, Busy
      <4>2. \A i \in Places : Steps(tail, i) \in Nat /\ Steps(tail, tail) = 0
          BY <1>2, StepsRange DEF Places
      <4>3. \A i \in Places : ~ (Steps(tail, i) < Steps(tail, tail))
          BY <4>2
      <4> QED
          BY <1>1, <4>1, <4>3 DEF Pending
    <3>2. OrderInv'
        BY <1>1, <3>1 DEF Parts, OrderInv
    <3>3. ASSUME NEW g \in 1 .. Returned PROVE Kept(g)'
      <4>1. Kept(g)
          BY DEF Parts, KeptInv
      <4>2. \A w \in wrong : Dropped(w) => Dropped(w)'
          BY <1>1, <3>1 DEF Dropped
      <4>3. PICK w \in wrong : w = Guess(tail)
          BY <1>2
      <4>4. CASE \E i \in Pending : Guess(i) = g
        <5>1. w <= g
            BY <1>2, <4>3, <4>4 DEF Parts, OrderInv
        <5>2. Dropped(w)'
            BY <1>1, <1>2, <3>1, <4>3 DEF Dropped
        <5> QED
            BY <1>1, <5>1, <5>2 DEF Kept
      <4> QED
          BY <1>1, <4>1, <4>2, <4>4 DEF Kept
    <3> QED
        BY <1>3, <3>2, <3>3 DEF KeptInv
  <2> QED
      BY <2>1, <2>2
<1> QED
    BY <1>4, <1>5, <1>6, <1>7 DEF Parts

LEMMA RingStart == Init => TypeInv /\ RingInv
<1> SUFFICES ASSUME Init PROVE RingInv
    BY TypeStart
<1>1. /\ ~ Busy /\ Limit = 0 /\ Returned = 0 /\ tail = 0 /\ head = 0
      /\ verifier.at = "look" /\ fetcher.at = "away" /\ accepted = <<>> /\ wrong = {}
    BY DEF Init, Busy, Limit, Returned
<1>2. \A i \in Places : Steps(tail, i) \in Nat /\ Steps(tail, tail) = 0
    BY <1>1, StepsRange, RingAssumption DEF Places
<1>3. Pending = {}
  <2>1. \A i \in Places : ~ (Steps(tail, i) < Steps(tail, Limit))
      BY <1>1, <1>2
  <2> QED
      BY <2>1 DEF Pending
<1>4. HistoryInv
    BY <1>1 DEF HistoryInv
<1>5. FetcherInv
    BY <1>1 DEF Init, FetcherInv, Guess, Busy
<1>6. VerifierInv /\ OrderInv /\ KeptInv
    BY <1>1, <1>3 DEF VerifierInv, OrderInv, KeptInv
<1> QED
    BY <1>4, <1>5, <1>6 DEF RingInv, Parts

LEMMA RingStep == TypeInv /\ RingInv /\ [Next]_vars => TypeInv' /\ RingInv'
<1> SUFFICES ASSUME TypeInv, RingInv, [Next]_vars, ~ overrun' PROVE Parts'
    BY TypeStep DEF RingInv
<1>1. ~ overrun
  <2>1. overrun => overrun'
      BY DEF Next, Fetch, Verify, vars, historyVars, BeginFetch, WriteVaddr, WritePredicted,
             Wrote, Publish, PublishAfter, Look, ReadVaddr, ReadPredicted, Accept, AcceptInto,
             Reject, Retract
  <2> QED
      BY <2>1
<1>2. Parts
    BY <1>1 DEF RingInv
<1>3. CASE UNCHANGED vars
  <2>1. /\ Busy' = Busy /\ Limit' = Limit /\ Returned' = Returned /\ Pending' = Pending
        /\ head' = head /\ tail' = tail /\ spec_ring' = spec_ring /\ fetcher' = fetcher
        /\ verifier' = verifier /\ guesses' = guesses /\ accepted' = accepted /\ wrong' = wrong
      BY <1>3 DEF vars, ringVars, historyVars, Busy, Limit, Returned, Pending
  <2> QED
      BY <1>2, <2>1 DEF Parts, HistoryInv, FetcherInv, VerifierInv, OrderInv, KeptInv, Kept,
                        Dropped, Guess
<1>4. CASE BeginFetch
    BY <1>2, <1>4, BeginFetchKeeps
<1>5. CASE WriteVaddr \/ WritePredicted
    BY <1>2, <1>5, WriteKeeps
<1>6. CASE Publish
    BY <1>1, <1>2, <1>6, PublishKeeps
<1>7. CASE Look \/ ReadVaddr \/ ReadPredicted
    BY <1>2, <1>7, ReadKeeps
<1>8. CASE Accept
    BY <1>2, <1>8, AcceptKeeps
<1>9. CASE Reject
    BY <1>2, <1>9, RejectKeeps
<1>10. CASE Retract
    BY <1>2, <1>10, RetractKeeps
<1> QED
    BY <1>3, <1>4, <1>5, <1>6, <1>7, <1>8, <1>9, <1>10 DEF Next, Fetch, Verify

LEMMA RingAlways == Spec => [](TypeInv /\ RingInv)
<1> QED
    BY RingStart, RingStep, PTL DEF Spec

-----------------------------------------------------------------------------
(* What follows for a guess *)

LEMMA WholeFollows == TypeInv /\ RingInv => RecordsAreWhole
<1> SUFFICES ASSUME TypeInv, RingInv, ~ overrun, verifier.at = "compare"
             PROVE  verifier.vaddr = verifier.predicted /\ verifier.vaddr # 0
    BY DEF RecordsAreWhole
<1>1. Parts
    BY DEF RingInv
<1>2. /\ verifier.predicted = Guess(tail) /\ tail # head /\ Limit = head
      /\ tail \in Places /\ Guess(tail) \in 1 .. Returned
    BY <1>1, VerdictOnOldest
<1>3. ~ (fetcher.at = "predicted" /\ tail = fetcher.head)
    BY <1>2 DEF Limit, Busy
<1>4. verifier.vaddr = Guess(tail)
    BY <1>1, <1>2, <1>3 DEF Parts, FetcherInv, VerifierInv
<1> QED
    BY <1>2, <1>4

\* Counting from tail_ round the ring, as InRing does, reaches the place that many
\* steps away.
LEMMA PlaceAfterSteps ==
    ASSUME NEW from \in Places, NEW to \in Places
    PROVE  (from + Steps(from, to)) % RingSize = to
<1>1. RingSize \in Nat \ {0} /\ from \in Nat /\ to \in 0 .. RingSize - 1
    BY RingAssumption DEF Places
<1>2. PICK x \in Nat : x = from + Steps(from, to)
    BY <1>1 DEF Steps
<1>3. x = RingSize * 0 + to \/ x = RingSize * 1 + to
    BY <1>1, <1>2 DEF Steps
<1>4. x % RingSize = to
    BY <1>1, <1>3, RemainderIs
<1> QED
    BY <1>2, <1>4

LEMMA LastInRing ==
    ASSUME NEW from \in Places, NEW to \in Places, from # to
    PROVE  (to - from - 1) % RingSize = Steps(from, to) - 1
<1>1. RingSize \in Nat \ {0} /\ from \in 0 .. RingSize - 1 /\ to \in 0 .. RingSize - 1
    BY RingAssumption DEF Places
<1>2. PICK x \in Int, r \in 0 .. RingSize - 1 : x = to - from - 1 /\ r = Steps(from, to) - 1
    BY <1>1 DEF Steps
<1>3. x = RingSize * 0 + r \/ x = RingSize * (-1) + r
    BY <1>1, <1>2 DEF Steps
<1>4. x % RingSize = r
    BY <1>1, <1>3
<1> QED
    BY <1>2, <1>4

LEMMA KeptFollows == TypeInv /\ RingInv => NoGuessLost
<1> SUFFICES ASSUME TypeInv, RingInv, ~ overrun, NEW g \in 1 .. Returned
             PROVE  \/ InRing(g)
                    \/ Contains(accepted, g)
                    \/ \E w \in wrong : w <= g /\ ~ Contains(accepted, w)
  <2>1. Returned = IF fetcher.at = "away" THEN guesses ELSE guesses - 1
      BY DEF Returned, Busy
  <2> QED
      BY <2>1 DEF NoGuessLost
<1>1. Parts /\ Kept(g)
    BY DEF RingInv, Parts, KeptInv
<1>2. CASE \E i \in Pending : Guess(i) = g
  <2>1. PICK i \in Pending : Guess(i) = g
      BY <1>2
  <2>2. i \in Places /\ tail \in Places /\ head \in Places /\ Limit \in Places
      BY <2>1 DEF Pending, TypeInv, TypeOK, Limit
  <2>3. Steps(tail, i) \in Nat /\ Steps(tail, Limit) \in Nat /\ Steps(tail, i) < Steps(tail, Limit)
      BY <2>1, <2>2, StepsRange DEF Pending, Places
  <2>4. Limit # tail
      BY <2>2, <2>3, StepsRange
  <2>5. CASE head # tail
    <3>1. Limit = head
        BY <1>1, <2>5, VerifierSeesLimit DEF Parts
    <3>2. Steps(tail, i) \in 0 .. (head - tail - 1) % RingSize
        BY <2>2, <2>3, <2>5, <3>1, LastInRing
    <3>3. spec_ring[i].vaddr = g
      <4>1. i # fetcher.head \/ ~ Busy
          BY <2>3 DEF Limit
      <4> QED
          BY <1>1, <2>1, <2>2, <4>1 DEF Parts, FetcherInv, Busy
    <3>4. spec_ring[(tail + Steps(tail, i)) % RingSize].vaddr = g
        BY <2>2, <3>3, PlaceAfterSteps
    <3> QED
        BY <2>5, <3>2, <3>4 DEF InRing
  <2>6. CASE head = tail
    <3>1. Busy /\ Limit = fetcher.head
        BY <2>4, <2>6 DEF Limit
    <3>2. Guess(tail) \in wrong
        BY <1>1, <2>4, <2>6, <3>1 DEF Parts, FetcherInv
    <3>3. /\ tail \in Pending
          /\ \A j \in Pending : j # tail => Steps(tail, tail) < Steps(tail, j)
        BY <2>4, OldestIsTail
    <3>4. Guess(tail) \in Nat /\ g \in Nat /\ (i # tail => Guess(tail) < g)
        BY <1>1, <2>1, <3>3 DEF Parts, OrderInv
    <3>5. ~ Contains(accepted, Guess(tail))
      <4>1. /\ accepted \in Seq(Nat)
            /\ \A k \in DOMAIN accepted : accepted[k] < Guess(tail)
          BY <1>1, <3>3 DEF Parts, OrderInv, HistoryInv
      <4>2. /\ DOMAIN accepted = 1 .. Len(accepted)
            /\ \A k \in DOMAIN accepted : accepted[k] \in Nat
          BY <4>1
      <4> QED
          BY <3>4, <4>1, <4>2 DEF Contains
    <3> QED
        BY <2>1, <3>2, <3>4, <3>5
  <2> QED
      BY <2>5, <2>6
<1> QED
    BY <1>1, <1>2 DEF Kept, Dropped

\* The verifier never compares a record of which the other core has written one
\* field only, nor one it never wrote (speculative_fetch, verify_consensus).
THEOREM RecordsAlwaysWhole == Spec => []RecordsAreWhole
<1> QED
    BY RingAlways, WholeFollows, PTL

\* Guesses are accepted in the order they were made and none twice (the two writers
\* of head_).
THEOREM AcceptedAlwaysInOrder == Spec => []AcceptedInOrder
<1>1. TypeInv /\ RingInv => AcceptedInOrder
    BY DEF RingInv, Parts, OrderInv, AcceptedInOrder
<1> QED
    BY <1>1, RingAlways, PTL

\* No guess slips out of the ring between the core that publishes and the core that
\* empties it (head_ = current_tail under a fetch).
THEOREM GuessesNeverLost == Spec => []NoGuessLost
<1> QED
    BY RingAlways, KeptFollows, PTL
=============================================================================
