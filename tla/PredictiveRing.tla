--------------------------- MODULE PredictiveRing ---------------------------
(***************************************************************************)
(* The ring of src/core/predictive_topology.hpp (class PredictiveEngine):  *)
(* one core guesses what an address holds and goes on with the guess,      *)
(* another compares the guesses with the manifold, oldest first, and       *)
(* interrupts the first and drops what is in the ring when one is wrong.   *)
(*                                                                         *)
(* Guesses are numbered in the order they are made; a record's two fields  *)
(* hold the number of the guess that wrote them.  Whether a guess is right *)
(* depends on the manifold when it is verified: either may be found.  The  *)
(* barriers of the code leave the accesses in the order they are written.  *)
(***************************************************************************)
EXTENDS Integers, SequencesExt

CONSTANTS
    RingSize,    \* 256
    MaxGuesses   \* bound on the number of guesses

ASSUME RingAssumption == RingSize \in Nat \ {0, 1} /\ MaxGuesses \in Nat

VARIABLES
    spec_ring,   \* spec_ring_
    head, tail,  \* head_, tail_
    fetcher,     \* the guessing core: where it stands, and current_head
    verifier,    \* the verifying core: where it stands, current_tail, what it read
    guesses,     \* history: guesses begun
    accepted,    \* history: the guesses found right, in that order
    wrong,       \* history: the guesses found wrong
    overrun      \* history: a guess was published into the last free place

ringVars == <<spec_ring, head, tail>>
historyVars == <<guesses, accepted, wrong, overrun>>
vars == <<ringVars, fetcher, verifier, historyVars>>

Places == 0 .. RingSize - 1
Guesses == 0 .. MaxGuesses

TypeOK ==
    /\ spec_ring \in [Places -> [vaddr : Guesses, predicted : Guesses]]
    /\ head \in Places /\ tail \in Places
    /\ fetcher \in [at : {"away", "vaddr", "predicted", "publish"}, head : Places]
    /\ verifier \in [at : {"look", "vaddr", "predicted", "compare", "retract"},
                     tail : Places, vaddr : Guesses, predicted : Guesses]
    /\ wrong \subseteq Guesses /\ overrun \in BOOLEAN

Init ==
    /\ spec_ring = [i \in Places |-> [vaddr |-> 0, predicted |-> 0]]
    /\ head = 0 /\ tail = 0
    /\ fetcher = [at |-> "away", head |-> 0]
    /\ verifier = [at |-> "look", tail |-> 0, vaddr |-> 0, predicted |-> 0]
    /\ guesses = 0 /\ accepted = <<>> /\ wrong = {} /\ overrun = FALSE

NextPlace(i) == (i + 1) % RingSize

-----------------------------------------------------------------------------
(* speculative_fetch *)

BeginFetch ==
    /\ fetcher.at = "away"
    /\ guesses < MaxGuesses
    /\ guesses' = guesses + 1
    /\ fetcher' = [at |-> "vaddr", head |-> head]
    /\ UNCHANGED <<ringVars, verifier, accepted, wrong, overrun>>

\* One field of the record is written, and the core goes on to the next place.
Wrote(field, next) ==
    /\ fetcher.at = field
    /\ fetcher' = [fetcher EXCEPT !.at = next]
    /\ spec_ring' = [spec_ring EXCEPT ![fetcher.head][field] = guesses]
    /\ UNCHANGED <<tail, verifier, historyVars>>

\* The record published before it is complete (kept for mutation).
PublishEarly == Wrote("vaddr", "predicted") /\ head' = NextPlace(fetcher.head)

WriteVaddr == Wrote("vaddr", "predicted") /\ UNCHANGED head

WritePredicted == Wrote("predicted", "publish") /\ UNCHANGED head

\* head_ becomes what follows i; nothing is compared with tail_.
PublishAfter(i) ==
    /\ fetcher.at = "publish"
    /\ head' = NextPlace(i)
    /\ overrun' = (overrun \/ NextPlace(i) = tail)
    /\ fetcher' = [fetcher EXCEPT !.at = "away"]
    /\ UNCHANGED <<spec_ring, tail, verifier, guesses, accepted, wrong>>

\* head_ incremented where it is now (kept for mutation).
PublishNow == PublishAfter(head)

\* The value computed from the head_ read at the start of the fetch: a head_ the
\* verifier has moved back since is moved forward again.
Publish == PublishAfter(fetcher.head)

-----------------------------------------------------------------------------
(* verify_consensus *)

\* With nothing to verify the call returns, and the core looks again in the next.
Look ==
    /\ verifier.at = "look"
    /\ tail # head
    /\ verifier' = [verifier EXCEPT !.at = "vaddr", !.tail = tail]
    /\ UNCHANGED <<ringVars, fetcher, historyVars>>

ReadVaddr ==
    /\ verifier.at = "vaddr"
    /\ verifier' = [verifier EXCEPT !.at = "predicted",
                                    !.vaddr = spec_ring[verifier.tail].vaddr]
    /\ UNCHANGED <<ringVars, fetcher, historyVars>>

ReadPredicted ==
    /\ verifier.at = "predicted"
    /\ verifier' = [verifier EXCEPT !.at = "compare",
                                    !.predicted = spec_ring[verifier.tail].predicted]
    /\ UNCHANGED <<ringVars, fetcher, historyVars>>

AcceptInto(place) ==
    /\ verifier.at = "compare"
    /\ tail' = place
    /\ verifier' = [verifier EXCEPT !.at = "look"]
    /\ accepted' = Append(accepted, verifier.predicted)
    /\ UNCHANGED <<spec_ring, head, fetcher, guesses, wrong, overrun>>

\* tail_ left where it is (kept for mutation).
AcceptInPlace == AcceptInto(verifier.tail)

\* The manifold holds what was guessed.
Accept == AcceptInto(NextPlace(verifier.tail))

\* It does not: the guessing core is interrupted first,
Reject ==
    /\ verifier.at = "compare"
    /\ verifier' = [verifier EXCEPT !.at = "retract"]
    /\ wrong' = wrong \cup {verifier.predicted}
    /\ UNCHANGED <<ringVars, fetcher, guesses, accepted, overrun>>

\* and the ring is emptied after.
Retract ==
    /\ verifier.at = "retract"
    /\ head' = verifier.tail
    /\ verifier' = [verifier EXCEPT !.at = "look"]
    /\ UNCHANGED <<spec_ring, tail, fetcher, historyVars>>

-----------------------------------------------------------------------------
Fetch == BeginFetch \/ WriteVaddr \/ WritePredicted \/ Publish

Verify == Look \/ ReadVaddr \/ ReadPredicted \/ Accept \/ Reject \/ Retract

Next == Fetch \/ Verify

Spec == Init /\ [][Next]_vars

-----------------------------------------------------------------------------
(* Properties.  Once a guess was published into the last free place the ring may
   look empty when it is full, and nothing more is promised. *)

\* The verifier compares an address with the guess made for it, although the
\* other core writes the ring meanwhile (store_sync before head_ is set).
RecordsAreWhole ==
    ~ overrun /\ verifier.at = "compare" =>
        verifier.vaddr = verifier.predicted /\ verifier.vaddr # 0

\* Guesses are accepted in the order they were made and none twice, although a
\* fetch that was under way brings dropped ones back (head_ written by both).
AcceptedInOrder ==
    ~ overrun =>
        \A i, j \in DOMAIN accepted : i < j => accepted[i] < accepted[j]

InRing(g) ==
    \E n \in 0 .. (head - tail - 1) % RingSize :
        head # tail /\ spec_ring[(tail + n) % RingSize].vaddr = g

\* A guess whose fetch has returned is still to be verified, was accepted, or was
\* dropped because of an older one (or itself) that was found wrong and not
\* accepted since: none slips out of the ring between the two cores.
NoGuessLost ==
    ~ overrun =>
        \A g \in 1 .. IF fetcher.at = "away" THEN guesses ELSE guesses - 1 :
            \/ InRing(g)
            \/ Contains(accepted, g)
            \/ \E w \in wrong : w <= g /\ ~ Contains(accepted, w)
=============================================================================
