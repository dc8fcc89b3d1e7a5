---------------------------- MODULE StreamProofs ----------------------------
(***************************************************************************)
(* What is taken in byte by byte: keys that make up a line and an access   *)
(* key, sectors that are folded layer by layer, messages that are hashed   *)
(* block by block.  For every length of the buffers, of the layers and of  *)
(* the blocks: the line and the key hold what was typed and stay in their  *)
(* bounds; the layers' hits and the residue together are the sector; and   *)
(* a digest is that of the padded message, however it was cut into calls.  *)
(*                                                                         *)
(* The three share no state; they share the lemmas on sequences and on the *)
(* walks of SlotArithmetic.                                                *)
(***************************************************************************)
EXTENDS Console, PhaseFold, Sha256, SlotArithmetic, FiniteSetTheorems, SequenceTheorems

-----------------------------------------------------------------------------
(* The console's invariant *)

\* An access key that is not complete has room for a character.
PassRoom == place \in {"password", "update", "read"} => Len(pass) < PassMax

ConsoleInv == TypeOK /\ PassRoom /\ LineIsClean

-----------------------------------------------------------------------------
(* Sequences *)

LEMMA AppendIs ==
    ASSUME NEW S, NEW s \in Seq(S), NEW e \in S
    PROVE  Append(s, e) \in Seq(S) /\ Len(Append(s, e)) = Len(s) + 1 /\ Len(s) \in Nat
    OBVIOUS

LEMMA HeadAndTail ==
    ASSUME NEW S, NEW s \in Seq(S), s # <<>>
    PROVE  /\ Head(s) \in S
           /\ Tail(s) \in Seq(S) /\ Len(Tail(s)) = Len(s) - 1
           /\ Len(s) \in Nat \ {0}
    OBVIOUS

LEMMA FrontIs ==
    ASSUME NEW S, NEW s \in Seq(S), s # <<>>
    PROVE  Front(s) \in Seq(S) /\ Len(Front(s)) = Len(s) - 1
<1>1. PICK n \in Nat : n = Len(s) - 1 /\ \A i \in 1 .. n : s[i] \in S
    OBVIOUS
<1>2. SubSeq(s, 1, n) \in Seq(S) /\ Len(SubSeq(s, 1, n)) = n
    BY <1>1, SubSeqProperties
<1> QED
    BY <1>1, <1>2 DEF Front

-----------------------------------------------------------------------------
(* The controller *)

LEMMA SendTypes ==
    ASSUME TypeOK, NEW b \in Byte, Send(b)
    PROVE  queue' \in Seq(Byte) /\ Len(queue') <= QueueMax
<1>1. queue \in Seq(Byte) /\ Len(queue) <= QueueMax /\ QueueMax \in Nat
    BY ConsoleAssumption DEF TypeOK
<1>2. PICK q : q = queue
    OBVIOUS
<1>3. Append(q, b) \in Seq(Byte) /\ Len(Append(q, b)) = Len(q) + 1 /\ Len(q) \in Nat
    BY <1>1, <1>2, AppendIs
<1> QED
    BY <1>1, <1>2, <1>3 DEF Send

LEMMA TakenTypes ==
    ASSUME TypeOK, Available, queue' = Tail(queue)
    PROVE  /\ Head(queue) \in Byte
           /\ queue' \in Seq(Byte) /\ Len(queue') <= QueueMax
<1>1. queue \in Seq(Byte) /\ Len(queue) <= QueueMax /\ QueueMax \in Nat /\ queue # <<>>
    BY ConsoleAssumption DEF TypeOK, Available
<1>2. PICK q : q = queue
    OBVIOUS
<1>3. Head(q) \in Byte /\ Tail(q) \in Seq(Byte) /\ Len(Tail(q)) = Len(q) - 1 /\ Len(q) \in Nat
    BY <1>1, <1>2, HeadAndTail
<1> QED
    BY <1>1, <1>2, <1>3

-----------------------------------------------------------------------------
(* The access key *)

LEMMA TypedTypes ==
    ASSUME NEW p \in Seq(Printing), Len(p) < PassMax, NEW k
    PROVE  Typed(p, k) \in Seq(Printing) /\ Len(Typed(p, k)) <= PassMax
<1>1. Len(p) \in Nat /\ PassMax \in Nat
    BY ConsoleAssumption
<1>2. CASE k = "backspace" /\ p # <<>>
    BY <1>1, <1>2, FrontIs DEF Typed
<1>3. CASE ~ (k = "backspace" /\ p # <<>>) /\ k \in Printing
  <2>1. Typed(p, k) = Append(p, k)
      BY <1>3 DEF Typed
  <2>2. Append(p, k) \in Seq(Printing) /\ Len(Append(p, k)) = Len(p) + 1
      BY <1>3, AppendIs
  <2> QED
      BY <1>1, <2>1, <2>2
<1>4. CASE ~ (k = "backspace" /\ p # <<>>) /\ k \notin Printing
    BY <1>1, <1>4 DEF Typed
<1> QED
    BY <1>2, <1>3, <1>4

\* A byte that goes on towards the access key.
LEMMA ReadKeeps ==
    ASSUME TypeOK, PassRoom, ReadChar
    PROVE  /\ queue' \in Seq(Byte) /\ Len(queue') <= QueueMax
           /\ pass' \in Seq(Printing) /\ Len(pass') <= PassMax
           /\ place' \in {"password", "update", "menu"} /\ PassRoom'
           /\ UNCHANGED <<keyboardVars, shellVars, pulsed>>
<1>1. /\ place = "read" /\ pass \in Seq(Printing) /\ Len(pass) < PassMax
      /\ PassMax \in Nat /\ UNCHANGED <<keyboardVars, shellVars, pulsed>>
      /\ queue \in Seq(Byte) /\ Len(queue) <= QueueMax
    BY ConsoleAssumption DEF TypeOK, PassRoom, ReadChar, ReadWith
<1>2. CASE Available /\ HasChar(Head(queue)) /\ ~ Head(queue).up
  <2>1. PICK p : p = Typed(pass, Head(queue).key)
      OBVIOUS
  <2>2. queue' = Tail(queue) /\ Accept(p, Head(queue))
      BY <1>2, <2>1 DEF ReadChar, ReadWith, Taken
  <2>3. queue' \in Seq(Byte) /\ Len(queue') <= QueueMax
      BY <1>2, <2>2, TakenTypes
  <2>4. p \in Seq(Printing) /\ Len(p) <= PassMax
      BY <1>1, <2>1, TypedTypes
  <2>5. /\ pass' = p /\ place' \in {"password", "menu"}
        /\ place' = "password" => Len(p) # PassMax
      BY <2>2 DEF Accept
  <2>6. Len(p) \in Nat
      BY <2>4
  <2>7. PassRoom'
      BY <1>1, <2>4, <2>5, <2>6 DEF PassRoom
  <2> QED
      BY <1>1, <2>3, <2>4, <2>5, <2>7
<1>3. CASE ~ (Available /\ HasChar(Head(queue)) /\ ~ Head(queue).up)
  <2>1. /\ place' = "update" /\ pass' = pass
        /\ queue' = IF Available THEN Tail(queue) ELSE queue
      BY <1>3 DEF ReadChar, ReadWith
  <2>2. queue' \in Seq(Byte) /\ Len(queue') <= QueueMax
      BY <1>1, <2>1, TakenTypes
  <2>3. PassRoom'
      BY <1>1, <2>1 DEF PassRoom
  <2> QED
      BY <1>1, <2>1, <2>2, <2>3
<1> QED
    BY <1>2, <1>3

-----------------------------------------------------------------------------
(* The line *)

Clean == \A j \in 0 .. CmdMax : (cmd[j] = Nul) <=> (j >= cmd_idx)

LineTypes == cmd \in Line /\ cmd_idx \in 0 .. CmdMax /\ nodes \in Nat

LEMMA BlankIsClean ==
    ASSUME cmd' = BlankLine, cmd_idx' = 0
    PROVE  cmd' \in Line /\ cmd_idx' \in 0 .. CmdMax /\ Clean'
<1>1. CmdMax \in Nat
    BY ConsoleAssumption
<1> QED
    BY <1>1 DEF BlankLine, Line, Clean

LEMMA EditKeepsClean ==
    ASSUME LineTypes, Clean, NEW k, Edit(k), UNCHANGED nodes
    PROVE  LineTypes' /\ Clean'
<1>1. /\ CmdMax \in Nat /\ cmd \in [0 .. CmdMax -> Printing \cup {Nul}]
      /\ cmd_idx \in 0 .. CmdMax /\ Nul \notin Printing
    BY ConsoleAssumption DEF LineTypes, Line, Nul
<1>2. CASE k = "backspace" /\ cmd_idx > 0
  <2>1. cmd' = [cmd EXCEPT ![cmd_idx - 1] = Nul] /\ cmd_idx' = cmd_idx - 1
      BY <1>2 DEF Edit, Erase
  <2> QED
      BY <1>1, <1>2, <2>1 DEF LineTypes, Line, Clean
<1>3. CASE ~ (k = "backspace" /\ cmd_idx > 0) /\ k \in Printing /\ cmd_idx < CmdMax
  <2>1. cmd' = [cmd EXCEPT ![cmd_idx] = k] /\ cmd_idx' = cmd_idx + 1
      BY <1>3 DEF Edit, Insert
  <2> QED
      BY <1>1, <1>3, <2>1 DEF LineTypes, Line, Clean
<1>4. CASE UNCHANGED <<cmd, cmd_idx>>
    BY <1>4 DEF LineTypes, Clean
<1> QED
    BY <1>2, <1>3, <1>4 DEF Edit

LEMMA ExecuteKeepsClean ==
    ASSUME LineTypes, Execute
    PROVE  LineTypes' /\ (place' = "menu" \/ (place' = "wait" /\ Clean'))
<1>1. CASE StartsWith([cmd EXCEPT ![cmd_idx] = Nul], Back)
  <2>1. /\ place' = "menu" /\ cmd' = [cmd EXCEPT ![cmd_idx] = Nul]
        /\ UNCHANGED <<cmd_idx, nodes>>
      BY <1>1 DEF Execute
  <2> QED
      BY <2>1 DEF LineTypes, Line
<1>2. CASE ~ StartsWith([cmd EXCEPT ![cmd_idx] = Nul], Back)
  <2>1. /\ place' = "wait" /\ cmd' = BlankLine /\ cmd_idx' = 0
        /\ nodes' = nodes \/ nodes' = nodes + 1
      BY <1>2 DEF Execute
  <2>2. nodes' \in Nat
      BY <2>1 DEF LineTypes
  <2> QED
      BY <2>1, <2>2, BlankIsClean DEF LineTypes
<1> QED
    BY <1>1, <1>2

LEMMA PollKeeps ==
    ASSUME TypeOK, LineIsClean, Poll
    PROVE  /\ queue' \in Seq(Byte) /\ Len(queue') <= QueueMax
           /\ place' \in {"wait", "menu"}
           /\ LineTypes' /\ (place' = "wait" => Clean')
           /\ UNCHANGED <<pass, keyboardVars, pulsed>>
<1>1. /\ LineTypes /\ Clean /\ queue \in Seq(Byte) /\ Len(queue) <= QueueMax
      /\ UNCHANGED <<pass, keyboardVars, pulsed>>
    BY DEF TypeOK, LineIsClean, Poll, LineTypes, Clean
<1>2. CASE ~ Available
    BY <1>1, <1>2 DEF Poll, shellVars, LineTypes, Clean
<1>3. CASE Available
  <2>1. PICK b : b = Head(queue)
      OBVIOUS
  <2>2. queue' = Tail(queue) /\ Handle(b)
      BY <1>3, <2>1 DEF Poll, Taken
  <2>3. queue' \in Seq(Byte) /\ Len(queue') <= QueueMax
      BY <1>3, <2>2, TakenTypes
  <2>4. CASE b = [key |-> "enter", up |-> FALSE]
    <3>1. Execute
        BY <2>2, <2>4 DEF Handle
    <3> QED
        BY <1>1, <2>3, <3>1, ExecuteKeepsClean
  <2>5. CASE b # [key |-> "enter", up |-> FALSE]
    <3>1. /\ place' = "wait" /\ UNCHANGED nodes
          /\ IF b.up THEN UNCHANGED <<cmd, cmd_idx>> ELSE Edit(b.key)
        BY <2>2, <2>5 DEF Handle
    <3>2. LineTypes' /\ Clean'
      <4>1. CASE UNCHANGED <<cmd, cmd_idx>>
          BY <1>1, <3>1, <4>1 DEF LineTypes, Clean
      <4>2. CASE Edit(b.key)
          BY <1>1, <3>1, <4>2, EditKeepsClean
      <4> QED
          BY <3>1, <4>1, <4>2
    <3> QED
        BY <1>1, <2>3, <3>1, <3>2
  <2> QED
      BY <2>4, <2>5
<1> QED
    BY <1>2, <1>3

LEMMA MenuKeeps ==
    ASSUME TypeOK, Menu
    PROVE  /\ queue' \in Seq(Byte) /\ Len(queue') <= QueueMax
           /\ place' \in {"wait", "menu"}
           /\ LineTypes' /\ (place' = "wait" => Clean') /\ pulsed' \in BOOLEAN
           /\ UNCHANGED <<pass, keyboardVars>>
<1>1. /\ place = "menu" /\ Available /\ queue' = Tail(queue)
      /\ UNCHANGED <<pass, keyboardVars>>
      /\ EnterShell \/ UNCHANGED <<place, cmd, cmd_idx, nodes, pulsed>>
    BY DEF Menu, MenuTakes, Taken
<1>2. queue' \in Seq(Byte) /\ Len(queue') <= QueueMax
    BY <1>1, TakenTypes
<1>3. CASE EnterShell
    BY <1>1, <1>2, <1>3, BlankIsClean DEF EnterShell, TypeOK, LineTypes
<1>4. CASE UNCHANGED <<place, cmd, cmd_idx, nodes, pulsed>>
    BY <1>1, <1>2, <1>4 DEF TypeOK, LineTypes
<1> QED
    BY <1>1, <1>3, <1>4

-----------------------------------------------------------------------------
(* What was typed *)

IsDown(b) == ~ b.up

\* The characters of p stand at the places at of t, one after the other, and behind
\* them, at the places g, the keys of q that went down.
Placed(at, p, g, q, t) ==
    /\ at \in [1 .. Len(p) -> 1 .. Len(t)]
    /\ \A i \in 1 .. Len(p) : t[at[i]] = p[i] /\ \A j \in 1 .. i - 1 : at[j] < at[i]
    /\ \A n \in 1 .. Len(q) :
          IsDown(q[n]) =>
              /\ g[n] \in 1 .. Len(t) /\ t[g[n]] = q[n].key
              /\ \A i \in 1 .. Len(p) : at[i] < g[n]
              /\ \A m \in 1 .. n - 1 : IsDown(q[m]) => g[m] < g[n]

TypedInOrder == typed \in Seq(Keys) /\ \E at, g : Placed(at, pass, g, queue, typed)

\* More is typed, and none of it reaches the queue.
LEMMA PlacedLonger ==
    ASSUME NEW at, NEW p, NEW g, NEW q, NEW t \in Seq(Keys), NEW k \in Keys,
           p \in Seq(Printing), Placed(at, p, g, q, t)
    PROVE  Placed(at, p, g, q, Append(t, k))
<1>1. PICK r : r = Append(t, k)
    OBVIOUS
<1>2. Len(t) \in Nat /\ Len(r) = Len(t) + 1 /\ \A i \in 1 .. Len(t) : r[i] = t[i]
    BY <1>1
<1>3. at \in [1 .. Len(p) -> 1 .. Len(r)]
    BY <1>2 DEF Placed
<1>4. \A i \in 1 .. Len(p) : r[at[i]] = p[i] /\ \A j \in 1 .. i - 1 : at[j] < at[i]
    BY <1>2 DEF Placed
<1>5. \A n \in 1 .. Len(q) : IsDown(q[n]) => g[n] \in 1 .. Len(r) /\ r[g[n]] = q[n].key
    BY <1>2 DEF Placed
<1>6. Placed(at, p, g, q, r)
    BY <1>3, <1>4, <1>5 DEF Placed
<1> QED
    BY <1>1, <1>6

\* A byte comes to the queue; a key that went down is the last one typed.
LEMMA PlacedAppend ==
    ASSUME NEW at, NEW p \in Seq(Printing), NEW g, NEW q \in Seq(Byte), NEW t \in Seq(Keys),
           NEW b \in Byte, Placed(at, p, g, q, t),
           IsDown(b) =>
               /\ t # <<>> /\ t[Len(t)] = b.key
               /\ \A i \in 1 .. Len(p) : at[i] < Len(t)
               /\ \A n \in 1 .. Len(q) : IsDown(q[n]) => g[n] < Len(t)
    PROVE  \E h : Placed(at, p, h, Append(q, b), t)
<1>1. PICK r : r = Append(q, b)
    OBVIOUS
<1>2. PICK L : L = Len(q)
    OBVIOUS
<1>3. L \in Nat /\ Len(r) = L + 1 /\ r[L + 1] = b /\ \A n \in 1 .. L : r[n] = q[n]
    BY <1>1, <1>2
<1>4. PICK h : h = [n \in 1 .. L + 1 |-> IF n = L + 1 THEN Len(t) ELSE g[n]]
    OBVIOUS
<1>5. h[L + 1] = Len(t) /\ \A n \in 1 .. L : h[n] = g[n]
    BY <1>3, <1>4
<1>6. Len(t) \in Nat /\ (t # <<>> => Len(t) \in 1 .. Len(t))
    OBVIOUS
<1>7. ASSUME NEW n \in 1 .. L + 1, IsDown(r[n])
      PROVE  /\ h[n] \in 1 .. Len(t) /\ t[h[n]] = r[n].key
             /\ \A i \in 1 .. Len(p) : at[i] < h[n]
             /\ \A m \in 1 .. n - 1 : IsDown(r[m]) => h[m] < h[n]
  <2>1. CASE n = L + 1
    <3>1. IsDown(b) /\ r[n] = b /\ h[n] = Len(t)
        BY <1>3, <1>5, <1>7, <2>1
    <3>2. Len(t) \in 1 .. Len(t) /\ t[Len(t)] = b.key
        BY <1>6, <3>1
    <3>3. \A i \in 1 .. Len(p) : at[i] < Len(t)
        BY <3>1
    <3>4. \A m \in 1 .. L : IsDown(q[m]) => g[m] < Len(t)
        BY <1>2, <3>1
    <3>5. \A m \in 1 .. n - 1 : m \in 1 .. L /\ r[m] = q[m] /\ h[m] = g[m]
        BY <1>3, <1>5, <2>1
    <3>6. \A m \in 1 .. n - 1 : IsDown(r[m]) => h[m] < h[n]
        BY <3>1, <3>4, <3>5
    <3> QED
        BY <3>1, <3>2, <3>3, <3>6
  <2>2. CASE n \in 1 .. L
    <3>1. IsDown(q[n]) /\ r[n] = q[n] /\ h[n] = g[n]
        BY <1>3, <1>5, <1>7, <2>2
    <3>2. /\ g[n] \in 1 .. Len(t) /\ t[g[n]] = q[n].key
          /\ \A i \in 1 .. Len(p) : at[i] < g[n]
          /\ \A m \in 1 .. n - 1 : IsDown(q[m]) => g[m] < g[n]
        BY <1>2, <2>2, <3>1 DEF Placed
    <3>3. \A m \in 1 .. n - 1 : r[m] = q[m] /\ h[m] = g[m]
        BY <1>3, <1>5, <2>2
    <3> QED
        BY <3>1, <3>2, <3>3
  <2> QED
      BY <1>3, <2>1, <2>2
<1>8. Placed(at, p, h, r, t)
    BY <1>3, <1>7 DEF Placed
<1> QED
    BY <1>1, <1>8

\* The first byte of the queue is dropped.
LEMMA PlacedTail ==
    ASSUME NEW at, NEW p, NEW g, NEW q \in Seq(Byte), NEW t, q # <<>>, Placed(at, p, g, q, t)
    PROVE  \E h : Placed(at, p, h, Tail(q), t)
<1>1. PICK r : r = Tail(q)
    OBVIOUS
<1>2. PICK L : L = Len(q)
    OBVIOUS
<1>3. L \in Nat \ {0} /\ Len(r) = L - 1 /\ \A n \in 1 .. L - 1 : r[n] = q[n + 1]
    BY <1>1, <1>2
<1>4. PICK h : h = [n \in 1 .. L - 1 |-> g[n + 1]]
    OBVIOUS
<1>5. ASSUME NEW n \in 1 .. L - 1, IsDown(r[n])
      PROVE  /\ h[n] \in 1 .. Len(t) /\ t[h[n]] = r[n].key
             /\ \A i \in 1 .. Len(p) : at[i] < h[n]
             /\ \A m \in 1 .. n - 1 : IsDown(r[m]) => h[m] < h[n]
  <2>1. n + 1 \in 1 .. L /\ r[n] = q[n + 1] /\ h[n] = g[n + 1] /\ IsDown(q[n + 1])
      BY <1>3, <1>4, <1>5
  <2>2. /\ g[n + 1] \in 1 .. Len(t) /\ t[g[n + 1]] = q[n + 1].key
        /\ \A i \in 1 .. Len(p) : at[i] < g[n + 1]
        /\ \A m \in 1 .. (n + 1) - 1 : IsDown(q[m]) => g[m] < g[n + 1]
      BY <1>2, <2>1 DEF Placed
  <2>3. \A m \in 1 .. n - 1 : m + 1 \in 1 .. (n + 1) - 1 /\ r[m] = q[m + 1] /\ h[m] = g[m + 1]
      BY <1>3, <1>4
  <2> QED
      BY <2>1, <2>2, <2>3
<1>6. Placed(at, p, h, r, t)
    BY <1>3, <1>5 DEF Placed
<1> QED
    BY <1>1, <1>6

\* The first byte of the queue becomes a character of the access key.
LEMMA PlacedRead ==
    ASSUME NEW at, NEW p \in Seq(Printing), NEW g, NEW q \in Seq(Byte), NEW t, q # <<>>,
           Placed(at, p, g, q, t), IsDown(q[1]), q[1].key \in Printing
    PROVE  \E a, h : Placed(a, Append(p, q[1].key), h, Tail(q), t)
<1>1. PICK r, s : r = Tail(q) /\ s = Append(p, q[1].key)
    OBVIOUS
<1>2. PICK L, N : L = Len(q) /\ N = Len(p)
    OBVIOUS
<1>3. L \in Nat \ {0} /\ Len(r) = L - 1 /\ \A n \in 1 .. L - 1 : r[n] = q[n + 1]
    BY <1>1, <1>2
<1>4. N \in Nat /\ Len(s) = N + 1 /\ s[N + 1] = q[1].key /\ \A i \in 1 .. N : s[i] = p[i]
    BY <1>1, <1>2
<1>5. PICK h, a : /\ h = [n \in 1 .. L - 1 |-> g[n + 1]]
                  /\ a = [i \in 1 .. N + 1 |-> IF i = N + 1 THEN g[1] ELSE at[i]]
    OBVIOUS
<1>6. a[N + 1] = g[1] /\ \A i \in 1 .. N : a[i] = at[i]
    BY <1>4, <1>5
<1>7. 1 \in 1 .. L
    BY <1>3
<1>8. g[1] \in 1 .. Len(t) /\ t[g[1]] = q[1].key /\ \A i \in 1 .. N : at[i] < g[1]
    BY <1>2, <1>7 DEF Placed
<1>9. /\ at \in [1 .. N -> 1 .. Len(t)]
      /\ \A i \in 1 .. N : t[at[i]] = p[i] /\ \A j \in 1 .. i - 1 : at[j] < at[i]
    BY <1>2 DEF Placed
<1>10. a \in [1 .. N + 1 -> 1 .. Len(t)]
    BY <1>4, <1>5, <1>8, <1>9
<1>11. ASSUME NEW i \in 1 .. N + 1
       PROVE  t[a[i]] = s[i] /\ \A j \in 1 .. i - 1 : a[j] < a[i]
  <2>1. CASE i = N + 1
      BY <1>4, <1>6, <1>8, <2>1
  <2>2. CASE i \in 1 .. N
      BY <1>4, <1>6, <1>9, <2>2
  <2> QED
      BY <1>4, <2>1, <2>2
<1>12. ASSUME NEW n \in 1 .. L - 1, IsDown(r[n])
       PROVE  /\ h[n] \in 1 .. Len(t) /\ t[h[n]] = r[n].key
              /\ \A i \in 1 .. N + 1 : a[i] < h[n]
              /\ \A m \in 1 .. n - 1 : IsDown(r[m]) => h[m] < h[n]
  <2>1. n + 1 \in 1 .. L /\ r[n] = q[n + 1] /\ h[n] = g[n + 1] /\ IsDown(q[n + 1])
      BY <1>3, <1>5, <1>12
  <2>2. /\ g[n + 1] \in 1 .. Len(t) /\ t[g[n + 1]] = q[n + 1].key
        /\ \A i \in 1 .. N : at[i] < g[n + 1]
        /\ \A m \in 1 .. (n + 1) - 1 : IsDown(q[m]) => g[m] < g[n + 1]
      BY <1>2, <2>1 DEF Placed
  <2>3. 1 \in 1 .. (n + 1) - 1
      BY <1>3
  <2>4. g[1] < g[n + 1]
      BY <2>2, <2>3
  <2>5. \A i \in 1 .. N + 1 : a[i] < g[n + 1]
      BY <1>4, <1>6, <2>2, <2>4
  <2>6. \A m \in 1 .. n - 1 : m + 1 \in 1 .. (n + 1) - 1 /\ r[m] = q[m + 1] /\ h[m] = g[m + 1]
      BY <1>3, <1>5
  <2> QED
      BY <2>1, <2>2, <2>5, <2>6
<1>13. Placed(a, s, h, r, t)
    BY <1>3, <1>4, <1>10, <1>11, <1>12 DEF Placed
<1> QED
    BY <1>1, <1>13

\* A backspace takes the last character.
LEMMA PlacedFront ==
    ASSUME NEW at, NEW p \in Seq(Printing), NEW g, NEW q, NEW t, p # <<>>,
           Placed(at, p, g, q, t)
    PROVE  \E a : Placed(a, Front(p), g, q, t)
<1>1. PICK N \in Nat : N = Len(p) - 1
    OBVIOUS
<1>2. \A i \in 1 .. N : p[i] \in Printing
    BY <1>1
<1>3. PICK s : s = SubSeq(p, 1, N)
    OBVIOUS
<1>4. Len(s) = N /\ \A i \in 1 .. N : s[i] = p[i]
    BY <1>1, <1>2, <1>3, SubSeqProperties
<1>5. PICK a : a = [i \in 1 .. N |-> at[i]]
    OBVIOUS
<1>6. 1 .. N \subseteq 1 .. Len(p)
    BY <1>1
<1>7. a \in [1 .. N -> 1 .. Len(t)] /\ \A i \in 1 .. N : a[i] = at[i]
    BY <1>5, <1>6 DEF Placed
<1>8. \A i \in 1 .. N : t[a[i]] = s[i] /\ \A j \in 1 .. i - 1 : a[j] < a[i]
    BY <1>4, <1>6, <1>7 DEF Placed
<1>9. Placed(a, s, g, q, t)
    BY <1>4, <1>6, <1>7, <1>8 DEF Placed
<1> QED
    BY <1>1, <1>3, <1>9 DEF Front

\* What the user sends was typed last.
LEMMA PressKeepsOrder ==
    ASSUME TypeOK, TypedInOrder, NEW k \in Keys, Press(k)
    PROVE  TypedInOrder'
<1>1. PICK at, g : Placed(at, pass, g, queue, typed)
    BY DEF TypedInOrder
<1>2. PICK p, q, t : p = pass /\ q = queue /\ t = typed
    OBVIOUS
<1>3. p \in Seq(Printing) /\ q \in Seq(Byte) /\ t \in Seq(Keys)
    BY <1>2 DEF TypeOK, TypedInOrder
<1>4. PICK r : r = Append(t, k)
    OBVIOUS
<1>5. r \in Seq(Keys) /\ r # <<>> /\ Len(r) = Len(t) + 1 /\ r[Len(r)] = k /\ Len(t) \in Nat
    BY <1>3, <1>4
<1>6. Placed(at, p, g, q, r)
    BY <1>1, <1>2, <1>3, <1>4, PlacedLonger
<1>7. PICK b : b = [key |-> k, up |-> FALSE]
    OBVIOUS
<1>8. b \in Byte /\ b.key = k
    BY <1>7 DEF Byte
<1>9. /\ \A i \in 1 .. Len(p) : at[i] < Len(r)
      /\ \A n \in 1 .. Len(q) : IsDown(q[n]) => g[n] < Len(r)
    BY <1>1, <1>2, <1>5 DEF Placed
<1>10. \E h : Placed(at, p, h, Append(q, b), r)
    BY <1>3, <1>5, <1>6, <1>8, <1>9, PlacedAppend
<1>11. pass' = p /\ typed' = r /\ (queue' = q \/ queue' = Append(q, b))
    BY <1>2, <1>4, <1>7 DEF Press, Send
<1> QED
    BY <1>5, <1>6, <1>10, <1>11 DEF TypedInOrder

LEMMA ReleaseKeepsOrder ==
    ASSUME TypeOK, TypedInOrder, NEW k \in Reported, Release(k)
    PROVE  TypedInOrder'
<1>1. PICK at, g : Placed(at, pass, g, queue, typed)
    BY DEF TypedInOrder
<1>2. PICK p, q, t : p = pass /\ q = queue /\ t = typed
    OBVIOUS
<1>3. p \in Seq(Printing) /\ q \in Seq(Byte) /\ t \in Seq(Keys)
    BY <1>2 DEF TypeOK, TypedInOrder
<1>4. PICK b : b = [key |-> k, up |-> TRUE]
    OBVIOUS
<1>5. b \in Byte /\ ~ IsDown(b)
    BY <1>4, ConsoleAssumption, Zenon DEF Byte, IsDown
<1>6. \E h : Placed(at, p, h, Append(q, b), t)
    BY <1>1, <1>2, <1>3, <1>5, PlacedAppend
<1>7. pass' = p /\ typed' = t /\ (queue' = q \/ queue' = Append(q, b))
    BY <1>2, <1>4 DEF Release, Send
<1> QED
    BY <1>1, <1>2, <1>3, <1>6, <1>7 DEF TypedInOrder

\* A byte that is taken and no more.
LEMMA TakeKeepsOrder ==
    ASSUME TypeOK, TypedInOrder, Available, queue' = Tail(queue), UNCHANGED <<pass, typed>>
    PROVE  TypedInOrder'
<1>1. PICK at, g : Placed(at, pass, g, queue, typed)
    BY DEF TypedInOrder
<1>2. PICK p, q, t : p = pass /\ q = queue /\ t = typed
    OBVIOUS
<1>3. p \in Seq(Printing) /\ q \in Seq(Byte) /\ t \in Seq(Keys) /\ q # <<>>
    BY <1>2 DEF TypeOK, TypedInOrder, Available
<1>4. \E h : Placed(at, p, h, Tail(q), t)
    BY <1>1, <1>2, <1>3, PlacedTail
<1> QED
    BY <1>2, <1>3, <1>4 DEF TypedInOrder

LEMMA ReadKeepsOrder ==
    ASSUME TypeOK, TypedInOrder, ReadChar
    PROVE  TypedInOrder'
<1>1. PICK at, g : Placed(at, pass, g, queue, typed)
    BY DEF TypedInOrder
<1>2. PICK p, q, t : p = pass /\ q = queue /\ t = typed
    OBVIOUS
<1>3. p \in Seq(Printing) /\ q \in Seq(Byte) /\ t \in Seq(Keys) /\ typed' = t
    BY <1>2 DEF TypeOK, TypedInOrder, ReadChar, ReadWith, userVars
<1>4. CASE Available /\ HasChar(Head(queue)) /\ ~ Head(queue).up
  <2>1. q # <<>> /\ Head(q) = q[1] /\ IsDown(q[1])
      BY <1>2, <1>3, <1>4 DEF Available, IsDown
  <2>2. queue' = Tail(q) /\ pass' = Typed(p, q[1].key)
      BY <1>2, <1>4, <2>1 DEF ReadChar, ReadWith, Taken, Accept
  <2>3. \E h : Placed(at, p, h, Tail(q), t)
      BY <1>1, <1>2, <1>3, <2>1, PlacedTail
  <2>4. CASE q[1].key = "backspace" /\ p # <<>>
    <3>1. pass' = Front(p)
        BY <2>2, <2>4 DEF Typed
    <3>2. PICK h : Placed(at, p, h, Tail(q), t)
        BY <2>3
    <3>3. \E a : Placed(a, Front(p), h, Tail(q), t)
        BY <1>3, <2>4, <3>2, PlacedFront
    <3> QED
        BY <1>3, <2>2, <3>1, <3>3 DEF TypedInOrder
  <2>5. CASE ~ (q[1].key = "backspace" /\ p # <<>>) /\ q[1].key \in Printing
    <3>1. pass' = Append(p, q[1].key)
        BY <2>2, <2>5 DEF Typed
    <3>2. \E a, h : Placed(a, Append(p, q[1].key), h, Tail(q), t)
        BY <1>1, <1>2, <1>3, <2>1, <2>5, PlacedRead
    <3> QED
        BY <1>3, <2>2, <3>1, <3>2 DEF TypedInOrder
  <2>6. CASE ~ (q[1].key = "backspace" /\ p # <<>>) /\ q[1].key \notin Printing
    <3>1. pass' = p
        BY <2>2, <2>6 DEF Typed
    <3> QED
        BY <1>3, <2>2, <2>3, <3>1 DEF TypedInOrder
  <2> QED
      BY <2>4, <2>5, <2>6
<1>5. CASE ~ (Available /\ HasChar(Head(queue)) /\ ~ Head(queue).up)
  <2>1. /\ pass' = pass /\ typed' = typed
        /\ queue' = IF Available THEN Tail(queue) ELSE queue
      BY <1>2, <1>3, <1>5 DEF ReadChar, ReadWith
  <2>2. CASE Available
      BY <2>1, <2>2, TakeKeepsOrder
  <2>3. CASE ~ Available
      BY <2>1, <2>3 DEF TypedInOrder
  <2> QED
      BY <2>2, <2>3
<1> QED
    BY <1>4, <1>5

LEMMA OrderStep == ConsoleInv /\ TypedInOrder /\ [Next]_vars => TypedInOrder'
<1> SUFFICES ASSUME TypeOK, TypedInOrder, [Next]_vars PROVE TypedInOrder'
    BY DEF ConsoleInv
<1>1. CASE UNCHANGED <<pass, queue, typed>>
    BY <1>1 DEF TypedInOrder
<1>2. CASE \E k \in Keys : Press(k)
    BY <1>2, PressKeepsOrder
<1>3. CASE \E k \in Reported : Release(k)
    BY <1>3, ReleaseKeepsOrder
<1>4. CASE AwaitByte \/ AwaitPulse \/ Pulse \/ UNCHANGED vars
    BY <1>1, <1>4 DEF AwaitByte, AwaitPulse, Pulse, userVars, vars
<1>5. CASE UpdateState \/ Menu \/ Poll
  <2>1. UNCHANGED <<pass, typed>>
      BY <1>5 DEF UpdateState, Menu, MenuTakes, Poll, userVars
  <2>2. CASE Available
    <3>1. queue' = Tail(queue)
        BY <1>5, <2>2 DEF UpdateState, Menu, MenuTakes, Poll, Taken
    <3> QED
        BY <2>1, <2>2, <3>1, TakeKeepsOrder
  <2>3. CASE ~ Available
    <3>1. UNCHANGED queue
        BY <1>5, <2>3 DEF UpdateState, Menu, MenuTakes, Poll
    <3> QED
        BY <1>1, <2>1, <3>1
  <2> QED
      BY <2>2, <2>3
<1>6. CASE ReadChar
    BY <1>6, ReadKeepsOrder
<1> QED
    BY <1>2, <1>3, <1>4, <1>5, <1>6 DEF Next, Kernel, User

LEMMA OrderInit == Init => TypedInOrder
<1> SUFFICES ASSUME Init PROVE TypedInOrder
    OBVIOUS
<1>1. pass = <<>> /\ queue = <<>> /\ typed = <<>>
    BY DEF Init
<1>2. PICK at : at = [i \in 1 .. 0 |-> i]
    OBVIOUS
<1>3. Placed(at, <<>>, at, <<>>, <<>>)
    BY <1>2 DEF Placed
<1> QED
    BY <1>1, <1>3 DEF TypedInOrder

-----------------------------------------------------------------------------
LEMMA ConsoleInit == Init => ConsoleInv
<1> SUFFICES ASSUME Init PROVE ConsoleInv
    OBVIOUS
<1>1. CmdMax \in Nat /\ PassMax \in Nat \ {0} /\ QueueMax \in Nat
    BY ConsoleAssumption
<1>2. <<>> \in Seq(Byte) /\ <<>> \in Seq(Printing) /\ Len(<<>>) = 0
    OBVIOUS
<1>3. BlankLine \in Line
    BY DEF BlankLine, Line
<1>4. /\ queue \in Seq(Byte) /\ Len(queue) <= QueueMax
      /\ pass \in Seq(Printing) /\ Len(pass) <= PassMax /\ Len(pass) < PassMax
    BY <1>1, <1>2 DEF Init
<1>5. cmd \in Line /\ cmd_idx \in 0 .. CmdMax /\ nodes \in Nat
    BY <1>1, <1>3 DEF Init
<1>6. place = "password" /\ modifiers \subseteq Modifiers /\ {hotkey, pulsed} \subseteq BOOLEAN
    BY DEF Init
<1> QED
    BY <1>4, <1>5, <1>6 DEF ConsoleInv, TypeOK, PassRoom, LineIsClean

\* What the user and the timer do.
LEMMA OutsideKeeps ==
    ASSUME ConsoleInv, User \/ Pulse \/ UNCHANGED vars
    PROVE  ConsoleInv'
<1>1. ASSUME NEW b \in Byte, Send(b),
             UNCHANGED <<place, pass, keyboardVars, shellVars, pulsed>>
      PROVE  ConsoleInv'
  <2>1. queue' \in Seq(Byte) /\ Len(queue') <= QueueMax
      BY <1>1, SendTypes DEF ConsoleInv
  <2> QED
      BY <1>1, <2>1 DEF ConsoleInv, TypeOK, PassRoom, LineIsClean, keyboardVars, shellVars
<1>2. ASSUME NEW k \in Keys, Press(k) PROVE ConsoleInv'
  <2>1. [key |-> k, up |-> FALSE] \in Byte
      BY DEF Byte
  <2> QED
      BY <1>1, <1>2, <2>1 DEF Press
<1>3. ASSUME NEW k \in Reported, Release(k) PROVE ConsoleInv'
  <2>1. [key |-> k, up |-> TRUE] \in Byte
      BY ConsoleAssumption DEF Byte
  <2> QED
      BY <1>1, <1>3, <2>1 DEF Release
<1>4. CASE Pulse
    BY <1>4 DEF Pulse, ConsoleInv, TypeOK, PassRoom, LineIsClean, keyboardVars, shellVars
<1>5. CASE UNCHANGED vars
    BY <1>5 DEF vars, ConsoleInv, TypeOK, PassRoom, LineIsClean, keyboardVars, shellVars
<1> QED
    BY <1>2, <1>3, <1>4, <1>5 DEF User

LEMMA UpdateKeeps ==
    ASSUME TypeOK, UpdateState
    PROVE  /\ queue' \in Seq(Byte) /\ Len(queue') <= QueueMax
           /\ modifiers' \subseteq Modifiers /\ hotkey' \in BOOLEAN
           /\ place = "update" /\ place' = "read"
           /\ UNCHANGED <<pass, shellVars, pulsed>>
<1>1. /\ place = "update" /\ place' = "read" /\ UNCHANGED <<pass, shellVars, pulsed>>
      /\ queue \in Seq(Byte) /\ Len(queue) <= QueueMax
      /\ modifiers \subseteq Modifiers /\ hotkey \in BOOLEAN
    BY DEF UpdateState, TypeOK
<1>2. CASE Available
  <2>1. PICK b : b = Head(queue)
      OBVIOUS
  <2>2. /\ queue' = Tail(queue) /\ modifiers' = NewModifiers(b)
        /\ hotkey' = (hotkey \/ (b = [key |-> "e", up |-> FALSE]
                                 /\ NewModifiers(b) = Modifiers))
      BY <1>2, <2>1 DEF UpdateState, Taken
  <2>3. queue' \in Seq(Byte) /\ Len(queue') <= QueueMax
      BY <1>2, <2>2, TakenTypes
  <2>4. modifiers' \subseteq Modifiers
      BY <1>1, <2>2 DEF NewModifiers
  <2>5. hotkey' \in BOOLEAN
      BY <2>2
  <2> QED
      BY <1>1, <2>3, <2>4, <2>5
<1>3. CASE ~ Available
    BY <1>1, <1>3 DEF UpdateState, keyboardVars
<1> QED
    BY <1>2, <1>3

LEMMA ConsoleStep == ConsoleInv /\ [Next]_vars => ConsoleInv'
<1> SUFFICES ASSUME ConsoleInv, [Next]_vars PROVE ConsoleInv'
    OBVIOUS
<1>1. TypeOK /\ PassRoom /\ LineIsClean
    BY DEF ConsoleInv
<1>2. CASE AwaitByte
    BY <1>1, <1>2 DEF AwaitByte, ConsoleInv, TypeOK, PassRoom, LineIsClean,
                      keyboardVars, shellVars
<1>3. CASE UpdateState
  <2>1. /\ queue' \in Seq(Byte) /\ Len(queue') <= QueueMax
        /\ modifiers' \subseteq Modifiers /\ hotkey' \in BOOLEAN
        /\ place = "update" /\ place' = "read"
        /\ UNCHANGED <<pass, shellVars, pulsed>>
      BY <1>1, <1>3, UpdateKeeps
  <2> QED
      BY <1>1, <2>1 DEF ConsoleInv, TypeOK, PassRoom, LineIsClean, shellVars
<1>4. CASE ReadChar
  <2>1. /\ queue' \in Seq(Byte) /\ Len(queue') <= QueueMax
        /\ pass' \in Seq(Printing) /\ Len(pass') <= PassMax
        /\ place' \in {"password", "update", "menu"} /\ PassRoom'
        /\ UNCHANGED <<keyboardVars, shellVars, pulsed>>
      BY <1>1, <1>4, ReadKeeps
  <2> QED
      BY <1>1, <2>1 DEF ConsoleInv, TypeOK, LineIsClean, keyboardVars, shellVars
<1>5. CASE Menu
  <2>1. /\ queue' \in Seq(Byte) /\ Len(queue') <= QueueMax
        /\ place' \in {"wait", "menu"}
        /\ LineTypes' /\ (place' = "wait" => Clean') /\ pulsed' \in BOOLEAN
        /\ UNCHANGED <<pass, keyboardVars>>
      BY <1>1, <1>5, MenuKeeps
  <2> QED
      BY <1>1, <2>1 DEF ConsoleInv, TypeOK, PassRoom, LineIsClean, keyboardVars,
                        LineTypes, Clean
<1>6. CASE AwaitPulse
    BY <1>1, <1>6 DEF AwaitPulse, ConsoleInv, TypeOK, PassRoom, LineIsClean,
                      keyboardVars, shellVars
<1>7. CASE Poll
  <2>1. /\ queue' \in Seq(Byte) /\ Len(queue') <= QueueMax
        /\ place' \in {"wait", "menu"}
        /\ LineTypes' /\ (place' = "wait" => Clean')
        /\ UNCHANGED <<pass, keyboardVars, pulsed>>
      BY <1>1, <1>7, PollKeeps
  <2> QED
      BY <1>1, <2>1 DEF ConsoleInv, TypeOK, PassRoom, LineIsClean, keyboardVars,
                        LineTypes, Clean
<1>8. CASE User \/ Pulse \/ UNCHANGED vars
    BY <1>8, OutsideKeeps
<1> QED
    BY <1>2, <1>3, <1>4, <1>5, <1>6, <1>7, <1>8 DEF Next, Kernel

-----------------------------------------------------------------------------
LEMMA ConsoleInvariant == Spec => []ConsoleInv
    BY ConsoleInit, ConsoleStep, PTL DEF Spec

\* No buffer of the console overflows, whatever is typed and whenever it is polled:
\* the access key, the command line, the controller (read_password, sovereign_shell).
THEOREM TypeCorrect == Spec => []TypeOK
<1>1. ConsoleInv => TypeOK
    BY DEF ConsoleInv
<1> QED
    BY <1>1, ConsoleInvariant, PTL

\* The command line is what was typed since the last Enter, with zeros behind it
\* (sovereign_shell).
THEOREM LineStaysClean == Spec => []LineIsClean
<1>1. ConsoleInv => LineIsClean
    BY DEF ConsoleInv
<1> QED
    BY <1>1, ConsoleInvariant, PTL

\* The access key is made of characters that were typed, in the order in which they
\* were: a byte that update_state takes leaves a gap, and nothing else (read_password).
THEOREM NothingIsMadeUp == Spec => []PasswordWasTyped
<1>1. Spec => []TypedInOrder
    BY ConsoleInvariant, OrderInit, OrderStep, PTL DEF Spec
<1>2. TypedInOrder => PasswordWasTyped
    BY DEF TypedInOrder, Placed, PasswordWasTyped
<1> QED
    BY <1>1, <1>2, PTL

-----------------------------------------------------------------------------
(* The phase fold: what its layers keep *)

Places == ByteMod * ByteMod
Hits == ByteValues \cup {Missed}
Kepts == {c \in [delta : 0 .. Places - 1, value : ByteValues, ecc : ByteValues] :
             c.ecc = Mixed(c.value, c.delta)}

\* The corrections of a stream stand at the places pos, since places before the end.
StandAt(pos, stream, data, since, length) ==
    /\ pos \in [0 .. Len(stream) -> 0 .. length]
    /\ pos[0] = 0
    /\ \A k \in 1 .. Len(stream) :
          pos[k] = pos[k - 1] + stream[k].delta + 1 /\ stream[k].value = data[pos[k]]
    /\ pos[Len(stream)] + since = length

\* A layer has looked at the first bytes of data: it found a byte or corrects it.
Covers(found, pos, stream, data) ==
    \A i \in 1 .. Len(found) : found[i] = data[i] \/ \E k \in 1 .. Len(stream) : pos[k] = i

Tracks(found, stream, data, since) ==
    /\ found \in Seq(Hits) /\ stream \in Seq(Kepts) /\ data \in Seq(ByteValues)
    /\ since \in Nat /\ Len(found) <= Len(data) /\ Len(data) <= Places
    /\ \E pos : StandAt(pos, stream, data, since, Len(found)) /\ Covers(found, pos, stream, data)

\* The inputs of the layers: each is undone to the one before it.
Undoes(ins, found, layers) ==
    \A l \in 1 .. layers : Corrected(found[l], Parsed(ins[l + 1])) = ins[l]

FoldingInv ==
    Running =>
        /\ Layer \in 1 .. 3 /\ hits \in Seq(Seq(Hits))
        /\ Len(out) <= LayerSizes[Layer]
        /\ Tracks(hits[Layer], out, input, since_last)
        /\ \E ins : ins[1] = sector /\ ins[Layer] = input /\ Undoes(ins, hits, Layer - 1)

FoldedInv ==
    sector = <<>> /\ hits # <<>> =>
        /\ residue \in Seq(Kepts) /\ hits \in Seq(Seq(Hits))
        /\ \E ins : ins[1] = input /\ ins[Len(hits) + 1] = Packed(residue)
                      /\ Undoes(ins, hits, Len(hits))

\* What is kept never outgrows what was written.
CountersInv ==
    /\ writes \in 0 .. MaxWrites
    /\ total_bytes_written \in Nat /\ correction_bytes_stored \in 1 .. total_bytes_written
    /\ total_bytes_written <= 1 + writes * SectorBytes
    /\ Running => total_bytes_written + SectorBytes <= 1 + writes * SectorBytes

FoldInv == FoldingInv /\ FoldedInv /\ CountersInv

-----------------------------------------------------------------------------
(* Corrections and their bytes *)

LEMMA FoldSizes ==
    /\ SectorBytes \in Nat /\ SectorBytes > 0 /\ ByteMod \in Nat /\ ByteMod > 0
    /\ Scale \in Nat /\ Scale > 0 /\ ResidueBytes \in Nat /\ DeltaBytes \in Nat /\ DeltaBytes >= 2
    /\ WordMod \in Nat /\ MaxWrites \in Nat /\ ResidueBytes <= SectorBytes
    /\ CorrectionBytes \in Nat /\ CorrectionBytes >= 4 /\ Places \in Nat
    /\ SectorBytes <= Places /\ 0 \in ByteValues
<1>1. /\ SectorBytes \in Nat /\ SectorBytes > 0 /\ ByteMod \in Nat /\ ByteMod > 0
      /\ Scale \in Nat /\ Scale > 0 /\ ResidueBytes \in Nat /\ DeltaBytes \in Nat /\ DeltaBytes >= 2
      /\ WordMod \in Nat /\ MaxWrites \in Nat /\ ResidueBytes <= SectorBytes
      /\ LayerSizes[1] \in Nat /\ SectorBytes <= LayerSizes[1]
      /\ LayerSizes[1] * CorrectionBytes <= ByteMod * ByteMod
    BY FoldAssumption
<1>2. CorrectionBytes \in Nat /\ CorrectionBytes >= 4
    BY <1>1 DEF CorrectionBytes
<1>3. PICK m \in Nat : m = Places
    BY <1>1 DEF Places
<1>4. PICK s \in Nat, c \in Nat, x \in Nat : s = LayerSizes[1] /\ CorrectionBytes = c + 1 /\ x = s * c
  <2>1. CorrectionBytes - 1 \in Nat /\ CorrectionBytes = (CorrectionBytes - 1) + 1
      BY <1>2
  <2> QED
      BY <1>1, <2>1
<1>5. s * (c + 1) = x + s
    BY <1>4
<1>6. SectorBytes <= m
    BY <1>1, <1>3, <1>4, <1>5 DEF Places
<1>7. 0 \in ByteValues
    BY <1>1 DEF ByteValues
<1> QED
    BY <1>1, <1>2, <1>3, <1>6, <1>7

\* Two bytes hold a place.
LEMMA LowAndHigh ==
    ASSUME NEW d \in 0 .. Places - 1
    PROVE  Low(d) \in ByteValues /\ High(d) \in ByteValues /\ Low(d) + ByteMod * High(d) = d
<1>1. PICK m \in Nat \ {0} : m = ByteMod
    BY FoldSizes
<1>2. d \in Nat /\ d < m * m
    BY <1>1, FoldSizes DEF Places
<1>3. PICK q, r : q = d \div m /\ r = d % m
    OBVIOUS
<1>4. q \in Nat /\ r \in 0 .. m - 1 /\ d = m * q + r
    BY <1>1, <1>2, <1>3, DivMod
<1>5. q < m
  <2>1. SUFFICES ASSUME m <= q PROVE FALSE
      BY <1>1, <1>4
  <2>2. PICK z \in Nat : q = m + z
    <3>1. q - m \in Nat /\ q = m + (q - m)
        BY <1>1, <1>4, <2>1
    <3> QED
        BY <3>1
  <2>3. m * q = m * m + m * z
      BY <1>1, <2>2
  <2>4. PICK u \in Nat, v \in Nat : u = m * m /\ v = m * z
      BY <1>1, <2>2
  <2> QED
      BY <1>2, <1>4, <2>3, <2>4
<1>6. q % m = q
    BY <1>1, <1>4, <1>5, SmallRemainder
<1>7. Low(d) = r /\ High(d) = q
    BY <1>1, <1>3, <1>6 DEF Low, High
<1> QED
    BY <1>1, <1>4, <1>5, <1>7 DEF ByteValues

LEMMA MixedType ==
    ASSUME NEW b \in ByteValues, NEW d \in 0 .. Places - 1
    PROVE  Mixed(b, d) \in ByteValues /\ Mixed(Mixed(b, d), d) = b
<1>1. PICK l \in ByteValues, h \in ByteValues : l = Low(d) /\ h = High(d)
    BY LowAndHigh
<1>2. PICK x \in ByteValues : x = ByteXor(l, h)
    BY ByteXorAssumption
<1> QED
    BY <1>1, <1>2, ByteXorAssumption DEF Mixed

LEMMA CorrectionType ==
    ASSUME NEW b \in ByteValues, NEW d \in 0 .. Places - 1
    PROVE  Correction(d, b) \in Kepts /\ Correction(d, b).delta = d /\ Correction(d, b).value = b
    BY MixedType DEF Correction, Kepts

LEMMA PackedByteType ==
    ASSUME NEW c \in Kepts, NEW n \in 0 .. CorrectionBytes - 1
    PROVE  PackedByte(c, n) \in ByteValues
<1>1. c.delta \in 0 .. Places - 1 /\ c.value \in ByteValues /\ c.ecc \in ByteValues
    BY DEF Kepts
<1>2. Low(c.delta) \in ByteValues /\ High(c.delta) \in ByteValues
    BY <1>1, LowAndHigh
<1>3. n \in 0 .. DeltaBytes + 1
    BY FoldSizes DEF CorrectionBytes
<1> QED
    BY <1>1, <1>2, <1>3, FoldSizes DEF PackedByte

\* The place of a byte in a packed stream is that of its correction and its own in it.
LEMMA PackedPlace ==
    ASSUME NEW j \in Nat, NEW n \in 0 .. CorrectionBytes - 1
    PROVE  /\ (j * CorrectionBytes + n) \div CorrectionBytes = j
           /\ (j * CorrectionBytes + n) % CorrectionBytes = n
<1>1. PICK c \in Nat \ {0} : c = CorrectionBytes
    BY FoldSizes
<1>2. PICK x \in Nat : x = j * c
    BY <1>1
<1>3. PICK q \in Nat, r \in 0 .. c - 1 : q = (x + n) \div c /\ r = (x + n) % c /\ x + n = c * q + r
    BY <1>1, <1>2, DivMod
<1>4. r = n
    BY <1>1, <1>2, <1>3, RemainderIs
<1>5. c * q = c * j
    BY <1>1, <1>2, <1>3, <1>4
<1>6. q = j
    BY <1>1, <1>3, <1>5
<1> QED
    BY <1>1, <1>2, <1>3, <1>4, <1>6

LEMMA PackedIs ==
    ASSUME NEW stream \in Seq(Kepts)
    PROVE  /\ Packed(stream) \in Seq(ByteValues)
           /\ Len(Packed(stream)) = Len(stream) * CorrectionBytes
           /\ \A k \in 1 .. Len(stream), n \in 0 .. CorrectionBytes - 1 :
                 Packed(stream)[(k - 1) * CorrectionBytes + n + 1] = PackedByte(stream[k], n)
<1>1. PICK c \in Nat \ {0}, m \in Nat, size \in Nat :
         c = CorrectionBytes /\ m = Len(stream) /\ size = m * c
    BY FoldSizes, LenProperties
<1>2. PICK p : p = Packed(stream)
    OBVIOUS
<1>3. p = [i \in 1 .. size |-> PackedByte(stream[(i - 1) \div c + 1], (i - 1) % c)]
    BY <1>1, <1>2 DEF Packed
<1>4. ASSUME NEW i \in 1 .. size
      PROVE  PackedByte(stream[(i - 1) \div c + 1], (i - 1) % c) \in ByteValues
  <2>1. PICK q \in Nat, r \in 0 .. c - 1 :
          q = (i - 1) \div c /\ r = (i - 1) % c /\ i - 1 = c * q + r
    <3>1. PICK x \in Nat : x = i - 1
        OBVIOUS
    <3>2. x \div c \in Nat /\ x % c \in 0 .. c - 1 /\ x = c * (x \div c) + (x % c)
        BY <1>1, <3>1, DivMod
    <3> QED
        BY <3>1, <3>2
  <2>2. q < m
    <3>1. SUFFICES ASSUME m <= q PROVE FALSE
        BY <1>1, <2>1
    <3>2. PICK z \in Nat : q = m + z
      <4>1. q - m \in Nat /\ q = m + (q - m)
          BY <1>1, <2>1, <3>1
      <4> QED
          BY <4>1
    <3>3. c * q = m * c + c * z
        BY <1>1, <3>2
    <3>4. PICK v \in Nat : v = c * z
        BY <1>1, <3>2
    <3> QED
        BY <1>1, <2>1, <3>3, <3>4
  <2>3. q + 1 \in 1 .. Len(stream)
      BY <1>1, <2>1, <2>2
  <2>4. stream[q + 1] \in Kepts
      BY <2>3, ElementOfSeq
  <2> QED
      BY <1>1, <2>1, <2>4, PackedByteType
<1>5. p \in Seq(ByteValues) /\ Len(p) = size
    BY <1>3, <1>4
<1>6. ASSUME NEW k \in 1 .. Len(stream), NEW n \in 0 .. CorrectionBytes - 1
      PROVE  p[(k - 1) * CorrectionBytes + n + 1] = PackedByte(stream[k], n)
  <2>1. PICK j \in Nat, x \in Nat : k = j + 1 /\ x = j * c /\ x = (k - 1) * c
    <3>1. k - 1 \in Nat /\ k = (k - 1) + 1
        BY <1>1
    <3> QED
        BY <1>1, <3>1
  <2>2. (x + n) \div c = j /\ (x + n) % c = n
      BY <1>1, <2>1, PackedPlace
  <2>3. x + n + 1 \in 1 .. size
    <3>1. PICK z \in Nat : m = j + 1 + z
      <4>1. m - k \in Nat /\ m = j + 1 + (m - k)
          BY <1>1, <2>1
      <4> QED
          BY <4>1
    <3>2. m * c = j * c + c + z * c
        BY <1>1, <2>1, <3>1
    <3>3. PICK v \in Nat : v = z * c
        BY <1>1, <3>1
    <3> QED
        BY <1>1, <2>1, <3>2, <3>3
  <2>4. (x + n + 1) - 1 = x + n
      BY <1>1, <2>1
  <2>5. p[x + n + 1] = PackedByte(stream[(x + n) \div c + 1], (x + n) % c)
      BY <1>3, <2>3, <2>4
  <2> QED
      BY <1>1, <2>1, <2>2, <2>5
<1> QED
    BY <1>1, <1>2, <1>5, <1>6

LEMMA ParsedPacked ==
    ASSUME NEW stream \in Seq(Kepts)
    PROVE  Parsed(Packed(stream)) = stream
<1>0. PICK c, d, m, p :
         c = CorrectionBytes /\ d = DeltaBytes /\ m = Len(stream) /\ p = Packed(stream)
    OBVIOUS
<1>1. /\ c \in Nat \ {0} /\ m \in Nat /\ d \in Nat /\ c = d + 2 /\ d >= 2
      /\ c = CorrectionBytes /\ d = DeltaBytes /\ m = Len(stream) /\ p = Packed(stream)
  <2>1. c = d + 2
      BY <1>0 DEF CorrectionBytes
  <2> QED
      BY <1>0, <2>1, FoldSizes, LenProperties
<1>2. Len(p) \div c = m
  <2>1. Len(p) = m * c
      BY <1>1, PackedIs
  <2>2. m * c + 0 = m * c /\ 0 \in 0 .. CorrectionBytes - 1
      BY <1>1
  <2>3. (m * CorrectionBytes + 0) \div CorrectionBytes = m
      BY <1>1, <2>2, PackedPlace
  <2> QED
      BY <1>1, <2>1, <2>2, <2>3
<1>3. ASSUME NEW k \in 1 .. m
      PROVE  [delta |-> p[(k - 1) * c + 1] + ByteMod * p[(k - 1) * c + 2],
              value |-> p[(k - 1) * c + d + 1], ecc |-> p[(k - 1) * c + d + 2]] = stream[k]
  <2>1. PICK x \in Nat : x = (k - 1) * c
    <3>1. k - 1 \in Nat
        BY <1>1
    <3> QED
        BY <1>1, <3>1
  <2>2. \A n \in 0 .. c - 1 : p[x + n + 1] = PackedByte(stream[k], n)
    <3>1. k \in 1 .. Len(stream)
        BY <1>1
    <3>2. \A n \in 0 .. CorrectionBytes - 1 :
             Packed(stream)[(k - 1) * CorrectionBytes + n + 1] = PackedByte(stream[k], n)
        BY <3>1, PackedIs
    <3>3. (k - 1) * CorrectionBytes = x
        BY <1>1, <2>1
    <3>4. \A n \in 0 .. CorrectionBytes - 1 : Packed(stream)[x + n + 1] = PackedByte(stream[k], n)
        BY <3>2, <3>3
    <3> QED
        BY <1>1, <3>4
  <2>3. /\ p[x + 0 + 1] = PackedByte(stream[k], 0) /\ p[x + 1 + 1] = PackedByte(stream[k], 1)
        /\ p[x + d + 1] = PackedByte(stream[k], d) /\ p[x + (d + 1) + 1] = PackedByte(stream[k], d + 1)
    <3>1. 0 \in 0 .. c - 1 /\ 1 \in 0 .. c - 1 /\ d \in 0 .. c - 1 /\ d + 1 \in 0 .. c - 1
        BY <1>1
    <3> QED
        BY <2>2, <3>1
  <2>4. x + 0 + 1 = x + 1 /\ x + 1 + 1 = x + 2 /\ x + (d + 1) + 1 = x + d + 2
      BY <1>1, <2>1
  <2>5. PICK kept \in Kepts : kept = stream[k]
      BY <1>1, ElementOfSeq
  <2>6. /\ p[x + 1] = Low(kept.delta) /\ p[x + 2] = High(kept.delta)
        /\ p[x + d + 1] = kept.value /\ p[x + d + 2] = kept.ecc
      BY <1>1, <2>3, <2>4, <2>5 DEF PackedByte
  <2>7. Low(kept.delta) + ByteMod * High(kept.delta) = kept.delta
      BY LowAndHigh DEF Kepts
  <2>8. kept = [delta |-> kept.delta, value |-> kept.value, ecc |-> kept.ecc]
      BY DEF Kepts
  <2> QED
      BY <2>1, <2>5, <2>6, <2>7, <2>8
<1>4. Parsed(p) = [k \in 1 .. m |-> stream[k]]
    BY <1>1, <1>2, <1>3 DEF Parsed
<1>5. stream = [k \in 1 .. m |-> stream[k]]
    BY <1>1, LenProperties
<1> QED
    BY <1>1, <1>4, <1>5

\* Healing undoes whatever happened to a correction's value.
LEMMA HealedIs ==
    ASSUME NEW c \in Kepts, NEW v \in ByteValues
    PROVE  Healed([c EXCEPT !.value = v]) = c /\ Healed(c) = c
<1>1. PICK d \in 0 .. Places - 1, b \in ByteValues, e \in ByteValues :
         c = [delta |-> d, value |-> b, ecc |-> e] /\ e = Mixed(b, d)
    BY DEF Kepts
<1>2. PICK w : w = [c EXCEPT !.value = v]
    OBVIOUS
<1>3. w = [delta |-> d, value |-> v, ecc |-> e]
    BY <1>1, <1>2
<1>4. Mixed(e, d) = b
    BY <1>1, MixedType
<1>5. Mixed(v, d) = e => v = b
  <2>1. Mixed(Mixed(v, d), d) = v
      BY MixedType
  <2> QED
      BY <1>4, <2>1
<1>6. Healed(w) = c
  <2>1. CASE Mixed(v, d) = e
      BY <1>1, <1>3, <1>5, <2>1 DEF Healed
  <2>2. CASE Mixed(v, d) # e
    <3>1. Healed(w) = [w EXCEPT !.value = b]
        BY <1>3, <1>4, <2>2 DEF Healed
    <3> QED
        BY <1>1, <1>3, <3>1
  <2> QED
      BY <2>1, <2>2
<1>7. Healed(c) = c
    BY <1>1 DEF Healed
<1> QED
    BY <1>2, <1>6, <1>7

-----------------------------------------------------------------------------
(* A layer undone *)

Undoing(found) == [at : Nat, bytes : [1 .. Len(found) -> Hits]]

LEMMA CorrectType ==
    ASSUME NEW found \in Seq(Hits), NEW st \in Undoing(found), NEW c \in Kepts
    PROVE  Correct(st, c) \in Undoing(found)
<1>1. PICK at \in Nat, L \in Nat : at = st.at + c.delta + 1 /\ L = Len(found)
    BY LenProperties, FoldSizes DEF Undoing, Kepts
<1>2. PICK bytes \in [1 .. L -> Hits], v \in Hits : bytes = st.bytes /\ v = c.value
    BY <1>1 DEF Undoing, Kepts, Hits
<1>3. [bytes EXCEPT ![at] = v] \in [1 .. L -> Hits]
    BY <1>2
<1>4. Correct(st, c) = [at |-> at, bytes |-> [bytes EXCEPT ![at] = v]]
    BY <1>1, <1>2 DEF Correct
<1> QED
    BY <1>1, <1>3, <1>4 DEF Undoing

LEMMA CorrectionsAre ==
    ASSUME NEW found \in Seq(Hits), NEW stream \in Seq(Kepts)
    PROVE  /\ Corrections(found, stream)[0] = [at |-> 0, bytes |-> found]
           /\ \A n \in 1 .. Len(stream) :
                 Corrections(found, stream)[n] = Correct(Corrections(found, stream)[n - 1], stream[n])
<1> DEFINE start == [at |-> 0, bytes |-> found]
           Round(f) == [n \in 0 .. Len(stream) |->
                           IF n = 0 THEN start ELSE Correct(f[n - 1], stream[n])]
<1>1. Corrections(found, stream) = CHOOSE f : f = Round(f)
    BY DEF Corrections
<1>2. PICK N \in Nat : N = Len(stream)
    BY LenProperties
<1>3. PICK s \in Undoing(found) : s = start
    BY LenProperties DEF Undoing
<1>4. PICK step : step = [p \in Undoing(found) \X (1 .. N) |-> Correct(p[1], stream[p[2]])]
    OBVIOUS
<1>5. IsStep(step, Undoing(found), N)
  <2>1. \A n \in 1 .. N : stream[n] \in Kepts
      BY <1>2, ElementOfSeq
  <2>2. \A p \in Undoing(found) \X (1 .. N) : Correct(p[1], stream[p[2]]) \in Undoing(found)
      BY <2>1, CorrectType
  <2> QED
      BY <1>4, <2>2 DEF IsStep
<1>6. PICK f : IsWalk(f, s, N, step, Undoing(found))
    BY <1>5, WalkExists
<1>7. ASSUME NEW n \in 1 .. N PROVE f[n] = Correct(f[n - 1], stream[n])
  <2>1. f[n - 1] \in Undoing(found) /\ f[n] = step[<<f[n - 1], n>>]
      BY <1>6 DEF IsWalk
  <2> QED
      BY <1>4, <2>1
<1>8. f = Round(f)
    BY <1>2, <1>3, <1>6, <1>7 DEF IsWalk
<1>9. Corrections(found, stream) = Round(Corrections(found, stream))
  <2> HIDE DEF Round
  <2> QED
      BY <1>1, <1>8
<1>10. PICK g : g = Corrections(found, stream)
    OBVIOUS
<1>11. g = [n \in 0 .. N |-> IF n = 0 THEN start ELSE Correct(g[n - 1], stream[n])]
    BY <1>2, <1>9, <1>10
<1>12. ASSUME NEW n \in 1 .. N PROVE g[n] = Correct(g[n - 1], stream[n])
  <2>1. n \in 0 .. N /\ n # 0
      OBVIOUS
  <2> QED
      BY <1>11, <2>1
<1>13. g[0] = start
    BY <1>11
<1> QED
    BY <1>2, <1>10, <1>12, <1>13

\* After n corrections every byte is the layer's, or was found and awaits none of them.
Restored(st, found, pos, data, n) ==
    /\ st \in Undoing(found) /\ st.at = pos[n]
    /\ \A i \in 1 .. Len(found) :
          st.bytes[i] = data[i] \/ (st.bytes[i] = found[i] /\ \A k \in 1 .. n : pos[k] # i)

LEMMA CorrectRestores ==
    ASSUME NEW found \in Seq(Hits), NEW stream \in Seq(Kepts), NEW data, NEW since, NEW pos,
           StandAt(pos, stream, data, since, Len(found)),
           NEW n \in 1 .. Len(stream), NEW st, Restored(st, found, pos, data, n - 1)
    PROVE  Restored(Correct(st, stream[n]), found, pos, data, n)
<1>1. PICK c \in Kepts : c = stream[n]
    BY ElementOfSeq
<1>2. st \in Undoing(found) /\ st.at = pos[n - 1]
    BY DEF Restored
<1>3. Correct(st, c) \in Undoing(found)
    BY <1>2, CorrectType
<1>4. PICK L, at, bytes :
         /\ L \in Nat /\ L = Len(found) /\ at = st.at + c.delta + 1 /\ bytes = st.bytes
         /\ bytes \in [1 .. L -> Hits]
    BY <1>2, LenProperties DEF Undoing
<1>5. at = pos[n] /\ c.value = data[at]
    BY <1>1, <1>2, <1>4 DEF StandAt
<1>6. PICK new : new = [bytes EXCEPT ![at] = data[at]]
    OBVIOUS
<1>7. Correct(st, c) = [at |-> at, bytes |-> new]
    BY <1>4, <1>5, <1>6 DEF Correct
<1>8. ASSUME NEW i \in 1 .. L
      PROVE  new[i] = data[i] \/ (new[i] = found[i] /\ \A k \in 1 .. n : pos[k] # i)
  <2>1. CASE i = at
      BY <1>4, <1>6, <2>1
  <2>2. CASE i # at
    <3>1. new[i] = bytes[i]
        BY <1>6, <2>2
    <3>2. bytes[i] = data[i] \/ (bytes[i] = found[i] /\ \A k \in 1 .. n - 1 : pos[k] # i)
        BY <1>4 DEF Restored
    <3>3. pos[n] # i
        BY <1>5, <2>2
    <3>4. \A k \in 1 .. n : k # n => k \in 1 .. n - 1
        BY LenProperties
    <3> QED
        BY <3>1, <3>2, <3>3, <3>4
  <2> QED
      BY <2>1, <2>2
<1>9. Correct(st, c).at = pos[n] /\ Correct(st, c).bytes = new
    BY <1>5, <1>7
<1> QED
    BY <1>1, <1>3, <1>4, <1>8, <1>9 DEF Restored

\* A layer that looked at all its bytes is undone by its corrections.
LEMMA LayerUndone ==
    ASSUME NEW found, NEW stream, NEW data, NEW since,
           Tracks(found, stream, data, since), Len(found) = Len(data)
    PROVE  Corrected(found, stream) = data
<1>1. found \in Seq(Hits) /\ stream \in Seq(Kepts) /\ data \in Seq(ByteValues)
    BY DEF Tracks
<1>2. PICK pos : StandAt(pos, stream, data, since, Len(found)) /\ Covers(found, pos, stream, data)
    BY DEF Tracks
<1>3. PICK N \in Nat, L \in Nat : N = Len(stream) /\ L = Len(found)
    BY <1>1, LenProperties
<1>4. PICK g : g = Corrections(found, stream)
    OBVIOUS
<1>5. g[0] = [at |-> 0, bytes |-> found] /\ \A n \in 1 .. N : g[n] = Correct(g[n - 1], stream[n])
    BY <1>1, <1>3, <1>4, CorrectionsAre
<1> DEFINE P == {n \in 0 .. N : Restored(g[n], found, pos, data, n)}
<1>6. 0 \in P
  <2>1. g[0] \in Undoing(found)
      BY <1>1, <1>5, LenProperties DEF Undoing
  <2>2. g[0].at = pos[0] /\ g[0].bytes = found
      BY <1>2, <1>5 DEF StandAt
  <2> QED
      BY <2>1, <2>2 DEF Restored
<1>7. ASSUME NEW n \in 1 .. N, n - 1 \in P PROVE n \in P
  <2>1. PICK st : st = g[n - 1] /\ Restored(st, found, pos, data, n - 1)
      BY <1>7
  <2>2. Restored(Correct(st, stream[n]), found, pos, data, n)
      BY <1>1, <1>2, <1>3, <2>1, CorrectRestores
  <2> QED
      BY <1>5, <2>1, <2>2
<1>8. N \in P
  <2> HIDE DEF P
  <2>1. \A n \in 0 .. N : n \in P
      BY <1>6, <1>7, AllTheWay
  <2> QED
      BY <2>1
<1>9. PICK bytes \in [1 .. L -> Hits] : bytes = g[N].bytes
    BY <1>3, <1>8 DEF Restored, Undoing
<1>10. ASSUME NEW i \in 1 .. L PROVE bytes[i] = data[i]
  <2>1. bytes[i] = data[i] \/ (bytes[i] = found[i] /\ \A k \in 1 .. N : pos[k] # i)
      BY <1>3, <1>8, <1>9 DEF Restored
  <2>2. found[i] = data[i] \/ \E k \in 1 .. N : pos[k] = i
      BY <1>2, <1>3 DEF Covers
  <2> QED
      BY <2>1, <2>2
<1>11. data \in [1 .. L -> ByteValues]
    BY <1>1, <1>3, LenProperties
<1>12. bytes = data
    BY <1>9, <1>10, <1>11
<1> QED
    BY <1>3, <1>4, <1>9, <1>12 DEF Corrected

\* What undoes every layer, the last one first, unfolds.
LEMMA UnfoldsTo ==
    ASSUME NEW stream, NEW ins, hits \in Seq(Seq(Hits)),
           ins[Len(hits) + 1] = Packed(stream), Undoes(ins, hits, Len(hits))
    PROVE  Unfolded(stream) = ins[1]
<1> DEFINE Round(f) == [n \in 0 .. Len(hits) |->
                           IF n = 0 THEN Packed(stream)
                           ELSE Corrected(hits[Len(hits) + 1 - n], Parsed(f[n - 1]))]
<1>1. Unfoldings(stream) = CHOOSE f : f = Round(f)
    BY DEF Unfoldings
<1>2. PICK H \in Nat : H = Len(hits)
    BY LenProperties
<1>3. ASSUME NEW n \in 1 .. H
      PROVE  Corrected(hits[H + 1 - n], Parsed(ins[H + 1 - (n - 1)])) = ins[H + 1 - n]
  <2>1. PICK l \in 1 .. H : l = H + 1 - n /\ l + 1 = H + 1 - (n - 1)
      OBVIOUS
  <2>2. Corrected(hits[l], Parsed(ins[l + 1])) = ins[l]
      BY <1>2 DEF Undoes
  <2> QED
      BY <2>1, <2>2
<1>4. PICK f : f = [n \in 0 .. H |-> ins[H + 1 - n]]
    OBVIOUS
<1>5. f = Round(f)
  <2>1. ASSUME NEW n \in 0 .. H
        PROVE  ins[H + 1 - n] = IF n = 0 THEN Packed(stream)
                                ELSE Corrected(hits[H + 1 - n], Parsed(f[n - 1]))
    <3>1. CASE n = 0
        BY <1>2, <3>1
    <3>2. CASE n # 0
      <4>1. n \in 1 .. H /\ n - 1 \in 0 .. H
          BY <3>2
      <4>2. f[n - 1] = ins[H + 1 - (n - 1)]
          BY <1>4, <4>1
      <4> QED
          BY <1>3, <3>2, <4>1, <4>2
    <3> QED
        BY <3>1, <3>2
  <2> QED
      BY <1>2, <1>4, <2>1
<1>6. Unfoldings(stream) = Round(Unfoldings(stream))
  <2> HIDE DEF Round
  <2> QED
      BY <1>1, <1>5
<1>7. PICK g : g = Unfoldings(stream)
    OBVIOUS
<1>8. g = [n \in 0 .. H |-> IF n = 0 THEN Packed(stream)
                            ELSE Corrected(hits[H + 1 - n], Parsed(g[n - 1]))]
    BY <1>2, <1>6, <1>7
<1> DEFINE P == {n \in 0 .. H : g[n] = ins[H + 1 - n]}
<1>9. 0 \in P
  <2>1. g[0] = Packed(stream) /\ H + 1 - 0 = H + 1
      BY <1>8
  <2> QED
      BY <1>2, <2>1
<1>10. ASSUME NEW n \in 1 .. H, n - 1 \in P PROVE n \in P
  <2>1. n \in 0 .. H /\ n # 0
      OBVIOUS
  <2>2. g[n] = Corrected(hits[H + 1 - n], Parsed(g[n - 1]))
      BY <1>8, <2>1
  <2> QED
      BY <1>3, <1>10, <2>2
<1>11. H \in P
  <2> HIDE DEF P
  <2>1. \A n \in 0 .. H : n \in P
      BY <1>9, <1>10, AllTheWay
  <2> QED
      BY <2>1
<1>12. H + 1 - H = 1
    OBVIOUS
<1> QED
    BY <1>2, <1>7, <1>11, <1>12 DEF Unfolded

-----------------------------------------------------------------------------
(* A layer's steps *)

\* A byte that is found.
LEMMA FoundTracks ==
    ASSUME NEW found, NEW stream, NEW data, NEW since,
           Tracks(found, stream, data, since), Len(found) < Len(data)
    PROVE  Tracks(Append(found, data[Len(found) + 1]), stream, data, since + 1)
<1>1. /\ found \in Seq(Hits) /\ stream \in Seq(Kepts) /\ data \in Seq(ByteValues) /\ since \in Nat
      /\ Len(data) <= Places
    BY DEF Tracks
<1>2. PICK pos : StandAt(pos, stream, data, since, Len(found)) /\ Covers(found, pos, stream, data)
    BY DEF Tracks
<1>3. PICK L \in Nat, N \in Nat, M \in Nat : L = Len(found) /\ N = Len(stream) /\ M = Len(data)
    BY <1>1, LenProperties
<1>4. PICK byte \in ByteValues : byte = data[L + 1]
  <2>1. L + 1 \in 1 .. Len(data)
      BY <1>3
  <2> QED
      BY <1>1, <2>1, ElementOfSeq
<1>5. PICK new : new = Append(found, byte)
    OBVIOUS
<1>6. new \in Seq(Hits) /\ Len(new) = L + 1 /\ new[L + 1] = byte /\ \A i \in 1 .. L : new[i] = found[i]
  <2>1. byte \in Hits
      BY DEF Hits
  <2> QED
      BY <1>1, <1>3, <1>5, <2>1, AppendProperties
<1>7. StandAt(pos, stream, data, since + 1, L + 1)
  <2>1. 0 .. L \subseteq 0 .. L + 1
      OBVIOUS
  <2>2. pos \in [0 .. N -> 0 .. L] /\ pos[N] + since = L /\ pos[N] \in Nat
      BY <1>2, <1>3 DEF StandAt
  <2>3. pos \in [0 .. N -> 0 .. L + 1] /\ pos[N] + (since + 1) = L + 1
      BY <1>1, <2>1, <2>2
  <2> QED
      BY <1>2, <1>3, <2>3 DEF StandAt
<1>8. Covers(new, pos, stream, data)
  <2>1. ASSUME NEW i \in 1 .. L + 1 PROVE new[i] = data[i] \/ \E k \in 1 .. N : pos[k] = i
    <3>1. CASE i = L + 1
        BY <1>4, <1>6, <3>1
    <3>2. CASE i # L + 1
      <4>1. i \in 1 .. L
          BY <3>2
      <4> QED
          BY <1>2, <1>3, <1>6, <4>1 DEF Covers
    <3> QED
        BY <3>1, <3>2
  <2> QED
      BY <1>3, <1>6, <2>1 DEF Covers
<1>9. L + 1 <= M /\ since + 1 \in Nat
    BY <1>1, <1>3
<1>10. Tracks(new, stream, data, since + 1)
    BY <1>1, <1>3, <1>6, <1>7, <1>8, <1>9 DEF Tracks
<1> QED
    BY <1>3, <1>4, <1>5, <1>10

\* A byte that is missed and kept.
LEMMA KeepTracks ==
    ASSUME NEW found, NEW stream, NEW data, NEW since,
           Tracks(found, stream, data, since), Len(found) < Len(data)
    PROVE  Tracks(Append(found, Missed),
                  Append(stream, Correction(since, data[Len(found) + 1])), data, 0)
<1>1. /\ found \in Seq(Hits) /\ stream \in Seq(Kepts) /\ data \in Seq(ByteValues) /\ since \in Nat
      /\ Len(data) <= Places
    BY DEF Tracks
<1>2. PICK pos : StandAt(pos, stream, data, since, Len(found)) /\ Covers(found, pos, stream, data)
    BY DEF Tracks
<1>3. PICK L \in Nat, N \in Nat, M \in Nat : L = Len(found) /\ N = Len(stream) /\ M = Len(data)
    BY <1>1, LenProperties
<1>4. PICK byte \in ByteValues : byte = data[L + 1]
  <2>1. L + 1 \in 1 .. Len(data)
      BY <1>3
  <2> QED
      BY <1>1, <2>1, ElementOfSeq
<1>5. pos \in [0 .. N -> 0 .. L] /\ pos[N] + since = L /\ pos[N] \in Nat /\ pos[0] = 0
    BY <1>2, <1>3 DEF StandAt
<1>6. since \in 0 .. Places - 1
    BY <1>1, <1>3, <1>5, FoldSizes
<1>7. PICK c \in Kepts : c = Correction(since, byte) /\ c.delta = since /\ c.value = byte
    BY <1>6, CorrectionType
<1>8. PICK new, more : new = Append(found, Missed) /\ more = Append(stream, c)
    OBVIOUS
<1>9. new \in Seq(Hits) /\ Len(new) = L + 1 /\ \A i \in 1 .. L : new[i] = found[i]
  <2>1. Missed \in Hits
      BY DEF Hits
  <2> QED
      BY <1>1, <1>3, <1>8, <2>1, AppendProperties
<1>10. more \in Seq(Kepts) /\ Len(more) = N + 1 /\ more[N + 1] = c /\ \A k \in 1 .. N : more[k] = stream[k]
    BY <1>1, <1>3, <1>8, AppendProperties
<1>11. PICK at : at = [k \in 0 .. N + 1 |-> IF k = N + 1 THEN L + 1 ELSE pos[k]]
    OBVIOUS
<1>12. at[N + 1] = L + 1 /\ \A k \in 0 .. N : at[k] = pos[k]
    BY <1>11
<1>13. at \in [0 .. N + 1 -> 0 .. L + 1]
  <2>1. \A k \in 0 .. N + 1 : k # N + 1 => k \in 0 .. N
      OBVIOUS
  <2>2. \A k \in 0 .. N : pos[k] \in 0 .. L + 1
      BY <1>5
  <2> QED
      BY <1>11, <2>1, <2>2
<1>14. ASSUME NEW k \in 1 .. N + 1
       PROVE  at[k] = at[k - 1] + more[k].delta + 1 /\ more[k].value = data[at[k]]
  <2>1. CASE k = N + 1
    <3>1. k - 1 = N /\ at[N] = pos[N]
        BY <1>12, <2>1
    <3>2. more[k].delta = since /\ more[k].value = byte
        BY <1>7, <1>10, <2>1
    <3> QED
        BY <1>1, <1>4, <1>5, <1>12, <2>1, <3>1, <3>2
  <2>2. CASE k # N + 1
    <3>1. k \in 1 .. N /\ k - 1 \in 0 .. N /\ k \in 0 .. N
        BY <2>2
    <3>2. pos[k] = pos[k - 1] + stream[k].delta + 1 /\ stream[k].value = data[pos[k]]
        BY <1>2, <1>3, <3>1 DEF StandAt
    <3>3. at[k] = pos[k] /\ at[k - 1] = pos[k - 1] /\ more[k] = stream[k]
        BY <1>10, <1>12, <3>1
    <3> QED
        BY <3>2, <3>3
  <2> QED
      BY <2>1, <2>2
<1>15. StandAt(at, more, data, 0, L + 1)
  <2>1. at[0] = 0 /\ at[N + 1] + 0 = L + 1
      BY <1>5, <1>12
  <2> QED
      BY <1>10, <1>13, <1>14, <2>1 DEF StandAt
<1>16. ASSUME NEW i \in 1 .. L + 1 PROVE new[i] = data[i] \/ \E k \in 1 .. N + 1 : at[k] = i
  <2>1. CASE i = L + 1
    <3>1. N + 1 \in 1 .. N + 1 /\ at[N + 1] = i
        BY <1>12, <2>1
    <3> QED
        BY <3>1
  <2>2. CASE i # L + 1
    <3>1. i \in 1 .. L
        BY <2>2
    <3>2. found[i] = data[i] \/ \E k \in 1 .. N : pos[k] = i
        BY <1>2, <1>3, <3>1 DEF Covers
    <3>3. ASSUME NEW k \in 1 .. N, pos[k] = i PROVE \E j \in 1 .. N + 1 : at[j] = i
      <4>1. k \in 1 .. N + 1 /\ k \in 0 .. N
          OBVIOUS
      <4>2. at[k] = i
          BY <1>12, <3>3, <4>1
      <4> QED
          BY <4>1, <4>2
    <3> QED
        BY <1>9, <3>1, <3>2, <3>3
  <2> QED
      BY <2>1, <2>2
<1>17. Covers(new, at, more, data)
    BY <1>9, <1>10, <1>16 DEF Covers
<1>18. L + 1 <= M
    BY <1>3
<1>19. Tracks(new, more, data, 0)
    BY <1>1, <1>3, <1>9, <1>10, <1>15, <1>17, <1>18 DEF Tracks
<1> QED
    BY <1>3, <1>4, <1>7, <1>8, <1>19

\* A layer that has not begun.
LEMMA FreshTracks ==
    ASSUME NEW data \in Seq(ByteValues), Len(data) <= Places
    PROVE  Tracks(<<>>, <<>>, data, 0)
<1>1. PICK pos : pos = [k \in 0 .. 0 |-> 0]
    OBVIOUS
<1>2. <<>> \in Seq(Hits) /\ <<>> \in Seq(Kepts) /\ Len(<<>>) = 0
    BY EmptySeq
<1>3. pos \in [0 .. 0 -> 0 .. 0] /\ pos[0] = 0 /\ 1 .. 0 = {}
    BY <1>1
<1>4. StandAt(pos, <<>>, data, 0, 0)
    BY <1>2, <1>3 DEF StandAt
<1>5. Covers(<<>>, pos, <<>>, data)
    BY <1>2, <1>3 DEF Covers
<1>6. Len(data) \in Nat
    BY LenProperties
<1> QED
    BY <1>2, <1>4, <1>5, <1>6 DEF Tracks

-----------------------------------------------------------------------------
(* The phase fold's steps *)

\* What is in the middle of a write.
LEMMA InWrite ==
    ASSUME FoldInv, Running
    PROVE  /\ Layer \in 1 .. 3 /\ hits \in Seq(Seq(Hits)) /\ hits[Layer] \in Seq(Hits)
           /\ Len(hits[Layer]) \in Nat /\ Len(input) \in Nat /\ Len(hits[Layer]) <= Len(input)
           /\ input \in Seq(ByteValues) /\ out \in Seq(Kepts) /\ Len(out) \in Nat
           /\ Len(out) <= LayerSizes[Layer] /\ LayerSizes[Layer] \in Nat
           /\ Tracks(hits[Layer], out, input, since_last)
           /\ sector # <<>> /\ ~overrun
<1>1. /\ Layer \in 1 .. 3 /\ hits \in Seq(Seq(Hits)) /\ Len(out) <= LayerSizes[Layer]
      /\ Tracks(hits[Layer], out, input, since_last)
    BY DEF FoldInv, FoldingInv
<1>2. /\ hits[Layer] \in Seq(Hits) /\ input \in Seq(ByteValues) /\ out \in Seq(Kepts)
      /\ Len(hits[Layer]) <= Len(input)
    BY <1>1 DEF Tracks
<1>3. Len(hits[Layer]) \in Nat /\ Len(input) \in Nat /\ Len(out) \in Nat
    BY <1>2, LenProperties
<1>4. LayerSizes[Layer] \in Nat
    BY <1>1, FoldAssumption
<1> QED
    BY <1>1, <1>2, <1>3, <1>4 DEF Running

LEMMA NoteIs ==
    ASSUME hits \in Seq(Seq(Hits)), Layer \in 1 .. 3, NEW new \in Seq(Hits),
           hits' = [hits EXCEPT ![Layer] = new]
    PROVE  /\ hits' \in Seq(Seq(Hits)) /\ Layer' = Layer /\ hits'[Layer] = new
           /\ \A l \in 1 .. Layer - 1 : hits'[l] = hits[l]
<1>1. PICK h, n : h = hits /\ n = Layer
    OBVIOUS
<1>0. n \in Nat \ {0} /\ h \in [1 .. n -> Seq(Hits)] /\ hits' = [h EXCEPT ![n] = new]
    BY <1>1, LenProperties DEF Layer
<1>4. PICK g : g = [h EXCEPT ![n] = new]
    OBVIOUS
<1>5. n \in 1 .. n /\ \A l \in 1 .. n - 1 : l \in 1 .. n /\ l # n
    BY <1>0
<1>6. g \in [1 .. n -> Seq(Hits)] /\ g[n] = new
    BY <1>0, <1>4, <1>5
<1>7. \A l \in 1 .. n - 1 : g[l] = h[l]
    BY <1>0, <1>4, <1>5
<1>2. hits' \in [1 .. n -> Seq(Hits)] /\ hits'[n] = new /\ \A l \in 1 .. n - 1 : hits'[l] = h[l]
    BY <1>0, <1>4, <1>6, <1>7
<1>3. hits' \in Seq(Seq(Hits)) /\ Len(hits') = n
    BY <1>0, <1>2
<1> QED
    BY <1>1, <1>2, <1>3 DEF Layer

\* A step within a layer leaves the layers below undone.
LEMMA LayersBelow ==
    ASSUME NEW h, NEW g, NEW n \in Nat, NEW ins, Undoes(ins, h, n), \A l \in 1 .. n : g[l] = h[l]
    PROVE  Undoes(ins, g, n)
    BY DEF Undoes

LEMMA NotedKeeps ==
    ASSUME FoldInv, Running, NEW new \in Seq(Hits), hits' = [hits EXCEPT ![Layer] = new],
           UNCHANGED <<sector, input, residue, overrun, counters>>,
           Tracks(new, out', input, since_last'), Len(out') <= LayerSizes[Layer]
    PROVE  FoldInv'
<1>1. Layer \in 1 .. 3 /\ hits \in Seq(Seq(Hits)) /\ sector # <<>> /\ ~overrun
    BY InWrite
<1>2. /\ hits' \in Seq(Seq(Hits)) /\ Layer' = Layer /\ hits'[Layer] = new
      /\ \A l \in 1 .. Layer - 1 : hits'[l] = hits[l]
    BY <1>1, NoteIs
<1>3. PICK ins : ins[1] = sector /\ ins[Layer] = input /\ Undoes(ins, hits, Layer - 1)
    BY DEF FoldInv, FoldingInv
<1>4. Layer - 1 \in Nat
    BY <1>1
<1>5. Undoes(ins, hits', Layer - 1)
    BY <1>2, <1>3, <1>4, LayersBelow
<1>6. sector' = sector /\ input' = input
    OBVIOUS
<1>7. FoldingInv'
    BY <1>1, <1>2, <1>3, <1>5, <1>6 DEF FoldingInv
<1>8. FoldedInv'
    BY <1>1, <1>6 DEF FoldedInv
<1>9. CountersInv'
    BY DEF FoldInv, CountersInv, counters, Running
<1> QED
    BY <1>7, <1>8, <1>9 DEF FoldInv

LEMMA FoundKeeps == ASSUME FoldInv, Found PROVE FoldInv'
<1>1. Running /\ Position <= Len(input) /\ Note(input[Position]) /\ since_last' = since_last + 1
      /\ UNCHANGED <<sector, input, out, residue, overrun, counters>>
    BY DEF Found
<1>2. PICK f, p : f = hits[Layer] /\ p = Len(f) + 1 /\ p = Position
    BY DEF Position
<1>3. /\ f \in Seq(Hits) /\ Len(f) < Len(input) /\ Tracks(f, out, input, since_last)
      /\ Len(out) <= LayerSizes[Layer]
    BY <1>1, <1>2, InWrite
<1>4. Tracks(Append(f, input[p]), out, input, since_last + 1)
    BY <1>2, <1>3, FoundTracks
<1>5. Append(f, input[p]) \in Seq(Hits)
    BY <1>4 DEF Tracks
<1>6. hits' = [hits EXCEPT ![Layer] = Append(f, input[p])]
    BY <1>1, <1>2 DEF Note
<1> QED
    BY <1>1, <1>3, <1>4, <1>5, <1>6, NotedKeeps

LEMMA KeepKeeps == ASSUME FoldInv, Keep PROVE FoldInv'
<1>1. /\ Running /\ Position <= Len(input) /\ Len(out) < LayerSizes[Layer]
      /\ Note(Missed) /\ out' = Append(out, Correction(since_last, input[Position])) /\ since_last' = 0
      /\ UNCHANGED <<sector, input, residue, overrun, counters>>
    BY DEF Keep
<1>2. PICK f, p : f = hits[Layer] /\ p = Len(f) + 1 /\ p = Position
    BY DEF Position
<1>3. /\ f \in Seq(Hits) /\ Len(f) < Len(input) /\ Tracks(f, out, input, since_last)
      /\ out \in Seq(Kepts) /\ Len(out) \in Nat /\ LayerSizes[Layer] \in Nat
    BY <1>1, <1>2, InWrite
<1>4. Tracks(Append(f, Missed), out', input, 0)
    BY <1>1, <1>2, <1>3, KeepTracks
<1>5. Append(f, Missed) \in Seq(Hits)
    BY <1>4 DEF Tracks
<1>6. hits' = [hits EXCEPT ![Layer] = Append(f, Missed)]
    BY <1>1, <1>2 DEF Note
<1>7. Len(out') = Len(out) + 1
  <2>1. out' \in Seq(Kepts)
      BY <1>4 DEF Tracks
  <2> QED
      BY <1>1, <1>3, <2>1, AppendProperties
<1>8. Len(out') <= LayerSizes[Layer]
    BY <1>1, <1>3, <1>7
<1> QED
    BY <1>1, <1>4, <1>5, <1>6, <1>8, NotedKeeps

\* Something beyond an array was written: nothing is said of what follows.
LEMMA OverrunKeeps == ASSUME FoldInv, Overrun PROVE FoldInv'
<1>1. overrun' = TRUE /\ sector' = <<>> /\ hits' = <<>> /\ UNCHANGED counters
    BY DEF Overrun
<1>2. ~Running'
    BY <1>1 DEF Running
<1>3. CountersInv'
    BY <1>1, <1>2 DEF FoldInv, CountersInv, counters
<1> QED
    BY <1>1, <1>2, <1>3 DEF FoldInv, FoldingInv, FoldedInv

LEMMA BeginKeeps == ASSUME FoldInv, BeginWrite PROVE FoldInv'
<1>1. /\ ~Running /\ ~overrun /\ writes < MaxWrites
      /\ sector' \in Sectors /\ input' = sector'
      /\ out' = <<>> /\ since_last' = 0 /\ hits' = << <<>> >> /\ writes' = writes + 1
      /\ UNCHANGED <<overrun, total_bytes_written, correction_bytes_stored>>
    BY DEF BeginWrite
<1>2. sector' \in Seq(ByteValues) /\ Len(sector') = SectorBytes /\ sector' # <<>>
  <2>1. sector' \in [1 .. SectorBytes -> ByteValues]
      BY <1>1, FoldAssumption
  <2>2. sector' \in Seq(ByteValues) /\ Len(sector') = SectorBytes
      BY <2>1, FoldSizes
  <2> QED
      BY <2>2, FoldSizes, EmptySeq
<1>3. <<>> \in Seq(Hits) /\ Len(<<>>) = 0
    BY EmptySeq
<1>4. hits' \in Seq(Seq(Hits)) /\ Layer' = 1 /\ hits'[1] = <<>>
    BY <1>1, <1>3 DEF Layer
<1>5. Tracks(<<>>, <<>>, sector', 0)
    BY <1>2, FoldSizes, FreshTracks
<1>6. Len(out') <= LayerSizes[1]
    BY <1>1, <1>3, FoldAssumption
<1>7. FoldingInv'
  <2>1. PICK ins : ins = <<sector'>>
      OBVIOUS
  <2>2. ins[1] = sector' /\ Undoes(ins, hits', 0)
      BY <2>1 DEF Undoes
  <2>3. 1 - 1 = 0
      OBVIOUS
  <2>4. Layer' \in 1 .. 3 /\ Len(out') <= LayerSizes[Layer']
      BY <1>4, <1>6
  <2>5. Tracks(hits'[Layer'], out', input', since_last')
      BY <1>1, <1>4, <1>5
  <2>6. ins[1] = sector' /\ ins[Layer'] = input' /\ Undoes(ins, hits', Layer' - 1)
      BY <1>1, <1>4, <2>2, <2>3
  <2> QED
      BY <1>4, <2>4, <2>5, <2>6 DEF FoldingInv
<1>8. FoldedInv'
    BY <1>2 DEF FoldedInv
<1>9. CountersInv'
  <2>1. writes \in 0 .. MaxWrites /\ MaxWrites \in Nat /\ SectorBytes \in Nat
        /\ total_bytes_written \in Nat /\ correction_bytes_stored \in 1 .. total_bytes_written
        /\ total_bytes_written <= 1 + writes * SectorBytes
      BY FoldSizes DEF FoldInv, CountersInv
  <2>2. PICK w \in Nat, x \in Nat : w = writes /\ x = w * SectorBytes
      BY <2>1
  <2>3. (w + 1) * SectorBytes = x + SectorBytes
      BY <2>1, <2>2
  <2>4. writes' \in 0 .. MaxWrites
      BY <1>1, <2>1
  <2> QED
      BY <1>1, <2>1, <2>2, <2>3, <2>4 DEF CountersInv
<1> QED
    BY <1>7, <1>8, <1>9 DEF FoldInv

\* The layers and their inputs when a layer is done, with its stream behind them.
LEMMA LayerDone ==
    ASSUME FoldInv, Running, Position > Len(input)
    PROVE  \E ins : /\ ins[1] = sector /\ ins[Layer + 1] = Packed(out)
                    /\ Undoes(ins, hits, Layer)
<1>1. PICK old : old[1] = sector /\ old[Layer] = input /\ Undoes(old, hits, Layer - 1)
    BY DEF FoldInv, FoldingInv
<1>2. PICK n \in 1 .. 3 : n = Layer
    BY InWrite
<1>3. Corrected(hits[n], out) = input
  <2>1. Len(hits[n]) = Len(input)
      BY <1>2, InWrite DEF Position
  <2> QED
      BY <1>2, <2>1, InWrite, LayerUndone
<1>4. Parsed(Packed(out)) = out
    BY InWrite, ParsedPacked
<1>5. PICK ins : ins = [l \in 1 .. n + 1 |-> IF l = n + 1 THEN Packed(out) ELSE old[l]]
    OBVIOUS
<1>6. ins[n + 1] = Packed(out) /\ \A l \in 1 .. n : ins[l] = old[l]
    BY <1>5
<1>7. ASSUME NEW l \in 1 .. n PROVE Corrected(hits[l], Parsed(ins[l + 1])) = ins[l]
  <2>1. CASE l = n
      BY <1>1, <1>2, <1>3, <1>4, <1>6, <2>1
  <2>2. CASE l # n
    <3>1. l \in 1 .. n - 1 /\ l + 1 \in 1 .. n
        BY <2>2
    <3>2. Corrected(hits[l], Parsed(old[l + 1])) = old[l]
        BY <1>1, <1>2, <3>1 DEF Undoes
    <3> QED
        BY <1>6, <3>1, <3>2
  <2> QED
      BY <2>1, <2>2
<1>8. ins[1] = sector
  <2>1. 1 \in 1 .. n
      OBVIOUS
  <2> QED
      BY <1>1, <1>6, <2>1
<1> QED
    BY <1>2, <1>6, <1>7, <1>8 DEF Undoes

LEMMA NextLayerKeeps == ASSUME FoldInv, NextLayer PROVE FoldInv'
<1>1. /\ Running /\ Position > Len(input) /\ Layer < 3
      /\ input' = Packed(out) /\ out' = <<>> /\ since_last' = 0
      /\ hits' = Append(hits, <<>>)
      /\ UNCHANGED <<sector, residue, overrun, counters>>
    BY DEF NextLayer
<1>2. PICK n \in 1 .. 2 : n = Layer
    BY <1>1, InWrite
<1>3. hits \in Seq(Seq(Hits)) /\ out \in Seq(Kepts) /\ sector # <<>> /\ ~overrun
      /\ Len(out) \in Nat /\ LayerSizes[n] \in Nat /\ Len(out) <= LayerSizes[n]
    BY <1>1, <1>2, InWrite
<1>4. <<>> \in Seq(Hits) /\ Len(<<>>) = 0
    BY EmptySeq
<1>5. /\ hits' \in Seq(Seq(Hits)) /\ Layer' = n + 1 /\ hits'[n + 1] = <<>>
      /\ \A l \in 1 .. n : hits'[l] = hits[l]
    BY <1>1, <1>2, <1>3, <1>4, AppendProperties DEF Layer
<1>6. Len(Packed(out)) <= Places
  <2>1. Len(Packed(out)) = Len(out) * CorrectionBytes
      BY <1>3, PackedIs
  <2>2. LayerSizes[n] * CorrectionBytes <= Places
      BY FoldAssumption DEF Places
  <2>3. PICK z \in Nat, c \in Nat, x \in Nat :
          LayerSizes[n] = Len(out) + z /\ c = CorrectionBytes /\ x = z * c
    <3>1. PICK z : z = LayerSizes[n] - Len(out)
        OBVIOUS
    <3>2. z \in Nat /\ LayerSizes[n] = Len(out) + z
        BY <1>3, <3>1
    <3>3. CorrectionBytes \in Nat /\ z * CorrectionBytes \in Nat
        BY <3>2, FoldSizes
    <3> QED
        BY <3>2, <3>3
  <2>4. LayerSizes[n] * c = Len(out) * c + x
      BY <1>3, <2>3
  <2>5. PICK y \in Nat : y = Len(out) * c
      BY <1>3, <2>3
  <2> QED
      BY <2>1, <2>2, <2>3, <2>4, <2>5, FoldSizes
<1>7. Tracks(<<>>, <<>>, Packed(out), 0)
    BY <1>3, <1>6, PackedIs, FreshTracks
<1>8. PICK ins : ins[1] = sector /\ ins[n + 1] = Packed(out) /\ Undoes(ins, hits, n)
    BY <1>1, <1>2, LayerDone
<1>9. Undoes(ins, hits', n)
  <2>1. PICK g : g = hits'
      OBVIOUS
  <2>2. n \in Nat /\ \A l \in 1 .. n : g[l] = hits[l]
      BY <1>5, <2>1
  <2>3. Undoes(ins, g, n)
      BY <1>8, <2>2, LayersBelow
  <2> QED
      BY <2>1, <2>3
<1>10. FoldingInv'
  <2>1. Layer' \in 1 .. 3 /\ Layer' - 1 = n
      BY <1>5
  <2>2. Len(out') <= LayerSizes[Layer']
    <3>1. PICK m \in 1 .. 3 : m = Layer'
        BY <2>1
    <3>2. LayerSizes[m] \in Nat
        BY FoldAssumption
    <3>3. Len(out') = 0
        BY <1>1
    <3> QED
        BY <3>1, <3>2, <3>3
  <2>3. Tracks(hits'[Layer'], out', input', since_last')
      BY <1>1, <1>5, <1>7
  <2>4. ins[1] = sector' /\ ins[Layer'] = input' /\ Undoes(ins, hits', Layer' - 1)
      BY <1>1, <1>5, <1>8, <1>9, <2>1
  <2> QED
      BY <1>5, <2>1, <2>2, <2>3, <2>4 DEF FoldingInv
<1>11. FoldedInv'
    BY <1>1, <1>3 DEF FoldedInv
<1>12. CountersInv'
    BY <1>1 DEF FoldInv, CountersInv, counters, Running
<1> QED
    BY <1>10, <1>11, <1>12 DEF FoldInv

LEMMA EndKeeps == ASSUME FoldInv, EndWrite PROVE FoldInv'
<1>1. /\ Running /\ Position > Len(input) /\ Len(out) * CorrectionBytes <= ResidueBytes
      /\ residue' = out /\ sector' = <<>> /\ input' = sector
      /\ total_bytes_written' = total_bytes_written + SectorBytes
      /\ correction_bytes_stored' = correction_bytes_stored + Len(out) * CorrectionBytes
      /\ UNCHANGED <<out, since_last, hits, overrun, writes>>
    BY DEF EndWrite
<1>2. hits \in Seq(Seq(Hits)) /\ out \in Seq(Kepts) /\ Len(out) \in Nat
    BY <1>1, InWrite
<1>3. PICK ins : ins[1] = sector /\ ins[Layer + 1] = Packed(out) /\ Undoes(ins, hits, Layer)
    BY <1>1, LayerDone
<1>4. FoldedInv'
    BY <1>1, <1>2, <1>3 DEF FoldedInv, Layer
<1>5. ~Running'
    BY <1>1 DEF Running
<1>6. CountersInv'
  <2>1. PICK x \in Nat : x = Len(out) * CorrectionBytes
      BY <1>2, FoldSizes
  <2>2. PICK w \in Nat : w = writes * SectorBytes
      BY FoldSizes DEF FoldInv, CountersInv
  <2> QED
      BY <1>1, <1>5, <2>1, <2>2, FoldSizes DEF FoldInv, CountersInv
<1> QED
    BY <1>4, <1>5, <1>6 DEF FoldInv, FoldingInv

LEMMA FoldInductive == FoldSpec => []FoldInv
<1>1. FoldInit => FoldInv
  <2> SUFFICES ASSUME FoldInit PROVE FoldInv
      OBVIOUS
  <2>1. sector = <<>> /\ hits = <<>> /\ writes = 0
        /\ total_bytes_written = 1 /\ correction_bytes_stored = 1
      BY DEF FoldInit
  <2>2. ~Running
      BY <2>1 DEF Running
  <2>3. CountersInv
      BY <2>1, <2>2, FoldSizes DEF CountersInv
  <2> QED
      BY <2>1, <2>2, <2>3 DEF FoldInv, FoldingInv, FoldedInv
<1>2. FoldInv /\ [FoldNext]_foldVars => FoldInv'
  <2> SUFFICES ASSUME FoldInv, [FoldNext]_foldVars PROVE FoldInv'
      OBVIOUS
  <2>1. CASE BeginWrite
      BY <2>1, BeginKeeps
  <2>2. CASE Found
      BY <2>2, FoundKeeps
  <2>3. CASE Keep
      BY <2>3, KeepKeeps
  <2>4. CASE KeepTooMany \/ EndTooLong
      BY <2>4, OverrunKeeps DEF KeepTooMany, EndTooLong
  <2>5. CASE NextLayer
      BY <2>5, NextLayerKeeps
  <2>6. CASE EndWrite
      BY <2>6, EndKeeps
  <2>7. CASE UNCHANGED foldVars
      BY <2>7 DEF foldVars, FoldInv, FoldingInv, FoldedInv, CountersInv, Running, Layer
  <2> QED
      BY <2>1, <2>2, <2>3, <2>4, <2>5, <2>6, <2>7 DEF FoldNext
<1> QED
    BY <1>1, <1>2, PTL DEF FoldSpec

\* What the layers found and the residue together give the sector back, and do so
\* when a value in the residue was damaged and healed: for every size of sector and
\* of the layers' arrays, and whichever bytes the layers find.
THEOREM ResidueIsEnough == FoldSpec => []ResidueUnfolds
<1>1. FoldInv => ResidueUnfolds
  <2> SUFFICES ASSUME FoldInv, sector = <<>>, hits # <<>>
               PROVE  /\ Unfolded(residue) = input
                      /\ \A stream \in Damaged :
                            Unfolded([k \in DOMAIN stream |-> Healed(stream[k])]) = input
      BY DEF ResidueUnfolds
  <2>1. residue \in Seq(Kepts) /\ hits \in Seq(Seq(Hits))
      BY DEF FoldInv, FoldedInv
  <2>2. Unfolded(residue) = input
    <3>1. PICK ins : ins[1] = input /\ ins[Len(hits) + 1] = Packed(residue)
                     /\ Undoes(ins, hits, Len(hits))
        BY DEF FoldInv, FoldedInv
    <3> QED
        BY <2>1, <3>1, UnfoldsTo
  <2>3. ASSUME NEW k \in DOMAIN residue, NEW v \in ByteValues
        PROVE  LET stream == [residue EXCEPT ![k].value = v]
               IN  [j \in DOMAIN stream |-> Healed(stream[j])] = residue
    <3>1. PICK n, r : n \in Nat /\ r = residue /\ r \in [1 .. n -> Kepts]
        BY <2>1, LenProperties
    <3>2. PICK c, w : c \in Kepts /\ c = r[k] /\ w = [c EXCEPT !.value = v]
        BY <3>1
    <3>3. PICK s : s = [r EXCEPT ![k] = w]
        OBVIOUS
    <3>4. s = [residue EXCEPT ![k].value = v]
        BY <3>1, <3>2, <3>3
    <3>5. ASSUME NEW j \in 1 .. n PROVE Healed(s[j]) = r[j]
      <4>1. CASE j = k
          BY <3>1, <3>2, <3>3, <4>1, HealedIs
      <4>2. CASE j # k
        <5>1. s[j] = r[j] /\ r[j] \in Kepts
            BY <3>1, <3>3, <4>2
        <5>2. v \in ByteValues /\ Healed(r[j]) = r[j]
            BY <5>1, HealedIs
        <5> QED
            BY <5>1, <5>2
      <4> QED
          BY <4>1, <4>2
    <3>6. DOMAIN s = 1 .. n
        BY <3>1, <3>3
    <3>7. [j \in DOMAIN s |-> Healed(s[j])] = r
        BY <3>1, <3>5, <3>6
    <3> QED
        BY <3>1, <3>4, <3>7
  <2>4. ASSUME NEW stream \in Damaged
        PROVE  Unfolded([j \in DOMAIN stream |-> Healed(stream[j])]) = input
    <3>1. PICK k \in DOMAIN residue, v \in ByteValues : stream = [residue EXCEPT ![k].value = v]
        BY DEF Damaged
    <3>2. [j \in DOMAIN stream |-> Healed(stream[j])] = residue
        BY <2>3, <3>1
    <3> QED
        BY <2>2, <3>2
  <2> QED
      BY <2>2, <2>4
<1> QED
    BY <1>1, FoldInductive, PTL

\* The match rate is a rate: for any number of sectors written that the counters'
\* words have room for, and however badly these fold.
THEOREM MatchRateIsARate == FoldSpec => []RateIsARate
<1>1. FoldInv => RateIsARate
  <2> SUFFICES ASSUME FoldInv PROVE RateIsARate
      OBVIOUS
  <2>1. PICK t \in Nat, c \in Nat, s \in Nat :
          t = total_bytes_written /\ c = correction_bytes_stored /\ s = Scale
          /\ 1 <= c /\ c <= t /\ 0 < s
      BY FoldSizes DEF FoldInv, CountersInv
  <2>2. PICK x \in Nat, q \in Nat, r \in Nat : x = c * s /\ q = x \div t /\ x = t * q + r
    <3>1. PICK x \in Nat : x = c * s
        BY <2>1
    <3>2. t \in Nat \ {0}
        BY <2>1
    <3>3. x \div t \in Nat /\ x % t \in 0 .. t - 1 /\ x = t * (x \div t) + (x % t)
        BY <3>2, DivMod
    <3> QED
        BY <3>1, <3>3
  <2>3. q <= s
    <3>1. SUFFICES ASSUME s < q PROVE FALSE
        BY <2>1, <2>2
    <3>2. PICK z \in Nat, y \in Nat : q = s + 1 + z /\ t = c + y
      <4>1. q - s - 1 \in Nat /\ q = s + 1 + (q - s - 1) /\ t - c \in Nat /\ t = c + (t - c)
          BY <2>1, <2>2, <3>1
      <4> QED
          BY <4>1
    <3>3. t * q = c * s + y * s + t + t * z
        BY <2>1, <3>2
    <3>4. PICK u \in Nat, v \in Nat : u = y * s /\ v = t * z
        BY <2>1, <3>2
    <3> QED
        BY <2>1, <2>2, <3>3, <3>4
  <2>4. s < WordMod
    <3>1. PICK w \in Nat, y \in Nat : w = MaxWrites * SectorBytes /\ y = w * s
        BY <2>1, FoldSizes
    <3>2. (1 + w) * s = s + y
        BY <2>1, <3>1
    <3> QED
        BY <2>1, <3>1, <3>2, FoldSizes, FoldAssumption
  <2>5. PICK d \in 0 .. s : d = s - q
      BY <2>2, <2>3
  <2>6. d % WordMod = d
    <3>1. WordMod \in Nat \ {0} /\ d \in 0 .. WordMod - 1
        BY <2>1, <2>4, <2>5, FoldSizes
    <3> QED
        BY <3>1, SmallRemainder
  <2> QED
      BY <2>1, <2>2, <2>5, <2>6 DEF RateIsARate, get_match_rate_scaled
<1> QED
    BY <1>1, FoldInductive, PTL

-----------------------------------------------------------------------------
(* The hash: sequences and their blocks *)

Message == Seq(HashedBytes)

LEMMA HashSizes ==
    /\ BlockBytes \in Nat \ {0} /\ LengthBytes \in Nat /\ 1 <= LengthBytes
    /\ LengthBytes < BlockBytes /\ Radix \in Nat \ {0} /\ SeedBytes \in Nat
    BY HashAssumption

LEMMA JoinedIs ==
    ASSUME NEW S, NEW s \in Seq(S), NEW t \in Seq(S), NEW r, r = s \o t
    PROVE  /\ r \in Seq(S) /\ Len(r) = Len(s) + Len(t)
           /\ \A i \in 1 .. Len(s) : r[i] = s[i]
           /\ \A i \in 1 .. Len(t) : r[Len(s) + i] = t[i]
<1>2. /\ r \in Seq(S) /\ Len(r) = Len(s) + Len(t)
      /\ \A i \in 1 .. Len(s) + Len(t) : r[i] = IF i <= Len(s) THEN s[i] ELSE t[i - Len(s)]
    BY ConcatProperties, Zenon
<1>3. PICK m \in Nat, n \in Nat : m = Len(s) /\ n = Len(t)
    OBVIOUS
<1>4. \A i \in 1 .. m : r[i] = s[i]
  <2>1. \A i \in 1 .. m : i \in 1 .. m + n /\ i <= m
      OBVIOUS
  <2> QED
      BY <1>2, <1>3, <2>1
<1>5. \A i \in 1 .. n : r[m + i] = t[i]
  <2> SUFFICES ASSUME NEW i \in 1 .. n PROVE r[m + i] = t[i]
      OBVIOUS
  <2>1. PICK j \in 1 .. m + n : j = m + i
      OBVIOUS
  <2>2. ~ (j <= m) /\ j - m = i
      BY <2>1
  <2>3. r[j] = t[j - m]
      BY <1>2, <1>3, <2>2
  <2> QED
      BY <2>1, <2>2, <2>3
<1> QED
    BY <1>2, <1>3, <1>4, <1>5

LEMMA SameElements ==
    ASSUME NEW S, NEW s \in Seq(S), NEW t \in Seq(S), Len(s) = Len(t),
           \A i \in 1 .. Len(s) : s[i] = t[i]
    PROVE  s = t
    OBVIOUS

\* A block of so many bytes.
Whole == [1 .. BlockBytes -> HashedBytes]

LEMMA WholeIs ==
    ASSUME NEW b \in Whole
    PROVE  b \in Message /\ Len(b) = BlockBytes
<1>1. BlockBytes \in Nat
    BY HashSizes
<1> QED
    BY <1>1 DEF Whole, Message

\* The n bytes behind the first a.
IsPiece(p, w, a, n) == p \in Message /\ Len(p) = n /\ \A i \in 1 .. n : p[i] = w[a + i]

LEMMA PieceIs ==
    ASSUME NEW w \in Message, NEW a \in Nat, NEW n \in Nat, a + n <= Len(w),
           NEW p, p = SubSeq(w, a + 1, a + n)
    PROVE  IsPiece(p, w, a, n)
<1>1. PICK x \in Int, y \in Int : x = a + 1 /\ y = a + n
    OBVIOUS
<1>2. w \in Seq(HashedBytes) /\ Len(w) \in Nat
    BY DEF Message
<1>3. \A i \in x .. y : w[i] \in HashedBytes
  <2>1. \A i \in x .. y : i \in 1 .. Len(w)
      BY <1>1, <1>2
  <2> QED
      BY <1>2, <2>1, ElementOfSeq
<1>4. p = SubSeq(w, x, y)
    BY <1>1
<1>5. /\ p \in Seq(HashedBytes) /\ Len(p) = IF x <= y THEN y - x + 1 ELSE 0
      /\ \A i \in 1 .. y - x + 1 : p[i] = w[x + i - 1]
  <2>1. w \in Seq(HashedBytes)
      BY <1>2
  <2> QED
      BY <1>3, <1>4, <2>1, SubSeqProperties
<1>6. Len(p) = n
    BY <1>1, <1>5
<1>7. \A i \in 1 .. n : i \in 1 .. y - x + 1 /\ x + i - 1 = a + i
    BY <1>1
<1>8. \A i \in 1 .. n : p[i] = w[a + i]
    BY <1>5, <1>7
<1> QED
    BY <1>5, <1>6, <1>8 DEF IsPiece, Message

LEMMA BlockIs ==
    ASSUME NEW w \in Message, NEW k \in Nat \ {0}, NEW a \in Nat, a = (k - 1) * BlockBytes,
           a + BlockBytes <= Len(w)
    PROVE  /\ Block(w, k) \in Whole
           /\ \A i \in 1 .. BlockBytes : Block(w, k)[i] = w[a + i]
<1>1. PICK n \in Nat : n = BlockBytes
    BY HashSizes
<1>2. k * n = a + n
    BY <1>1
<1>3. PICK b : b = SubSeq(w, a + 1, a + n)
    OBVIOUS
<1>4. a + n <= Len(w)
    BY <1>1
<1>5. IsPiece(b, w, a, n)
    BY <1>3, <1>4, PieceIs
<1>6. b = Block(w, k)
    BY <1>1, <1>2, <1>3 DEF Block
<1>7. b \in [1 .. n -> HashedBytes] /\ \A i \in 1 .. n : b[i] = w[a + i]
    BY <1>5 DEF IsPiece, Message
<1> QED
    BY <1>1, <1>6, <1>7 DEF Whole

\* The whole blocks of a message, and where they end.
LEMMA BlocksEnd ==
    ASSUME NEW l \in Nat, NEW k \in 1 .. l \div BlockBytes
    PROVE  (k - 1) * BlockBytes \in Nat /\ (k - 1) * BlockBytes + BlockBytes <= l
<1>1. PICK n \in Nat \ {0} : n = BlockBytes
    BY HashSizes
<1>2. PICK q \in Nat : q = l \div n
    BY <1>1, DivMod
<1>3. l >= n * q
    BY <1>2, DivMod
<1>0. k \in 1 .. q
    BY <1>1, <1>2
<1>4. PICK j \in Nat, d \in Nat : j = k - 1 /\ q = j + 1 + d
  <2>1. k - 1 \in Nat /\ q - k \in Nat /\ q = (k - 1) + 1 + (q - k)
      BY <1>0
  <2> QED
      BY <2>1
<1>5. PICK x \in Nat, y \in Nat : x = j * n /\ y = n * d
    OBVIOUS
<1>6. n * q = x + n + y
    BY <1>4, <1>5
<1> QED
    BY <1>1, <1>3, <1>4, <1>5, <1>6

LEMMA BlocksOfIs ==
    ASSUME NEW w \in Message
    PROVE  /\ BlocksOf(w) \in Seq(Whole)
           /\ Len(w) \in Nat /\ Len(w) \div BlockBytes \in Nat
           /\ Len(BlocksOf(w)) = Len(w) \div BlockBytes
           /\ \A k \in 1 .. Len(w) \div BlockBytes : BlocksOf(w)[k] = Block(w, k)
<1>1. PICK l \in Nat : l = Len(w)
    BY DEF Message
<1>2. PICK q \in Nat : q = l \div BlockBytes
    BY DivMod, HashSizes
<1>3. ASSUME NEW k \in 1 .. q PROVE Block(w, k) \in Whole
  <2>1. (k - 1) * BlockBytes \in Nat /\ (k - 1) * BlockBytes + BlockBytes <= Len(w)
      BY <1>1, <1>2, BlocksEnd
  <2>2. k \in Nat \ {0}
      OBVIOUS
  <2> QED
      BY <2>1, <2>2, BlockIs
<1>4. PICK bs : bs = [k \in 1 .. q |-> Block(w, k)]
    OBVIOUS
<1>5. bs \in [1 .. q -> Whole] /\ \A k \in 1 .. q : bs[k] = Block(w, k)
    BY <1>3, <1>4
<1>6. bs \in Seq(Whole) /\ Len(bs) = q
    BY <1>5
<1>7. bs = BlocksOf(w)
    BY <1>1, <1>2, <1>4 DEF BlocksOf
<1> QED
    BY <1>1, <1>2, <1>5, <1>6, <1>7

\* Blocks that hold the bytes of a message in their places are its blocks.
LEMMA TheseAreItsBlocks ==
    ASSUME NEW w \in Message, NEW bs \in Seq(Whole), Len(bs) = Len(w) \div BlockBytes,
           \A k \in 1 .. Len(bs), i \in 1 .. BlockBytes : bs[k][i] = w[(k - 1) * BlockBytes + i]
    PROVE  bs = BlocksOf(w)
<1>1. PICK q \in Nat : q = Len(w) \div BlockBytes /\ Len(w) \in Nat
    BY BlocksOfIs
<1>2. PICK cs : cs = BlocksOf(w)
    OBVIOUS
<1>3. cs \in Seq(Whole) /\ Len(cs) = q /\ \A k \in 1 .. q : cs[k] = Block(w, k)
    BY <1>1, <1>2, BlocksOfIs
<1>4. ASSUME NEW k \in 1 .. q PROVE bs[k] = cs[k]
  <2>1. (k - 1) * BlockBytes \in Nat /\ (k - 1) * BlockBytes + BlockBytes <= Len(w) /\ k \in Nat \ {0}
      BY <1>1, BlocksEnd
  <2>2. PICK b, c : b = bs[k] /\ c = Block(w, k)
      OBVIOUS
  <2>3. c \in Whole /\ \A i \in 1 .. BlockBytes : c[i] = w[(k - 1) * BlockBytes + i]
      BY <2>1, <2>2, BlockIs
  <2>4. b \in Whole
      BY <1>1, <2>2, ElementOfSeq
  <2>5. \A i \in 1 .. BlockBytes : b[i] = c[i]
      BY <1>1, <2>2, <2>3
  <2>6. b \in Message /\ c \in Message /\ Len(b) = BlockBytes /\ Len(c) = BlockBytes
      BY <2>3, <2>4, WholeIs
  <2>7. b = c
      BY <2>5, <2>6, SameElements DEF Message
  <2> QED
      BY <1>3, <2>2, <2>7
<1>5. bs = cs
    BY <1>1, <1>3, <1>4, SameElements
<1> QED
    BY <1>2, <1>5

LEMMA BlockByte ==
    ASSUME NEW w \in Message, NEW k \in 1 .. Len(BlocksOf(w)), NEW i \in 1 .. BlockBytes
    PROVE  /\ (k - 1) * BlockBytes + i \in 1 .. Len(w)
           /\ BlocksOf(w)[k][i] = w[(k - 1) * BlockBytes + i]
<1>1. PICK l \in Nat, n \in Nat : l = Len(w) /\ n = BlockBytes
    BY BlocksOfIs, HashSizes
<1>2. k \in 1 .. l \div BlockBytes /\ l \div BlockBytes \in Nat
    BY <1>1, BlocksOfIs
<1>3. PICK a \in Nat : a = (k - 1) * BlockBytes /\ a + n <= l
    BY <1>1, <1>2, BlocksEnd
<1>4. Block(w, k)[i] = w[a + i]
    BY <1>1, <1>2, <1>3, BlockIs
<1>5. BlocksOf(w)[k] = Block(w, k)
    BY <1>1, <1>2, BlocksOfIs
<1>6. a + i \in 1 .. l
    BY <1>1, <1>3
<1> QED
    BY <1>1, <1>3, <1>4, <1>5, <1>6

\* So many whole blocks and less than one behind them.
LEMMA BlockCount ==
    ASSUME NEW q \in Nat, NEW r \in 0 .. BlockBytes - 1, NEW l, l = q * BlockBytes + r
    PROVE  l \in Nat /\ l \div BlockBytes = q /\ l % BlockBytes = r
<1>1. PICK n \in Nat \ {0} : n = BlockBytes
    BY HashSizes
<1>2. PICK x \in Nat : x = n * q + r
    BY <1>1
<1>3. x % n = r
    BY <1>1, <1>2, RemainderIs
<1>4. PICK p \in Nat : p = x \div n
    BY DivMod
<1>5. x = n * p + r
    BY <1>3, <1>4, DivMod
<1>6. n * p = n * q
    BY <1>2, <1>5
<1>7. p = q
  <2>1. CASE p <= q
    <3>1. PICK d \in Nat : q = p + d
      <4>1. q - p \in Nat /\ q = p + (q - p)
          BY <2>1
      <4> QED
          BY <4>1
    <3>2. n * q = n * p + n * d
        BY <3>1
    <3>3. n * d = 0
        BY <1>6, <3>2
    <3>4. d = 0
        BY <3>3
    <3> QED
        BY <3>1, <3>4
  <2>2. CASE q <= p
    <3>1. PICK d \in Nat : p = q + d
      <4>1. p - q \in Nat /\ p = q + (p - q)
          BY <2>2
      <4> QED
          BY <4>1
    <3>2. n * p = n * q + n * d
        BY <3>1
    <3>3. n * d = 0
        BY <1>6, <3>2
    <3>4. d = 0
        BY <3>3
    <3> QED
        BY <3>1, <3>4
  <2> QED
      BY <2>1, <2>2
<1>8. l = x
    BY <1>1, <1>2
<1> QED
    BY <1>1, <1>3, <1>4, <1>7, <1>8

\* Every message is whole blocks and less than one behind them.
LEMMA CountedOut ==
    ASSUME NEW w \in Message
    PROVE  \E q \in Nat, r \in 0 .. BlockBytes - 1 :
              /\ Len(w) = q * BlockBytes + r /\ Len(w) \in Nat
              /\ q = Len(w) \div BlockBytes /\ r = Len(w) % BlockBytes
<1>1. PICK n \in Nat \ {0}, l \in Nat : n = BlockBytes /\ l = Len(w)
    BY HashSizes, BlocksOfIs
<1>2. PICK q \in Nat, r \in 0 .. n - 1 : q = l \div n /\ r = l % n
    BY DivMod
<1>3. l = n * q + r
    BY <1>2, DivMod
<1>4. l = q * n + r
    BY <1>3
<1> QED
    BY <1>1, <1>2, <1>4

\* What follows whole blocks has the blocks that follow.
LEMMA BlocksFollow ==
    ASSUME NEW w \in Message, NEW v \in Message, Len(w) % BlockBytes = 0
    PROVE  BlocksOf(w) \o BlocksOf(v) = BlocksOf(w \o v)
<1>1. PICK q \in Nat : Len(w) = q * BlockBytes /\ q = Len(w) \div BlockBytes
  <2>1. PICK q \in Nat, r \in 0 .. BlockBytes - 1 :
           Len(w) = q * BlockBytes + r /\ q = Len(w) \div BlockBytes /\ r = Len(w) % BlockBytes
      BY CountedOut
  <2>2. r = 0 /\ q * BlockBytes \in Nat
      BY <2>1, HashSizes
  <2> QED
      BY <2>1, <2>2
<1>2. PICK m \in Nat, r \in 0 .. BlockBytes - 1 :
         Len(v) = m * BlockBytes + r /\ m = Len(v) \div BlockBytes
    BY CountedOut
<1>3. PICK x : x = w \o v
    OBVIOUS
<1>4. /\ x \in Message /\ Len(x) = Len(w) + Len(v)
      /\ \A i \in 1 .. Len(w) : x[i] = w[i]
      /\ \A i \in 1 .. Len(v) : x[Len(w) + i] = v[i]
  <2>1. w \in Seq(HashedBytes) /\ v \in Seq(HashedBytes)
      BY DEF Message
  <2> QED
      BY <1>3, <2>1, JoinedIs DEF Message
<1>5. Len(x) \div BlockBytes = q + m
  <2>1. PICK n \in Nat : n = BlockBytes
      BY HashSizes
  <2>2. (q + m) * n = q * n + m * n
      OBVIOUS
  <2>3. Len(w) = q * n /\ Len(v) = m * n + r /\ r \in Nat
      BY <1>1, <1>2, <2>1
  <2>4. PICK s : s = q + m
      OBVIOUS
  <2>5. s \in Nat /\ Len(x) = s * n + r
      BY <1>4, <2>2, <2>3, <2>4
  <2>6. Len(x) = s * BlockBytes + r
      BY <2>1, <2>5
  <2>7. Len(x) \div BlockBytes = s
      BY <2>5, <2>6, BlockCount
  <2> QED
      BY <2>4, <2>7
<1>6. PICK bs, cs, ds : bs = BlocksOf(w) /\ cs = BlocksOf(v) /\ ds = bs \o cs
    OBVIOUS
<1>7. bs \in Seq(Whole) /\ cs \in Seq(Whole) /\ Len(bs) = q /\ Len(cs) = m
    BY <1>1, <1>2, <1>6, BlocksOfIs
<1>8. /\ ds \in Seq(Whole) /\ Len(ds) = q + m
      /\ \A k \in 1 .. q : ds[k] = bs[k]
      /\ \A k \in 1 .. m : ds[q + k] = cs[k]
  <2>1. /\ ds \in Seq(Whole) /\ Len(ds) = Len(bs) + Len(cs)
        /\ \A k \in 1 .. Len(bs) : ds[k] = bs[k]
        /\ \A k \in 1 .. Len(cs) : ds[Len(bs) + k] = cs[k]
    <3>1. bs \in Seq(Whole) /\ cs \in Seq(Whole) /\ ds = bs \o cs
        BY <1>6, <1>7
    <3> QED
        BY <3>1, JoinedIs
  <2> QED
      BY <1>7, <2>1
<1>9. ASSUME NEW k \in 1 .. q + m, NEW i \in 1 .. BlockBytes
      PROVE  ds[k][i] = x[(k - 1) * BlockBytes + i]
  <2>1. CASE k \in 1 .. q
    <3>1. (k - 1) * BlockBytes + i \in 1 .. Len(w) /\ bs[k][i] = w[(k - 1) * BlockBytes + i]
        BY <1>6, <1>7, <2>1, BlockByte
    <3> QED
        BY <1>4, <1>8, <2>1, <3>1
  <2>2. CASE k \in q + 1 .. q + m
    <3>1. PICK j \in 1 .. m : k = q + j
      <4>1. k - q \in 1 .. m /\ k = q + (k - q)
          BY <2>2
      <4> QED
          BY <4>1
    <3>2. (j - 1) * BlockBytes + i \in 1 .. Len(v) /\ cs[j][i] = v[(j - 1) * BlockBytes + i]
        BY <1>6, <1>7, BlockByte
    <3>3. Len(w) + ((j - 1) * BlockBytes + i) = (k - 1) * BlockBytes + i
      <4>1. PICK n \in Nat : n = BlockBytes
          BY HashSizes
      <4>2. k - 1 = q + (j - 1)
          BY <3>1
      <4>3. (k - 1) * n = q * n + (j - 1) * n
          BY <4>2
      <4> QED
          BY <1>1, <4>1, <4>3
    <3>4. x[Len(w) + ((j - 1) * BlockBytes + i)] = v[(j - 1) * BlockBytes + i]
        BY <1>4, <3>2
    <3>5. ds[k] = cs[j]
        BY <1>8, <3>1
    <3> QED
        BY <3>2, <3>3, <3>4, <3>5
  <2> QED
      BY <2>1, <2>2
<1>10. ds = BlocksOf(x)
    BY <1>4, <1>5, <1>8, <1>9, TheseAreItsBlocks
<1> QED
    BY <1>3, <1>6, <1>10

-----------------------------------------------------------------------------
(* What the hash was given so far *)

Buffer == [1 .. BlockBytes -> HashedBytes \cup {Unset}]
Objects == [count : Nat, buffer : Buffer, blocks : Seq(Whole)]

\* The object was given the message w: its whole blocks are transformed, and the
\* bytes behind them are in the buffer.
Given(o, w) ==
    /\ o \in Objects /\ w \in Message
    /\ o.count = Len(w) /\ o.blocks = BlocksOf(w)
    /\ \A i \in 1 .. Len(w) % BlockBytes :
          o.buffer[i] = w[(Len(w) \div BlockBytes) * BlockBytes + i]

LEMMA SameBuffer ==
    ASSUME NEW b \in Buffer, NEW d \in Buffer, \A n \in 1 .. BlockBytes : b[n] = d[n]
    PROVE  b = d
<1>1. PICK S, T : S = 1 .. BlockBytes /\ T = HashedBytes \cup {Unset}
    OBVIOUS
<1>2. b \in [S -> T] /\ d \in [S -> T] /\ \A n \in S : b[n] = d[n]
    BY <1>1 DEF Buffer
<1> QED
    BY <1>2

\* The buffer b holds data behind its first "at" bytes, and elsewhere what buffer holds.
IsLaid(b, buffer, at, data) ==
    /\ b \in Buffer
    /\ \A n \in 1 .. BlockBytes :
          b[n] = IF n \in at + 1 .. at + Len(data) THEN data[n - at] ELSE buffer[n]

LEMMA OverlaidIs ==
    ASSUME NEW buffer \in Buffer, NEW at \in Nat, NEW data \in Message,
           NEW b, b = Overlaid(buffer, at, data)
    PROVE  IsLaid(b, buffer, at, data)
<1>1. PICK l \in Nat, n \in Nat : l = Len(data) /\ n = BlockBytes
    BY BlocksOfIs, HashSizes
<1>2. b = [i \in 1 .. n |-> IF i \in at + 1 .. at + l THEN data[i - at] ELSE buffer[i]]
    BY <1>1 DEF Overlaid
<1>3. ASSUME NEW i \in 1 .. n, i \in at + 1 .. at + l PROVE data[i - at] \in HashedBytes
  <2>1. i - at \in 1 .. l
      BY <1>3
  <2> QED
      BY <1>1, <2>1, ElementOfSeq DEF Message
<1>4. ASSUME NEW i \in 1 .. n PROVE buffer[i] \in HashedBytes \cup {Unset}
    BY <1>1 DEF Buffer
<1>5. b \in [1 .. n -> HashedBytes \cup {Unset}]
    BY <1>2, <1>3, <1>4
<1> QED
    BY <1>1, <1>2, <1>5 DEF Buffer, IsLaid

LEMMA LaidFromTheStart ==
    ASSUME NEW buffer \in Buffer, NEW data \in Message, Len(data) <= BlockBytes,
           NEW b, b = Overlaid(buffer, 0, data)
    PROVE  b \in Buffer /\ \A i \in 1 .. Len(data) : b[i] = data[i]
<1>1. PICK at \in Nat : at = 0
    OBVIOUS
<1>2. b = Overlaid(buffer, at, data)
    BY <1>1
<1>3. b \in Buffer /\ \A i \in 1 .. BlockBytes :
         b[i] = IF i \in at + 1 .. at + Len(data) THEN data[i - at] ELSE buffer[i]
  <2>1. IsLaid(b, buffer, at, data)
      BY <1>2, OverlaidIs
  <2> QED
      BY <2>1 DEF IsLaid
<1>4. Len(data) \in Nat /\ BlockBytes \in Nat
    BY BlocksOfIs, HashSizes
<1>5. \A i \in 1 .. Len(data) : i \in 1 .. BlockBytes /\ i \in at + 1 .. at + Len(data) /\ i - at = i
    BY <1>1, <1>4
<1> QED
    BY <1>3, <1>5

LEMMA TakeIs ==
    ASSUME NEW o \in Objects, NEW v \in Message, NEW m \in Nat, m = Len(v) \div BlockBytes,
           NEW kept, kept = SubSeq(v, m * BlockBytes + 1, Len(v)),
           NEW b, b = Overlaid(o.buffer, 0, kept), NEW n, n = o.count + Len(v),
           NEW bs, bs = o.blocks \o BlocksOf(v)
    PROVE  Take(o, v) = [count |-> n, buffer |-> b, blocks |-> bs]
<1>1. [k \in 1 .. m |-> Block(v, k)] = BlocksOf(v)
    BY DEF BlocksOf
<1> QED
    BY <1>1 DEF Take, TakeBlocks

\* Nothing changes nothing.
LEMMA TakeNothing ==
    ASSUME NEW o \in Objects
    PROVE  Take(o, <<>>) = o
<1>1. <<>> \in Message /\ Len(<<>>) = 0 /\ 0 \div BlockBytes = 0
  <2>1. 0 \div BlockBytes = 0
      BY HashSizes
  <2> QED
      BY <2>1 DEF Message
<1>2. PICK b, bs, c : b = o.buffer /\ bs = o.blocks /\ c = o.count
    OBVIOUS
<1>3. b \in Buffer /\ bs \in Seq(Whole) /\ c \in Nat /\ o = [count |-> c, buffer |-> b, blocks |-> bs]
    BY <1>2 DEF Objects
<1>4. PICK kept : kept = SubSeq(<<>>, 0 * BlockBytes + 1, Len(<<>>))
    OBVIOUS
<1>5. kept = <<>>
  <2>1. 0 * BlockBytes + 1 = 1
      BY HashSizes
  <2>2. SubSeq(<<>>, 1, 0) = <<>>
      BY SubSeqEmpty
  <2> QED
      BY <1>1, <1>4, <2>1, <2>2
<1>6. PICK d : d = Overlaid(b, 0, <<>>)
    OBVIOUS
<1>7. d = b
  <2>1. d \in Buffer /\ \A n \in 1 .. BlockBytes :
           d[n] = IF n \in 0 + 1 .. 0 + Len(<<>>) THEN <<>>[n - 0] ELSE b[n]
    <3>1. PICK z \in Nat, e \in Message : z = 0 /\ e = <<>>
        BY <1>1
    <3>2. d = Overlaid(b, z, e)
        BY <1>6, <3>1
    <3>3. IsLaid(d, b, z, e)
        BY <1>3, <3>2, OverlaidIs
    <3> QED
        BY <3>1, <3>3 DEF IsLaid
  <2>2. \A n \in 1 .. BlockBytes : d[n] = b[n]
      BY <1>1, <2>1
  <2> QED
      BY <1>3, <2>1, <2>2, SameBuffer
<1>8. BlocksOf(<<>>) = <<>>
    BY <1>1 DEF BlocksOf
<1>9. bs \o BlocksOf(<<>>) = bs
    BY <1>3, <1>8, ConcatEmptySeq
<1>10. c + Len(<<>>) = c
    BY <1>1, <1>3
<1>11. Take(o, <<>>) = [count |-> c, buffer |-> b, blocks |-> bs]
  <2>1. PICK v : v = <<>>
      OBVIOUS
  <2>2. PICK m \in Nat : m = 0
      OBVIOUS
  <2>3. /\ v \in Message /\ m = Len(v) \div BlockBytes /\ kept = SubSeq(v, m * BlockBytes + 1, Len(v))
        /\ b = Overlaid(o.buffer, 0, kept) /\ c = o.count + Len(v) /\ bs = o.blocks \o BlocksOf(v)
      BY <1>1, <1>2, <1>4, <1>5, <1>6, <1>7, <1>9, <1>10, <2>1, <2>2
  <2>4. [k \in 1 .. m |-> Block(v, k)] = BlocksOf(v)
      BY <2>3 DEF BlocksOf
  <2>5. Take(o, v) = [count |-> c, buffer |-> b, blocks |-> bs]
      BY <2>3, <2>4 DEF Take, TakeBlocks
  <2> QED
      BY <2>1, <2>5
<1> QED
    BY <1>3, <1>11

\* Whole blocks were given, or nothing is: take leaves what was given with it.
LEMMA TakeGiven ==
    ASSUME NEW o, NEW w, Given(o, w), NEW v \in Message, Len(w) % BlockBytes = 0 \/ v = <<>>
    PROVE  Given(Take(o, v), w \o v)
<1>1. o \in Objects /\ w \in Message
    BY DEF Given
<1>2. CASE v = <<>>
  <2>1. w \o <<>> = w
      BY <1>1, ConcatEmptySeq DEF Message
  <2> QED
      BY <1>1, <1>2, <2>1, TakeNothing
<1>3. CASE Len(w) % BlockBytes = 0
  <2>1. PICK q \in Nat, z \in 0 .. BlockBytes - 1 :
           /\ Len(w) = q * BlockBytes + z /\ Len(w) \in Nat
           /\ q = Len(w) \div BlockBytes /\ z = Len(w) % BlockBytes
      BY <1>1, CountedOut
  <2>2. PICK m \in Nat, r \in 0 .. BlockBytes - 1 :
           /\ Len(v) = m * BlockBytes + r /\ Len(v) \in Nat
           /\ m = Len(v) \div BlockBytes /\ r = Len(v) % BlockBytes
      BY CountedOut
  <2>3. PICK n \in Nat : n = BlockBytes
      BY HashSizes
  <2>4. PICK a \in Nat, c \in Nat : a = q * n /\ c = m * n
      OBVIOUS
  <2>5. Len(w) = a /\ Len(v) = c + r /\ r \in Nat /\ r < n
    <3>1. PICK l : l = Len(w)
        OBVIOUS
    <3>2. l \in Nat /\ l = q * n + z /\ z = 0
        BY <1>3, <2>1, <2>3, <3>1
    <3>3. Len(v) = m * n + r /\ r \in 0 .. n - 1
        BY <2>2, <2>3
    <3> QED
        BY <2>3, <2>4, <3>1, <3>2, <3>3
  <2>6. PICK s \in Nat : s = q + m
      OBVIOUS
  <2>7. s * n = a + c
    <3>1. (q + m) * n = q * n + m * n
        OBVIOUS
    <3> QED
        BY <2>4, <2>6, <3>1
  <2>8. PICK x : x = w \o v
      OBVIOUS
  <2>9. /\ x \in Message /\ Len(x) = Len(w) + Len(v)
        /\ \A i \in 1 .. Len(v) : x[Len(w) + i] = v[i]
    <3>1. w \in Seq(HashedBytes) /\ v \in Seq(HashedBytes)
        BY <1>1 DEF Message
    <3> QED
        BY <2>8, <3>1, JoinedIs DEF Message
  <2>10. Len(x) = s * BlockBytes + r
      BY <2>3, <2>5, <2>7, <2>9
  <2>11. Len(x) \div BlockBytes = s /\ Len(x) % BlockBytes = r
      BY <2>10, BlockCount
  <2>12. PICK kept : kept = SubSeq(v, c + 1, c + r)
      OBVIOUS
  <2>13. kept \in Message /\ Len(kept) = r /\ \A i \in 1 .. r : kept[i] = v[c + i]
    <3>1. r \in Nat /\ c + r <= Len(v)
        BY <2>5
    <3>2. IsPiece(kept, v, c, r)
        BY <2>12, <3>1, PieceIs
    <3> QED
        BY <3>2 DEF IsPiece
  <2>14. PICK b : b = Overlaid(o.buffer, 0, kept)
      OBVIOUS
  <2>15. b \in Buffer /\ \A i \in 1 .. r : b[i] = kept[i]
    <3>1. PICK buffer \in Buffer, u \in Message : buffer = o.buffer /\ u = kept
        BY <1>1, <2>13 DEF Objects
    <3>2. b = Overlaid(buffer, 0, u) /\ Len(u) <= BlockBytes
        BY <2>3, <2>5, <2>13, <2>14, <3>1
    <3>3. b \in Buffer /\ \A i \in 1 .. Len(u) : b[i] = u[i]
        BY <3>2, LaidFromTheStart
    <3> QED
        BY <2>13, <3>1, <3>3
  <2>16. PICK l, bs : l = o.count + Len(v) /\ bs = o.blocks \o BlocksOf(v)
      OBVIOUS
  <2>17. bs = BlocksOf(x) /\ l = Len(x)
    <3>1. BlocksOf(w) \o BlocksOf(v) = BlocksOf(w \o v)
        BY <1>1, <1>3, BlocksFollow
    <3> QED
        BY <2>8, <2>9, <2>16, <3>1 DEF Given
  <2>18. Take(o, v) = [count |-> l, buffer |-> b, blocks |-> bs]
    <3>1. kept = SubSeq(v, m * BlockBytes + 1, Len(v))
        BY <2>3, <2>4, <2>5, <2>12
    <3>2. [k \in 1 .. m |-> Block(v, k)] = BlocksOf(v)
        BY <2>2 DEF BlocksOf
    <3> QED
        BY <2>2, <2>14, <2>16, <3>1, <3>2 DEF Take, TakeBlocks
  <2>19. bs \in Seq(Whole) /\ l \in Nat
      BY <2>5, <2>9, <2>17, BlocksOfIs
  <2>20. ASSUME NEW i \in 1 .. r PROVE b[i] = x[s * BlockBytes + i]
    <3>1. b[i] = v[c + i]
        BY <2>13, <2>15
    <3>2. PICK j \in 1 .. Len(v) : j = c + i
        BY <2>5
    <3>3. x[Len(w) + j] = v[j] /\ Len(w) + j = s * BlockBytes + i
        BY <2>3, <2>5, <2>7, <2>9, <3>2
    <3> QED
        BY <3>1, <3>2, <3>3
  <2>21. PICK p : p = [count |-> l, buffer |-> b, blocks |-> bs]
      OBVIOUS
  <2>22. p \in Objects /\ p.count = l /\ p.buffer = b /\ p.blocks = bs
      BY <2>15, <2>19, <2>21 DEF Objects
  <2>23. Given(p, x)
      BY <2>9, <2>11, <2>17, <2>20, <2>22 DEF Given
  <2> QED
      BY <2>8, <2>18, <2>21, <2>23
<1> QED
    BY <1>2, <1>3

\* What fits the block begun goes behind what it holds.
LEMMA FillGiven ==
    ASSUME NEW o, NEW w, Given(o, w), NEW v \in Message, Len(w) % BlockBytes # 0,
           Len(v) <= BlockBytes - (Len(w) % BlockBytes)
    PROVE  Given(Fill(o, v), w \o v)
<1>1. o \in Objects /\ w \in Message
    BY DEF Given
<1>2. PICK q \in Nat, r \in 0 .. BlockBytes - 1 :
         /\ Len(w) = q * BlockBytes + r /\ Len(w) \in Nat
         /\ q = Len(w) \div BlockBytes /\ r = Len(w) % BlockBytes
    BY <1>1, CountedOut
<1>3. PICK n \in Nat : n = BlockBytes
    BY HashSizes
<1>4. PICK a \in Nat, l \in Nat : a = q * n /\ l = Len(v)
  <2>1. q * n \in Nat /\ Len(v) \in Nat
      BY BlocksOfIs
  <2> QED
      BY <2>1
<1>5. Len(w) = a + r /\ r \in Nat \ {0} /\ r + l <= n
  <2>1. r \in 0 .. n - 1 /\ l <= n - r /\ r # 0
      BY <1>2, <1>3, <1>4
  <2>2. Len(w) = a + r
      BY <1>2, <1>3, <1>4
  <2>3. r \in Nat \ {0} /\ r + l <= n
      BY <1>3, <1>4, <2>1
  <2> QED
      BY <2>2, <2>3
<1>6. PICK x : x = w \o v
    OBVIOUS
<1>7. /\ x \in Message /\ Len(x) = a + r + l
      /\ \A i \in 1 .. a + r : x[i] = w[i]
      /\ \A i \in 1 .. l : x[a + r + i] = v[i]
  <2>1. w \in Seq(HashedBytes) /\ v \in Seq(HashedBytes)
      BY <1>1 DEF Message
  <2>2. /\ x \in Seq(HashedBytes) /\ Len(x) = Len(w) + Len(v)
        /\ \A i \in 1 .. Len(w) : x[i] = w[i]
        /\ \A i \in 1 .. Len(v) : x[Len(w) + i] = v[i]
      BY <1>6, <2>1, JoinedIs
  <2> QED
      BY <1>4, <1>5, <2>2 DEF Message
<1>8. PICK filled : filled = Overlaid(o.buffer, r, v)
    OBVIOUS
<1>9. filled \in Buffer /\ \A i \in 1 .. n :
         filled[i] = IF i \in r + 1 .. r + l THEN v[i - r] ELSE o.buffer[i]
  <2>1. PICK at \in Nat, buffer \in Buffer : at = r /\ buffer = o.buffer
      BY <1>1, <1>5 DEF Objects
  <2>2. filled = Overlaid(buffer, at, v)
      BY <1>8, <2>1
  <2>3. IsLaid(filled, buffer, at, v)
      BY <2>2, OverlaidIs
  <2>4. filled \in Buffer /\ \A i \in 1 .. BlockBytes :
           filled[i] = IF i \in at + 1 .. at + Len(v) THEN v[i - at] ELSE buffer[i]
      BY <2>3 DEF IsLaid
  <2> QED
      BY <1>3, <1>4, <2>1, <2>4
<1>10. ASSUME NEW i \in 1 .. r + l PROVE filled[i] = x[a + i]
  <2>1. i \in 1 .. n
      BY <1>5
  <2>2. CASE i \in 1 .. r
    <3>1. o.buffer[i] = w[a + i]
        BY <1>2, <1>3, <1>4, <2>2 DEF Given
    <3>2. x[a + i] = w[a + i]
        BY <1>7, <2>2
    <3>3. ~ (i \in r + 1 .. r + l)
        BY <1>5, <2>2
    <3> QED
        BY <1>9, <2>1, <3>1, <3>2, <3>3
  <2>3. CASE i \in r + 1 .. r + l
    <3>1. PICK j \in 1 .. l : j = i - r
        BY <1>5, <2>3
    <3>2. a + r + j = a + i
        BY <1>5, <3>1
    <3> QED
        BY <1>7, <1>9, <2>1, <2>3, <3>1, <3>2
  <2> QED
      BY <1>5, <2>2, <2>3
<1>11. PICK bs : bs = BlocksOf(w)
    OBVIOUS
<1>12. bs \in Seq(Whole) /\ Len(bs) = q
    BY <1>1, <1>2, <1>11, BlocksOfIs
<1>13. ASSUME NEW k \in 1 .. q, NEW i \in 1 .. BlockBytes
       PROVE  bs[k][i] = x[(k - 1) * BlockBytes + i]
  <2>1. (k - 1) * BlockBytes + i \in 1 .. Len(w) /\ bs[k][i] = w[(k - 1) * BlockBytes + i]
      BY <1>1, <1>11, <1>12, BlockByte
  <2>2. PICK y \in 1 .. Len(w) : y = (k - 1) * BlockBytes + i
      BY <2>1
  <2>3. bs[k][i] = w[y]
      BY <2>1, <2>2
  <2>4. x[y] = w[y]
      BY <1>5, <1>7
  <2> QED
      BY <2>2, <2>3, <2>4
<1>14. Begun(o) = r
    BY <1>2 DEF Given, Begun
<1>15. PICK c, cs : c = o.count + Len(v) /\ cs = IF r + Len(v) = BlockBytes THEN Append(o.blocks, filled) ELSE o.blocks
    OBVIOUS
<1>16. Fill(o, v) = [count |-> c, buffer |-> filled, blocks |-> cs]
    BY <1>8, <1>14, <1>15 DEF Fill
<1>17. c = Len(x) /\ c \in Nat
  <2>1. o.count = Len(w)
      BY DEF Given
  <2>2. o.count = a + r
      BY <1>5, <2>1
  <2>3. c = o.count + l
      BY <1>4, <1>15
  <2> QED
      BY <1>4, <1>5, <1>7, <2>2, <2>3
<1>18. cs \in Seq(Whole) /\ cs = BlocksOf(x)
       /\ \A i \in 1 .. Len(x) % BlockBytes : filled[i] = x[(Len(x) \div BlockBytes) * BlockBytes + i]
  <2>1. CASE r + l < n
    <3>1. PICK t \in 0 .. BlockBytes - 1 : t = r + l
        BY <1>3, <1>5, <2>1
    <3>2. Len(x) = q * BlockBytes + t
      <4>1. Len(x) = a + r + l /\ a = q * BlockBytes
          BY <1>3, <1>4, <1>7
      <4> QED
          BY <1>5, <3>1, <4>1
    <3>3. Len(x) \div BlockBytes = q /\ Len(x) % BlockBytes = t
        BY <3>2, BlockCount
    <3>4. bs = BlocksOf(x)
        BY <1>7, <1>12, <1>13, <3>3, TheseAreItsBlocks
    <3>5. cs = bs
        BY <1>3, <1>4, <1>11, <1>15, <2>1 DEF Given
    <3> QED
        BY <1>3, <1>4, <1>10, <1>12, <3>1, <3>3, <3>4, <3>5
  <2>2. CASE r + l = n
    <3>1. PICK s \in Nat, t \in 0 .. BlockBytes - 1 : s = q + 1 /\ t = 0
        BY HashSizes
    <3>2. s * n = a + n
        BY <1>4, <3>1
    <3>3. Len(x) = s * BlockBytes + t
        BY <1>3, <1>5, <1>7, <2>2, <3>1, <3>2
    <3>4. Len(x) \div BlockBytes = s /\ Len(x) % BlockBytes = t
        BY <3>3, BlockCount
    <3>5. filled \in Whole
      <4>1. ASSUME NEW i \in 1 .. n PROVE filled[i] \in HashedBytes
        <5>1. PICK j \in 1 .. Len(x) : j = a + i
            BY <1>5, <1>7, <2>2
        <5>2. x[j] \in HashedBytes
            BY <1>7, ElementOfSeq DEF Message
        <5> QED
            BY <1>10, <2>2, <5>1, <5>2
      <4>2. PICK S, T : S = 1 .. BlockBytes /\ T = HashedBytes \cup {Unset}
          OBVIOUS
      <4>3. filled \in [S -> T] /\ \A i \in S : filled[i] \in HashedBytes
          BY <1>3, <1>9, <4>1, <4>2 DEF Buffer
      <4> QED
          BY <4>2, <4>3 DEF Whole
    <3>6. cs = Append(bs, filled)
        BY <1>3, <1>4, <1>11, <1>15, <2>2 DEF Given
    <3>7. cs \in Seq(Whole) /\ Len(cs) = s /\ cs[s] = filled /\ \A k \in 1 .. q : cs[k] = bs[k]
        BY <1>12, <3>1, <3>5, <3>6
    <3>8. ASSUME NEW k \in 1 .. s, NEW i \in 1 .. BlockBytes
          PROVE  cs[k][i] = x[(k - 1) * BlockBytes + i]
      <4>1. CASE k \in 1 .. q
          BY <1>13, <3>7, <4>1
      <4>2. CASE k = s
        <5>1. (k - 1) * n = a
            BY <1>4, <3>1, <4>2
        <5>2. filled[i] = x[a + i]
            BY <1>3, <1>10, <2>2
        <5> QED
            BY <1>3, <3>7, <4>2, <5>1, <5>2
      <4> QED
          BY <3>1, <4>1, <4>2
    <3>9. cs = BlocksOf(x)
        BY <1>7, <3>4, <3>7, <3>8, TheseAreItsBlocks
    <3>10. 1 .. t = {}
        BY <3>1
    <3> QED
        BY <3>4, <3>7, <3>9, <3>10
  <2> QED
      BY <1>5, <2>1, <2>2
<1>19. PICK p : p = [count |-> c, buffer |-> filled, blocks |-> cs]
    OBVIOUS
<1>20. p \in Objects /\ p.count = c /\ p.buffer = filled /\ p.blocks = cs
    BY <1>9, <1>17, <1>18, <1>19 DEF Objects
<1>21. Given(p, x)
    BY <1>7, <1>17, <1>18, <1>20 DEF Given
<1> QED
    BY <1>6, <1>16, <1>19, <1>21

\* The first bytes of a message.
LEMMA HeadIs ==
    ASSUME NEW w \in Message, NEW n \in Nat, n <= Len(w), NEW p, p = SubSeq(w, 1, n)
    PROVE  p \in Message /\ Len(p) = n /\ \A i \in 1 .. n : p[i] = w[i]
<1>1. PICK a \in Nat : a = 0
    OBVIOUS
<1>2. a + n <= Len(w)
    BY <1>1
<1>3. p = SubSeq(w, a + 1, a + n)
    BY <1>1
<1>4. IsPiece(p, w, a, n)
    BY <1>2, <1>3, PieceIs
<1> QED
    BY <1>1, <1>4 DEF IsPiece

LEMMA UpdateGiven ==
    ASSUME NEW o, NEW w, Given(o, w), NEW data \in Message
    PROVE  Given(Update(o, data), w \o data)
<1>1. o \in Objects /\ w \in Message
    BY DEF Given
<1>2. PICK q \in Nat, r \in 0 .. BlockBytes - 1 :
         /\ Len(w) = q * BlockBytes + r /\ Len(w) \in Nat
         /\ q = Len(w) \div BlockBytes /\ r = Len(w) % BlockBytes
    BY <1>1, CountedOut
<1>3. Begun(o) = r
    BY <1>2 DEF Given, Begun
<1>4. PICK n \in Nat, l \in Nat : n = BlockBytes /\ l = Len(data)
    BY HashSizes, BlocksOfIs
<1>5. PICK f : f = First(o, data)
    OBVIOUS
<1>6. f = IF r = 0 THEN 0 ELSE IF l < n - r THEN l ELSE n - r
    BY <1>3, <1>4, <1>5 DEF First
<1>7. r \in Nat /\ r < n
    BY <1>2, <1>4
<1>8. CASE f = 0
  <2>1. r = 0 \/ l = 0
      BY <1>6, <1>7, <1>8
  <2>2. Len(w) % BlockBytes = 0 \/ data = <<>>
    <3>1. l = 0 => data = <<>>
        BY <1>4, EmptySeq DEF Message
    <3> QED
        BY <1>2, <2>1, <3>1
  <2>3. SubSeq(data, f + 1, Len(data)) = data
    <3>1. PICK p : p = SubSeq(data, 1, l)
        OBVIOUS
    <3>2. l <= Len(data)
        BY <1>4
    <3>3. p \in Message /\ Len(p) = l /\ \A i \in 1 .. l : p[i] = data[i]
        BY <3>1, <3>2, HeadIs
    <3>4. p = data
        BY <1>4, <3>3, SameElements DEF Message
    <3>5. f + 1 = 1
        BY <1>8
    <3> QED
        BY <1>4, <3>1, <3>4, <3>5
  <2>4. Update(o, data) = Take(o, data)
      BY <1>5, <1>8, <2>3 DEF Update
  <2> QED
      BY <2>2, <2>4, TakeGiven
<1>9. CASE f # 0
  <2>1. f \in Nat /\ f <= l /\ f <= n - r /\ r # 0 /\ (f = l \/ f = n - r)
      BY <1>6, <1>7, <1>9
  <2>2. PICK t \in Nat : f + t = l
    <3>1. l - f \in Nat /\ f + (l - f) = l
        BY <2>1
    <3> QED
        BY <3>1
  <2>3. PICK head, tail : head = SubSeq(data, 1, f) /\ tail = SubSeq(data, f + 1, l)
      OBVIOUS
  <2>4. head \in Message /\ Len(head) = f /\ \A i \in 1 .. f : head[i] = data[i]
    <3>1. PICK h \in Nat : h = f
        BY <2>1
    <3>2. head = SubSeq(data, 1, h)
        BY <2>3, <3>1
    <3>4. h <= Len(data)
        BY <1>4, <2>1, <3>1
    <3>3. head \in Message /\ Len(head) = h /\ \A i \in 1 .. h : head[i] = data[i]
        BY <3>2, <3>4, HeadIs
    <3> QED
        BY <3>1, <3>3
  <2>5. tail \in Message /\ Len(tail) = t /\ \A i \in 1 .. t : tail[i] = data[f + i]
    <3>1. PICK h \in Nat : h = f
        BY <2>1
    <3>2. h + t = l /\ f + 1 = h + 1
        BY <2>2, <3>1
    <3>3. h + t <= Len(data)
        BY <1>4, <3>2
    <3>4. tail = SubSeq(data, h + 1, h + t)
        BY <1>4, <2>3, <3>2
    <3>5. IsPiece(tail, data, h, t)
        BY <3>3, <3>4, PieceIs
    <3> QED
        BY <3>1, <3>5 DEF IsPiece
  <2>6. PICK p, y : p = Fill(o, head) /\ y = w \o head
      OBVIOUS
  <2>7. Given(p, y)
    <3>1. Len(w) % BlockBytes # 0 /\ Len(head) <= BlockBytes - (Len(w) % BlockBytes)
        BY <1>2, <1>4, <2>1, <2>4
    <3> QED
        BY <2>4, <2>6, <3>1, FillGiven
  <2>8. w \in Seq(HashedBytes) /\ head \in Seq(HashedBytes) /\ tail \in Seq(HashedBytes)
        /\ data \in Seq(HashedBytes)
      BY <1>1, <2>4, <2>5 DEF Message
  <2>9. y \in Seq(HashedBytes) /\ Len(y) = Len(w) + Len(head)
      BY <2>6, <2>8, JoinedIs
  <2>10. Len(y) % BlockBytes = 0 \/ tail = <<>>
    <3>1. CASE f = l
      <4>1. t = 0
          BY <2>1, <2>2, <3>1
      <4> QED
          BY <2>5, <2>8, <4>1, EmptySeq
    <3>2. CASE f = n - r
      <4>1. PICK s \in Nat, z \in 0 .. BlockBytes - 1 : s = q + 1 /\ z = 0
          BY HashSizes
      <4>2. PICK a \in Nat : a = q * n
          OBVIOUS
      <4>3. s * n = a + n
          BY <4>1, <4>2
      <4>4. Len(y) = a + n
        <5>1. Len(w) = a + r /\ Len(head) = n - r
            BY <1>2, <1>4, <2>4, <3>2, <4>2
        <5> QED
            BY <1>7, <2>9, <4>2, <5>1
      <4>5. Len(y) = s * BlockBytes + z
        <5>1. Len(y) = s * BlockBytes
            BY <1>4, <4>3, <4>4
        <5> QED
            BY <1>4, <4>1, <4>2, <4>4, <5>1
      <4>6. Len(y) % BlockBytes = z
          BY <4>5, BlockCount
      <4> QED
          BY <4>1, <4>6
    <3> QED
        BY <2>1, <3>1, <3>2
  <2>11. Given(Take(p, tail), y \o tail)
      BY <2>5, <2>7, <2>10, TakeGiven
  <2>12. Update(o, data) = Take(p, tail)
      BY <1>4, <1>5, <1>9, <2>3, <2>6 DEF Update
  <2>13. y \o tail = w \o data
    <3>1. PICK x : x = head \o tail
        OBVIOUS
    <3>2. /\ x \in Seq(HashedBytes) /\ Len(x) = Len(head) + Len(tail)
          /\ \A i \in 1 .. Len(head) : x[i] = head[i]
          /\ \A i \in 1 .. Len(tail) : x[Len(head) + i] = tail[i]
        BY <2>8, <3>1, JoinedIs
    <3>3. ASSUME NEW i \in 1 .. Len(x) PROVE x[i] = data[i]
      <4>1. CASE i \in 1 .. f
          BY <2>4, <3>2, <4>1
      <4>2. CASE i \in f + 1 .. f + t
        <5>1. PICK j \in 1 .. t : f + j = i
          <6>1. i - f \in 1 .. t /\ f + (i - f) = i
              BY <2>1, <4>2
          <6> QED
              BY <6>1
        <5> QED
            BY <2>4, <2>5, <3>2, <5>1
      <4> QED
          BY <2>1, <2>4, <2>5, <3>2, <4>1, <4>2
    <3>4. Len(x) = Len(data)
        BY <1>4, <2>2, <2>4, <2>5, <3>2
    <3>5. x = data
        BY <2>8, <3>2, <3>3, <3>4, SameElements
    <3>6. (w \o head) \o tail = w \o (head \o tail)
        BY <2>8, ConcatAssociative
    <3> QED
        BY <2>6, <3>1, <3>5, <3>6
  <2> QED
      BY <2>11, <2>12, <2>13
<1> QED
    BY <1>8, <1>9

LEMMA NewShaGiven == Given(NewSha, <<>>)
<1>1. <<>> \in Message /\ Len(<<>>) = 0 /\ 0 \div BlockBytes = 0 /\ 0 % BlockBytes = 0
  <2>1. 0 \div BlockBytes = 0 /\ 0 % BlockBytes = 0
      BY HashSizes
  <2> QED
      BY <2>1 DEF Message
<1>2. BlocksOf(<<>>) = <<>>
    BY <1>1 DEF BlocksOf
<1>3. PICK b : b = [n \in 1 .. BlockBytes |-> Unset]
    OBVIOUS
<1>4. b \in Buffer
    BY <1>3 DEF Buffer
<1>5. NewSha \in Objects /\ NewSha.count = 0 /\ NewSha.blocks = <<>>
    BY <1>3, <1>4 DEF NewSha, Objects
<1> QED
    BY <1>1, <1>2, <1>5 DEF Given

-----------------------------------------------------------------------------
(* The padding *)

LEMMA BigEndianIs ==
    ASSUME NEW n \in Nat
    PROVE  BigEndian(n) \in Message /\ Len(BigEndian(n)) = LengthBytes
<1> DEFINE Round(f) == [k \in 0 .. LengthBytes |-> IF k = 0 THEN n ELSE f[k - 1] \div Radix]
<1>1. Shifted(n) = CHOOSE f : f = Round(f)
    BY DEF Shifted
<1>2. PICK N \in Nat : N = LengthBytes
    BY HashSizes
<1>3. PICK d \in Nat \ {0} : d = Radix
    BY HashSizes
<1>4. PICK step : step = [p \in Nat \X (1 .. N) |-> p[1] \div d]
    OBVIOUS
<1>5. IsStep(step, Nat, N)
  <2>1. \A p \in Nat \X (1 .. N) : p[1] \div d \in Nat
      BY DivMod
  <2> QED
      BY <1>4, <2>1 DEF IsStep
<1>6. PICK f : IsWalk(f, n, N, step, Nat)
    BY <1>5, WalkExists
<1>7. ASSUME NEW k \in 1 .. N PROVE f[k] = f[k - 1] \div d
  <2>1. f[k - 1] \in Nat /\ f[k] = step[<<f[k - 1], k>>]
      BY <1>6 DEF IsWalk
  <2> QED
      BY <1>4, <2>1
<1>8. f = Round(f)
    BY <1>2, <1>3, <1>6, <1>7 DEF IsWalk
<1>9. Shifted(n) = Round(Shifted(n))
  <2> HIDE DEF Round
  <2> QED
      BY <1>1, <1>8
<1>10. PICK g : g = Shifted(n)
    OBVIOUS
<1>11. g = [k \in 0 .. N |-> IF k = 0 THEN n ELSE g[k - 1] \div d]
    BY <1>2, <1>3, <1>9, <1>10
<1> DEFINE P == {k \in 0 .. N : g[k] \in Nat}
<1>12. 0 \in P
    BY <1>11
<1>13. ASSUME NEW k \in 1 .. N, k - 1 \in P PROVE k \in P
  <2>1. g[k] = g[k - 1] \div d
    <3>1. k \in 0 .. N /\ k # 0
        OBVIOUS
    <3> QED
        BY <1>11, <3>1
  <2>2. g[k - 1] \in Nat
      BY <1>13
  <2>3. g[k] \in Nat
      BY <2>1, <2>2, DivMod
  <2> QED
      BY <2>3
<1>14. \A k \in 0 .. N : k \in P
  <2> HIDE DEF P
  <2> QED
      BY <1>12, <1>13, AllTheWay
<1>15. ASSUME NEW k \in 1 .. N PROVE g[N - k] % d \in 0 .. d - 1
  <2>1. g[N - k] \in Nat
      BY <1>14
  <2> QED
      BY <2>1, DivMod
<1>16. PICK b : b = [k \in 1 .. N |-> g[N - k] % d]
    OBVIOUS
<1>17. b \in Seq(0 .. d - 1) /\ Len(b) = N
    BY <1>15, <1>16
<1>18. b = BigEndian(n)
    BY <1>2, <1>3, <1>10, <1>16 DEF BigEndian
<1> QED
    BY <1>2, <1>3, <1>17, <1>18 DEF Message, HashedBytes

Zeros(n) == [k \in 1 .. n |-> 0]

LEMMA ZerosAre ==
    ASSUME NEW n \in Nat
    PROVE  Zeros(n) \in Message /\ Len(Zeros(n)) = n
<1>1. 0 \in HashedBytes
    BY HashSizes DEF HashedBytes
<1> QED
    BY <1>1 DEF Zeros, Message

LEMMA OneMoreZero ==
    ASSUME NEW n \in Nat \ {0}
    PROVE  Zeros(n - 1) \o <<0>> = Zeros(n)
<1>1. PICK m \in Nat : m = n - 1
    OBVIOUS
<1>2. PICK s, t : s = Zeros(m) /\ t = Zeros(n)
    OBVIOUS
<1>3. s = [k \in 1 .. m |-> 0] /\ t = [k \in 1 .. n |-> 0]
    BY <1>2 DEF Zeros
<1>4. s \in Seq(Nat) /\ Len(s) = m /\ t \in Seq(Nat) /\ Len(t) = n
    BY <1>3
<1>5. PICK x : x = Append(s, 0)
    OBVIOUS
<1>6. x \in Seq(Nat) /\ Len(x) = n /\ x[n] = 0 /\ \A k \in 1 .. m : x[k] = s[k]
    BY <1>1, <1>4, <1>5
<1>7. \A k \in 1 .. Len(x) : x[k] = t[k]
  <2>1. \A k \in 1 .. n : k = n \/ k \in 1 .. m
      BY <1>1
  <2> QED
      BY <1>3, <1>6, <2>1
<1>8. x = t
    BY <1>4, <1>6, <1>7, SameElements
<1>9. s \o <<0>> = Append(s, 0)
    BY <1>4
<1> QED
    BY <1>1, <1>2, <1>5, <1>8, <1>9

\* The byte of the one bit.
Mark == <<Radix \div 2>>

LEMMA PaddingBytes == Mark \in Message /\ <<0>> \in Message /\ Len(Mark) = 1
<1>1. PICK d \in Nat \ {0} : d = Radix
    BY HashSizes
<1>2. d \div 2 \in 0 .. d - 1
    OBVIOUS
<1>3. Radix \div 2 \in HashedBytes /\ 0 \in HashedBytes
    BY <1>1, <1>2 DEF HashedBytes
<1> QED
    BY <1>3 DEF Mark, Message

\* The objects that were given something.
Reached == {o \in Objects : \E w : Given(o, w)}

LEMMA ReachedStays ==
    ASSUME NEW o \in Reached, NEW data \in Message
    PROVE  Update(o, data) \in Reached
<1>1. PICK w : Given(o, w)
    BY DEF Reached
<1>2. Given(Update(o, data), w \o data)
    BY <1>1, UpdateGiven
<1>3. PICK p, x : p = Update(o, data) /\ x = w \o data
    OBVIOUS
<1>4. Given(p, x)
    BY <1>2, <1>3
<1>5. p \in Objects
    BY <1>4 DEF Given
<1> QED
    BY <1>3, <1>4, <1>5 DEF Reached

LEMMA PaddingsAre ==
    ASSUME NEW o, NEW w, Given(o, w)
    PROVE  /\ Paddings(o)[0] = Update(o, Mark)
           /\ \A n \in 1 .. BlockBytes - 1 : Paddings(o)[n] = Update(Paddings(o)[n - 1], <<0>>)
<1>2. PICK N \in Nat : N = BlockBytes - 1
    BY HashSizes
<1>3. PICK s \in Reached : s = Update(o, <<Radix \div 2>>)
  <2>1. o \in Reached
      BY DEF Given, Reached
  <2> QED
      BY <2>1, ReachedStays, PaddingBytes DEF Mark
<1> DEFINE Round(f) == [n \in 0 .. BlockBytes - 1 |-> IF n = 0 THEN s ELSE Update(f[n - 1], <<0>>)]
<1>1. Paddings(o) = CHOOSE f : f = Round(f)
    BY <1>3 DEF Paddings
<1>4. PICK step : step = [p \in Reached \X (1 .. N) |-> Update(p[1], <<0>>)]
    OBVIOUS
<1>5. IsStep(step, Reached, N)
  <2>1. \A p \in Reached \X (1 .. N) : Update(p[1], <<0>>) \in Reached
      BY ReachedStays, PaddingBytes
  <2> QED
      BY <1>4, <2>1 DEF IsStep
<1>6. PICK f : IsWalk(f, s, N, step, Reached)
    BY <1>5, WalkExists
<1>7. ASSUME NEW n \in 1 .. N PROVE f[n] = Update(f[n - 1], <<0>>)
  <2>1. f[n - 1] \in Reached /\ f[n] = step[<<f[n - 1], n>>]
      BY <1>6 DEF IsWalk
  <2> QED
      BY <1>4, <2>1
<1>8. f = Round(f)
  <2>1. f = [n \in 0 .. N |-> IF n = 0 THEN s ELSE Update(f[n - 1], <<0>>)]
    <3>1. f \in [0 .. N -> Reached] /\ f[0] = s
        BY <1>6 DEF IsWalk
    <3>2. \A n \in 0 .. N : f[n] = IF n = 0 THEN s ELSE Update(f[n - 1], <<0>>)
      <4>1. \A n \in 0 .. N : n = 0 \/ n \in 1 .. N
          OBVIOUS
      <4> QED
          BY <1>7, <3>1, <4>1
    <3> QED
        BY <3>1, <3>2
  <2> QED
      BY <1>2, <2>1
<1>9. Paddings(o) = Round(Paddings(o))
  <2> HIDE DEF Round
  <2> QED
      BY <1>1, <1>8
<1>10. PICK g : g = Paddings(o)
    OBVIOUS
<1>11. g = [n \in 0 .. N |-> IF n = 0 THEN s ELSE Update(g[n - 1], <<0>>)]
    BY <1>2, <1>9, <1>10
<1>12. ASSUME NEW n \in 1 .. N PROVE g[n] = Update(g[n - 1], <<0>>)
  <2>1. n \in 0 .. N /\ n # 0
      OBVIOUS
  <2> QED
      BY <1>11, <2>1
<1>13. g[0] = s
    BY <1>11
<1>14. s = Update(o, Mark)
    BY <1>3 DEF Mark
<1> QED
    BY <1>2, <1>10, <1>12, <1>13, <1>14

LEMMA PaddingsGiven ==
    ASSUME NEW o, NEW w, Given(o, w), NEW n \in 0 .. BlockBytes - 1
    PROVE  Given(Paddings(o)[n], w \o Mark \o Zeros(n))
<1>1. PICK N \in Nat : N = BlockBytes - 1
    BY HashSizes
<1>2. PICK g, y : g = Paddings(o) /\ y = w \o Mark
    OBVIOUS
<1>3. g[0] = Update(o, Mark) /\ \A k \in 1 .. N : g[k] = Update(g[k - 1], <<0>>)
    BY <1>1, <1>2, PaddingsAre
<1>4. y \in Message
  <2>1. w \in Seq(HashedBytes) /\ Mark \in Seq(HashedBytes)
      BY PaddingBytes DEF Given, Message
  <2> QED
      BY <1>2, <2>1, JoinedIs DEF Message
<1> DEFINE P == {k \in 0 .. N : Given(g[k], y \o Zeros(k))}
<1>5. 0 \in P
  <2>1. Given(Update(o, Mark), w \o Mark)
      BY PaddingBytes, UpdateGiven
  <2>2. Zeros(0) = <<>>
      BY DEF Zeros
  <2>3. y \o <<>> = y
      BY <1>4, ConcatEmptySeq DEF Message
  <2>4. Given(g[0], y \o Zeros(0))
      BY <1>2, <1>3, <2>1, <2>2, <2>3
  <2> QED
      BY <2>4
<1>6. ASSUME NEW k \in 1 .. N, k - 1 \in P PROVE k \in P
  <2>1. PICK p, z : p = g[k - 1] /\ z = Zeros(k - 1)
      OBVIOUS
  <2>2. Given(p, y \o z)
      BY <1>6, <2>1
  <2>3. Given(Update(p, <<0>>), (y \o z) \o <<0>>)
      BY <2>2, PaddingBytes, UpdateGiven
  <2>4. (y \o z) \o <<0>> = y \o (z \o <<0>>)
    <3>1. k - 1 \in Nat
        OBVIOUS
    <3>2. z \in Seq(HashedBytes) /\ y \in Seq(HashedBytes) /\ <<0>> \in Seq(HashedBytes)
        BY <1>4, <2>1, <3>1, ZerosAre, PaddingBytes DEF Message
    <3> QED
        BY <3>2, ConcatAssociative
  <2>5. z \o <<0>> = Zeros(k)
    <3>1. k \in Nat \ {0}
        OBVIOUS
    <3> QED
        BY <2>1, <3>1, OneMoreZero
  <2>6. g[k] = Update(p, <<0>>)
      BY <1>3, <2>1
  <2>7. Given(g[k], y \o Zeros(k))
      BY <2>3, <2>4, <2>5, <2>6
  <2> QED
      BY <2>7
<1>7. \A k \in 0 .. N : k \in P
  <2> HIDE DEF P
  <2> QED
      BY <1>5, <1>6, AllTheWay
<1>8. Given(g[n], y \o Zeros(n))
    BY <1>1, <1>7
<1> QED
    BY <1>2, <1>8

\* So many zeros, and no other number of them, bring the length to where it belongs.
LEMMA ZerosFit ==
    ASSUME NEW l \in Nat, NEW n, n = (BlockBytes - LengthBytes - 1 - l) % BlockBytes
    PROVE  /\ n \in 0 .. BlockBytes - 1 /\ (l + 1 + n) % BlockBytes = BlockBytes - LengthBytes
           /\ \A k \in 0 .. BlockBytes - 1 :
                 (l + 1 + k) % BlockBytes = BlockBytes - LengthBytes => k = n
<1>1. PICK b \in Nat \ {0}, a \in Nat \ {0} : b = BlockBytes /\ a = LengthBytes /\ a < b
    BY HashSizes
<1>2. PICK x \in Int : x = b - a - 1 - l
    OBVIOUS
<1>3. PICK q \in Int, r \in 0 .. b - 1 : x = b * q + r /\ r = x % b
    OBVIOUS
<1>4. n = r
    BY <1>1, <1>2, <1>3
<1>5. PICK t \in Nat : t = l + 1 + r
    OBVIOUS
<1>6. t % b = b - a
  <2>1. t = (b - a) - b * q
      BY <1>2, <1>3, <1>5
  <2>2. PICK m \in Int : m = - q
      OBVIOUS
  <2>3. b * q = - (b * m)
      BY <2>2
  <2>4. t = b * m + (b - a)
      BY <2>1, <2>3
  <2>5. m \in Nat
    <3>1. CASE m < 0
      <4>1. PICK k \in Nat : m = - k - 1
        <5>1. - m - 1 \in Nat /\ m = - (- m - 1) - 1
            BY <3>1
        <5> QED
            BY <5>1
      <4>2. PICK y \in Nat : y = b * k
          OBVIOUS
      <4>3. b * m = - y - b
          BY <4>1, <4>2
      <4> QED
          BY <1>1, <2>4, <4>3
    <3> QED
        BY <2>2, <3>1
  <2>6. PICK c \in 0 .. b - 1, k \in Nat : c = b - a /\ k = m
      BY <1>1, <2>5
  <2>7. t = b * k + c
      BY <2>4, <2>6
  <2>8. t % b = c
      BY <2>7, RemainderIs
  <2> QED
      BY <2>6, <2>8
<1>7. PICK c \in Nat : c = l + 1
    OBVIOUS
<1>8. ASSUME NEW k \in 0 .. b - 1, (c + k) % b = b - a PROVE k = r
  <2>1. (c + r) % b = b - a
      BY <1>5, <1>6, <1>7
  <2>2. CASE k < r
      BY <1>8, <2>1, <2>2, StepsDiffer
  <2>3. CASE r < k
      BY <1>8, <2>1, <2>3, StepsDiffer
  <2> QED
      BY <2>2, <2>3
<1> QED
    BY <1>1, <1>3, <1>4, <1>5, <1>6, <1>7, <1>8

LEMMA FinalizeIs ==
    ASSUME NEW o, NEW w, Given(o, w)
    PROVE  Finalize(o) = BlocksOf(Padded(w))
<1>1. PICK l \in Nat : l = Len(w) /\ l = o.count
    BY BlocksOfIs DEF Given
<1>2. PICK n : n = (BlockBytes - LengthBytes - 1 - l) % BlockBytes
    OBVIOUS
<1>3. /\ n \in 0 .. BlockBytes - 1 /\ (l + 1 + n) % BlockBytes = BlockBytes - LengthBytes
      /\ \A k \in 0 .. BlockBytes - 1 :
            (l + 1 + k) % BlockBytes = BlockBytes - LengthBytes => k = n
    BY <1>2, ZerosFit
<1>4. n = CHOOSE k \in 0 .. BlockBytes - 1 : (o.count + 1 + k) % BlockBytes = BlockBytes - LengthBytes
    BY <1>1, <1>3
<1>5. PICK d, p, y : d = BigEndian(l * 8) /\ p = Paddings(o)[n] /\ y = w \o Mark \o Zeros(n)
    OBVIOUS
<1>6. Given(p, y)
    BY <1>3, <1>5, PaddingsGiven
<1>7. d \in Message
  <2>1. l * 8 \in Nat
      OBVIOUS
  <2> QED
      BY <1>5, <2>1, BigEndianIs
<1>8. Given(Update(p, d), y \o d)
    BY <1>6, <1>7, UpdateGiven
<1>9. Finalize(o) = Update(p, d).blocks
    BY <1>1, <1>4, <1>5 DEF Finalize
<1>10. Padded(w) = y \o d
  <2>1. l * 8 = 8 * l
      OBVIOUS
  <2> QED
      BY <1>1, <1>2, <1>5, <2>1 DEF Padded, Mark, Zeros
<1> QED
    BY <1>8, <1>9, <1>10 DEF Given

-----------------------------------------------------------------------------
(* Padded messages tell seeds apart *)

LEMMA PaddedIs ==
    ASSUME NEW w \in Message
    PROVE  /\ Padded(w) \in Message /\ Len(w) <= Len(Padded(w))
           /\ \A i \in 1 .. Len(w) : Padded(w)[i] = w[i]
           /\ Len(Padded(w)) = Len(w) + 1 + ((BlockBytes - LengthBytes - 1 - Len(w)) % BlockBytes) + LengthBytes
<1>1. PICK l \in Nat : l = Len(w)
    BY BlocksOfIs
<1>2. PICK n : n = (BlockBytes - LengthBytes - 1 - l) % BlockBytes
    OBVIOUS
<1>3. n \in 0 .. BlockBytes - 1 /\ n \in Nat
  <2>1. n \in 0 .. BlockBytes - 1
      BY <1>2, ZerosFit
  <2> QED
      BY <2>1
<1>4. PICK d, z : d = BigEndian(8 * l) /\ z = Zeros(n)
    OBVIOUS
<1>5. d \in Message /\ Len(d) = LengthBytes /\ z \in Message /\ Len(z) = n
  <2>1. PICK e \in Nat : e = 8 * l
      OBVIOUS
  <2>2. BigEndian(e) \in Message /\ Len(BigEndian(e)) = LengthBytes
      BY BigEndianIs
  <2>3. Zeros(n) \in Message /\ Len(Zeros(n)) = n
      BY <1>3, ZerosAre
  <2> QED
      BY <1>4, <2>1, <2>2, <2>3
<1>6. PICK x, y, v : x = w \o Mark /\ y = x \o z /\ v = y \o d
    OBVIOUS
<1>7. Padded(w) = v
    BY <1>1, <1>2, <1>4, <1>6 DEF Padded, Mark, Zeros
<1>8. w \in Seq(HashedBytes) /\ Mark \in Seq(HashedBytes) /\ z \in Seq(HashedBytes) /\ d \in Seq(HashedBytes)
    BY <1>5, PaddingBytes DEF Message
<1>9. x \in Seq(HashedBytes) /\ Len(x) = l + 1 /\ \A i \in 1 .. l : x[i] = w[i]
  <2>1. /\ x \in Seq(HashedBytes) /\ Len(x) = Len(w) + Len(Mark)
        /\ \A i \in 1 .. Len(w) : x[i] = w[i]
      BY <1>6, <1>8, JoinedIs
  <2> QED
      BY <1>1, <2>1, PaddingBytes
<1>10. y \in Seq(HashedBytes) /\ Len(y) = l + 1 + n /\ \A i \in 1 .. l + 1 : y[i] = x[i]
  <2>1. /\ y \in Seq(HashedBytes) /\ Len(y) = Len(x) + Len(z)
        /\ \A i \in 1 .. Len(x) : y[i] = x[i]
    <3>1. x \in Seq(HashedBytes) /\ z \in Seq(HashedBytes) /\ y = x \o z
        BY <1>6, <1>8, <1>9
    <3> QED
        BY <3>1, JoinedIs
  <2> QED
      BY <1>5, <1>9, <2>1
<1>11. v \in Seq(HashedBytes) /\ Len(v) = l + 1 + n + LengthBytes /\ \A i \in 1 .. l + 1 + n : v[i] = y[i]
  <2>1. /\ v \in Seq(HashedBytes) /\ Len(v) = Len(y) + Len(d)
        /\ \A i \in 1 .. Len(y) : v[i] = y[i]
      BY <1>6, <1>8, <1>10, JoinedIs
  <2> QED
      BY <1>5, <1>10, <2>1
<1>12. \A i \in 1 .. l : i \in 1 .. l + 1 /\ i \in 1 .. l + 1 + n
    BY <1>3
<1>13. \A i \in 1 .. l : v[i] = w[i]
    BY <1>9, <1>10, <1>11, <1>12
<1>14. l <= Len(v)
    BY <1>3, <1>11, HashSizes
<1> QED
    BY <1>1, <1>2, <1>7, <1>11, <1>13, <1>14 DEF Message

\* A padded message is whole blocks.
LEMMA PaddedIsWhole ==
    ASSUME NEW w \in Message
    PROVE  \E m \in Nat : /\ Len(Padded(w)) = m * BlockBytes
                          /\ m = Len(Padded(w)) \div BlockBytes
<1>1. PICK l \in Nat : l = Len(w)
    BY BlocksOfIs
<1>2. PICK n : n = (BlockBytes - LengthBytes - 1 - l) % BlockBytes
    OBVIOUS
<1>3. n \in 0 .. BlockBytes - 1 /\ (l + 1 + n) % BlockBytes = BlockBytes - LengthBytes
    BY <1>2, ZerosFit
<1>4. PICK b \in Nat \ {0}, a \in Nat : b = BlockBytes /\ a = LengthBytes
    BY HashSizes
<1>5. PICK t \in Nat : t = l + 1 + n /\ t % b = b - a
    BY <1>3, <1>4
<1>6. PICK q \in Nat : t = b * q + (b - a)
    BY <1>5, Remainder
<1>7. PICK m \in Nat : m = q + 1
    OBVIOUS
<1>8. PICK v : v = Padded(w)
    OBVIOUS
<1>9. v \in Message /\ Len(v) = t + a
    BY <1>1, <1>2, <1>4, <1>5, <1>8, PaddedIs
<1>10. Len(v) = m * b
    BY <1>6, <1>7, <1>9
<1>11. PICK k \in Nat, r \in 0 .. BlockBytes - 1 :
          Len(v) = k * BlockBytes + r /\ k = Len(v) \div BlockBytes /\ r = Len(v) % BlockBytes
    BY <1>9, CountedOut
<1>12. PICK z \in 0 .. BlockBytes - 1, x \in Nat : z = 0 /\ x = Len(v) /\ x = m * BlockBytes + z
  <2>1. 0 \in 0 .. BlockBytes - 1 /\ m * b \in Nat
      BY HashSizes
  <2> QED
      BY <1>4, <1>10, <2>1
<1>13. x \div BlockBytes = m
    BY <1>12, BlockCount
<1> QED
    BY <1>4, <1>8, <1>10, <1>12, <1>13

LEMMA PaddedTellApart ==
    ASSUME NEW s \in Message, NEW t \in Message, Len(s) = Len(t),
           BlocksOf(Padded(s)) = BlocksOf(Padded(t))
    PROVE  s = t
<1>1. PICK v, u : v = Padded(s) /\ u = Padded(t)
    OBVIOUS
<1>2. /\ v \in Message /\ u \in Message /\ Len(v) = Len(u) /\ Len(s) <= Len(v)
      /\ \A i \in 1 .. Len(s) : v[i] = s[i]
      /\ \A i \in 1 .. Len(s) : u[i] = t[i]
    BY <1>1, PaddedIs
<1>3. PICK b \in Nat \ {0}, l \in Nat : b = BlockBytes /\ l = Len(s)
    BY HashSizes, BlocksOfIs
<1>4. PICK m \in Nat : Len(v) = m * b /\ m = Len(v) \div BlockBytes
    BY <1>1, <1>3, PaddedIsWhole
<1>5. PICK bs, cs : bs = BlocksOf(v) /\ cs = BlocksOf(u)
    OBVIOUS
<1>6. bs = cs /\ Len(bs) = m /\ Len(cs) = m
    BY <1>1, <1>2, <1>4, <1>5, BlocksOfIs
<1>7. ASSUME NEW i \in 1 .. l PROVE s[i] = t[i]
  <2>1. PICK x \in Nat : x + 1 = i
    <3>1. i - 1 \in Nat /\ (i - 1) + 1 = i
        OBVIOUS
    <3> QED
        BY <3>1
  <2>2. PICK q \in Nat, r \in 0 .. b - 1 : x = b * q + r
      BY DivMod
  <2>3. q < m
    <3>1. CASE m <= q
      <4>1. PICK d \in Nat : q = m + d
        <5>1. q - m \in Nat /\ q = m + (q - m)
            BY <3>1
        <5> QED
            BY <5>1
      <4>2. PICK y \in Nat, z \in Nat : y = m * b /\ z = b * d
          OBVIOUS
      <4>3. b * q = y + z
          BY <4>1, <4>2
      <4>4. i <= y
          BY <1>2, <1>3, <1>4, <4>2
      <4> QED
          BY <2>1, <2>2, <4>3, <4>4
    <3> QED
        BY <3>1
  <2>4. PICK k \in 1 .. m, j \in 1 .. BlockBytes : k = q + 1 /\ j = r + 1
      BY <1>3, <2>3
  <2>5. (k - 1) * BlockBytes + j = i
    <3>1. k - 1 = q
        BY <2>4
    <3>2. b * q = q * b
        OBVIOUS
    <3> QED
        BY <1>3, <2>1, <2>2, <2>4, <3>1, <3>2
  <2>6. bs[k][j] = v[(k - 1) * BlockBytes + j]
    <3>1. v \in Message /\ k \in 1 .. Len(BlocksOf(v))
        BY <1>2, <1>5, <1>6
    <3>2. BlocksOf(v)[k][j] = v[(k - 1) * BlockBytes + j]
        BY <3>1, BlockByte
    <3> QED
        BY <1>5, <3>2
  <2>7. cs[k][j] = u[(k - 1) * BlockBytes + j]
    <3>1. u \in Message /\ k \in 1 .. Len(BlocksOf(u))
        BY <1>2, <1>5, <1>6
    <3>2. BlocksOf(u)[k][j] = u[(k - 1) * BlockBytes + j]
        BY <3>1, BlockByte
    <3> QED
        BY <1>5, <3>2
  <2> QED
      BY <1>2, <1>3, <1>6, <2>5, <2>6, <2>7
<1> QED
    BY <1>3, <1>7, SameElements DEF Message

-----------------------------------------------------------------------------
(* Every digest is the message's *)

LEMMA HashOf ==
    ASSUME NEW s \in Message
    PROVE  Finalize(Update(NewSha, s)) = BlocksOf(Padded(s))
<1>1. Given(Update(NewSha, s), <<>> \o s)
    BY NewShaGiven, UpdateGiven
<1>2. <<>> \o s = s
    BY ConcatEmptySeq DEF Message
<1>3. Given(Update(NewSha, s), s)
    BY <1>1, <1>2
<1> QED
    BY <1>3, FinalizeIs

\* A seed is verified against its own digest and no other.
LEMMA SeedsVerify ==
    ASSUME NEW s \in Seeds, NEW t \in Seeds
    PROVE  VerifySeed(s, BlocksOf(Padded(t))) <=> s = t
<1>1. PICK n \in Nat : n = SeedBytes
    BY HashSizes
<1>2. s \in [1 .. n -> HashedBytes] /\ t \in [1 .. n -> HashedBytes]
    BY <1>1, HashAssumption
<1>3. s \in Message /\ t \in Message /\ Len(s) = Len(t)
    BY <1>2 DEF Message
<1>4. Finalize(Update(NewSha, s)) = BlocksOf(Padded(s))
    BY <1>3, HashOf
<1>5. BlocksOf(Padded(s)) = BlocksOf(Padded(t)) <=> s = t
    BY <1>3, PaddedTellApart
<1> QED
    BY <1>4, <1>5 DEF VerifySeed

\* The object was given what was fed of the message; a digest is of as much.
ShaInv ==
    /\ message \in Message /\ fed \in 0 .. Len(message)
    /\ Given(sha, SubSeq(message, 1, fed))
    /\ digest # NoDigest => digest = BlocksOf(Padded(SubSeq(message, 1, fed)))

LEMMA ShaInvInit == ShaInit => ShaInv
<1> SUFFICES ASSUME ShaInit PROVE ShaInv
    OBVIOUS
<1>1. message \in Message
    BY HashAssumption DEF ShaInit, Message
<1>2. Len(message) \in Nat
    BY <1>1, BlocksOfIs
<1>3. PICK w : w = SubSeq(message, 1, fed)
    OBVIOUS
<1>4. w = <<>>
  <2>1. SubSeq(message, 1, 0) = <<>>
      BY SubSeqEmpty
  <2> QED
      BY <1>3, <2>1 DEF ShaInit
<1>5. Given(sha, w)
    BY <1>4, NewShaGiven DEF ShaInit
<1> QED
    BY <1>1, <1>2, <1>3, <1>5 DEF ShaInit, ShaInv

LEMMA ShaInvFeed ==
    ASSUME ShaInv, NEW n \in 0 .. MaxPiece, Feed(n)
    PROVE  ShaInv'
<1>1. message \in Message /\ fed \in 0 .. Len(message) /\ Len(message) \in Nat
    BY BlocksOfIs DEF ShaInv
<1>2. n \in Nat /\ fed + n <= Len(message)
    BY HashAssumption DEF Feed
<1>3. PICK u \in Message, a \in Nat, m \in Nat, e \in Nat :
         u = message /\ a = fed /\ m = n /\ e = a + m
    BY <1>1, <1>2
<1>4. PICK w, p, x : w = SubSeq(u, 1, a) /\ p = SubSeq(u, a + 1, a + m) /\ x = SubSeq(u, 1, e)
    OBVIOUS
<1>5. a <= Len(u) /\ a + m <= Len(u) /\ e <= Len(u)
    BY <1>1, <1>2, <1>3
<1>6. w \in Message /\ Len(w) = a /\ \A i \in 1 .. a : w[i] = u[i]
    BY <1>4, <1>5, HeadIs
<1>7. IsPiece(p, u, a, m)
    BY <1>4, <1>5, PieceIs
<1>8. x \in Message /\ Len(x) = e /\ \A i \in 1 .. e : x[i] = u[i]
    BY <1>4, <1>5, HeadIs
<1>9. w \o p = x
  <2>1. PICK y : y = w \o p
      OBVIOUS
  <2>2. w \in Seq(HashedBytes) /\ p \in Seq(HashedBytes) /\ x \in Seq(HashedBytes)
      BY <1>6, <1>7, <1>8 DEF IsPiece, Message
  <2>3. /\ y \in Seq(HashedBytes) /\ Len(y) = Len(w) + Len(p)
        /\ \A i \in 1 .. Len(w) : y[i] = w[i]
        /\ \A i \in 1 .. Len(p) : y[Len(w) + i] = p[i]
      BY <2>1, <2>2, JoinedIs
  <2>4. Len(p) = m /\ \A i \in 1 .. m : p[i] = u[a + i]
      BY <1>7 DEF IsPiece
  <2>5. ASSUME NEW i \in 1 .. e PROVE y[i] = x[i]
    <3>1. CASE i \in 1 .. a
        BY <1>6, <1>8, <2>3, <3>1
    <3>2. CASE i \in a + 1 .. a + m
      <4>1. PICK j \in 1 .. m : a + j = i
        <5>1. i - a \in 1 .. m /\ a + (i - a) = i
            BY <3>2
        <5> QED
            BY <5>1
      <4> QED
          BY <1>6, <1>8, <2>3, <2>4, <4>1
    <3> QED
        BY <1>3, <3>1, <3>2
  <2>6. Len(y) = Len(x)
      BY <1>3, <1>6, <1>8, <2>3, <2>4
  <2>7. y = x
      BY <1>8, <2>2, <2>3, <2>5, <2>6, SameElements
  <2> QED
      BY <2>1, <2>7
<1>10. Given(sha, w)
    BY <1>3, <1>4 DEF ShaInv
<1>11. Given(Update(sha, p), w \o p)
  <2>1. p \in Message
      BY <1>7 DEF IsPiece
  <2> QED
      BY <1>10, <2>1, UpdateGiven
<1>12. sha' = Update(sha, p) /\ fed' = e /\ message' = u /\ digest' = NoDigest
    BY <1>3, <1>4 DEF Feed
<1>13. Given(sha', x)
    BY <1>9, <1>11, <1>12
<1>14. Given(sha', SubSeq(message', 1, fed'))
    BY <1>4, <1>12, <1>13
<1>15. message' \in Message /\ fed' \in 0 .. Len(message')
    BY <1>1, <1>3, <1>5, <1>12
<1> QED
    BY <1>12, <1>14, <1>15 DEF ShaInv

LEMMA ShaInvDigest == ShaInv /\ Digest => ShaInv'
<1> SUFFICES ASSUME ShaInv, Digest PROVE ShaInv'
    OBVIOUS
<1>1. PICK w : w = SubSeq(message, 1, fed)
    OBVIOUS
<1>2. Given(sha, w)
    BY <1>1 DEF ShaInv
<1>3. digest' = BlocksOf(Padded(w))
    BY <1>2, FinalizeIs DEF Digest
<1>4. message' = message /\ fed' = fed /\ sha' = sha
    BY DEF Digest
<1> QED
    BY <1>1, <1>2, <1>3, <1>4 DEF ShaInv

LEMMA ShaInvNext == ShaInv /\ [ShaNext]_shaVars => ShaInv'
<1> SUFFICES ASSUME ShaInv, [ShaNext]_shaVars PROVE ShaInv'
    OBVIOUS
<1>1. CASE Digest
    BY <1>1, ShaInvDigest
<1>2. ASSUME NEW n \in 0 .. MaxPiece, Feed(n) PROVE ShaInv'
    BY <1>2, ShaInvFeed
<1>3. CASE UNCHANGED shaVars
    BY <1>3 DEF ShaInv, shaVars
<1> QED
    BY <1>1, <1>2, <1>3 DEF ShaNext

\* However a message is cut into calls of update, finalize transforms the blocks of
\* the padded message, no byte of it lost, repeated or older; and verify_seed takes no
\* seed for another.
THEOREM EveryDigestIsExact == ShaSpec => []DigestsAreExact
<1>1. ShaInv => DigestsAreExact
    BY SeedsVerify DEF ShaInv, DigestsAreExact
<1> QED
    BY <1>1, ShaInvInit, ShaInvNext, PTL DEF ShaSpec
=============================================================================
