-------------------------- MODULE MCManifoldClients --------------------------
(***************************************************************************)
(* Addresses of four bits: four blocks of two atoms of two bytes, a pool   *)
(* of two.  Burnt results, transitions, the guest's image (from 4 on) and  *)
(* the handlers (at 8 and 12) lie in one another's blocks.  A mnemonic of  *)
(* two characters is cut down to one.                                      *)
(***************************************************************************)
EXTENDS ManifoldClients, Bitwise

CONSTANT junk

MCXor(a, b) == a ^^ b

Atom(route, lo) == [route |-> route, lo |-> lo]
MCValues == {Atom(0, 0), Atom(0, 5), Atom(2, 0), Atom(3, 0), Atom(2, 7), Atom(0, 7)}
MCZero == Atom(0, 0)
MCJunk == Atom(1, 3)
MCExtents == {<<a, n>> : a \in 0 .. 1, n \in 0 .. 3}

MCNames == {<<"n">>, <<"n", "o">>}
MCScripts == {<<1>>, <<1, 3>>, <<9, 4, 4>>}
MCTransitions == {<<0, 1, 3>>, <<1, 0, 2>>}
MCHandlers == {Atom(0, 7), Atom(2, 7)}
MCImageAtom == Atom(0, 5)
=============================================================================
