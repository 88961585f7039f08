------------------------------ MODULE MCShell -------------------------------
(***************************************************************************)
(* TLC instances of Shell: node 1, and messages from node 2.               *)
(***************************************************************************)
EXTENDS Shell

MCPrefix == [a \in Author |-> 0]

\* A Want for the first channel, and the Have of both ops.
MCIncoming ==
    {WantMessage(2, {Whole(1, {})}), HaveMessage(2, [cells |-> Cell, pay |-> Cell])}

\* The header of one op.
MCFoundRelay == {[cells |-> {<<1, 1, 0>>}, pay |-> {}]}

Nothing == {NoOps}

MCAuthorable == {<<2, 1, 0>>}

\* The application meddles, a call fails, or both in fewer commands.
Meddling == [commands |-> 3, ticks |-> 2, appChanges |-> 1, errors |-> 0]

Failing == [commands |-> 3, ticks |-> 2, appChanges |-> 0, errors |-> 1]

Both == [commands |-> 2, ticks |-> 2, appChanges |-> 1, errors |-> 1]

\* A steady stream of commands: long enough for three appends, each before the
\* one before it has been quiet for the window, to put the push off.
Steady == [commands |-> 4, ticks |-> 4, appChanges |-> 0, errors |-> 0]

EveryBudget == {Meddling, Failing, Both, Steady}

FailingBudget == {Failing}
=============================================================================
