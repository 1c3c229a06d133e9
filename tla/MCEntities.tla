------------------------------- MODULE MCEntities -------------------------------
EXTENDS HikEntities, TLC

CONSTANTS c1, c2, c3

MCCards == {c1, c2, c3}

Event(slot, minor, card, named) ==
    [slot |-> slot, minor |-> minor, card |-> card, named |-> named]

\* A code of every table and an unknown one, with and without a card.
MCEvents ==
    {Event(1, 1, c1, TRUE), Event(1, 8, c2, TRUE), Event(2, 22, c3, FALSE),
     Event(2, 21, NoCard, FALSE), Event(2, 82, NoCard, FALSE), Event(2, 99, NoCard, FALSE)}

\* More cardholders than the cap at the reader that a cut probe loop misses, one of
\* them unnamed, and an event without a card at the other.
MCDayEvents ==
    {Event(2, 1, c1, TRUE), Event(2, 8, c2, TRUE), Event(2, 22, c3, FALSE),
     Event(1, 21, NoCard, FALSE)}
=============================================================================
