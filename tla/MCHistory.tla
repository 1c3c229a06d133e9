------------------------------- MODULE MCHistory -------------------------------
EXTENDS HikHistory, TLC

CONSTANTS k1, k2, a, b, umlaut

MCSlots == {k1, k2}
\* Two names that make a valid id, and one that does not.
MCIds   == {a, b, umlaut}
MCValid == {a, b}

\* All namings, up to an exchange of the readers and of a and b.
Named(i, j) == [k \in MCSlots |-> IF k = k1 THEN i ELSE j]
MCNamings   == {Named(a, a), Named(a, b), Named(a, umlaut), Named(umlaut, umlaut)}
=============================================================================
