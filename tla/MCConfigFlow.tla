------------------------------ MODULE MCConfigFlow ------------------------------
EXTENDS HikConfigFlow, TLC

CONSTANTS h1, h2, s1, f1, f2, e1, e2

MCHosts   == {h1, h2}
MCSerials == {s1}
MCFlows   == {f1, f2}
MCEntries == {e1, e2}
Symmetry  == Permutations(MCFlows)
=============================================================================
