------------------------------ MODULE MCMultipart ------------------------------
EXTENDS HikMultipart, TLC

\* Two events, one with a dash in its header and one of another type; bodies that
\* are cut short, end in half a boundary, or are fatal in one of the four ways; no
\* header at all.
MCParts ==
    {[bytes |-> <<"#", "e1">>,      events |-> <<"e1">>, fatal |-> FALSE],
     [bytes |-> <<"-", "#", "e2">>, events |-> <<"e2">>, fatal |-> FALSE],
     [bytes |-> <<"#", "heartbeat">>, events |-> <<>>,   fatal |-> FALSE],
     [bytes |-> <<"#", "e1", "-">>, events |-> <<>>,     fatal |-> FALSE],
     [bytes |-> <<"#", "[]">>,      events |-> <<>>,     fatal |-> TRUE],
     [bytes |-> <<"#", "null">>,    events |-> <<>>,     fatal |-> TRUE],
     [bytes |-> <<"#", "inf">>,     events |-> <<>>,     fatal |-> TRUE],
     [bytes |-> <<"#", "deep">>,    events |-> <<>>,     fatal |-> TRUE],
     [bytes |-> <<"e2">>,           events |-> <<>>,     fatal |-> FALSE]}
=============================================================================
