--------------------------- MODULE MCFrameExecution ---------------------------
(* Two sources, a switch, a mix and two outputs, wired in many ways. *)
EXTENDS FrameExecution

CONSTANTS s1, s2, sw, mix, o1, o2, br1, br2

MCRoutesOf == [n \in Nodes |->
    IF n = sw THEN {{br1}, {br2}} ELSE IF n = mix THEN {{br1}, {br2}, {br1, br2}} ELSE {{}}]

NoWires == [n \in Nodes |-> {}]

\* The mix draws into a framebuffer of s1; the outputs read the mix and the switch.
Wiring(swControl, swBranches, mixControl, mixBranches) ==
    [always  |-> [NoWires EXCEPT ![mix] = {s1}, ![o1] = {mix}, ![o2] = {sw}],
     control |-> [NoWires EXCEPT ![sw] = swControl, ![mix] = mixControl],
     branch  |-> [n \in Nodes |->
        IF n = sw THEN [b \in Branches |-> IF b = br1 THEN swBranches[1] ELSE swBranches[2]]
        ELSE IF n = mix THEN [b \in Branches |-> IF b = br1 THEN mixBranches[1] ELSE mixBranches[2]]
        ELSE [b \in Branches |-> {}]]]

\* Diamonds on purpose: the switch, the sources and the mix have several readers.
MCGraphs ==
    {Wiring(swControl, <<{s1}, {s2}>>, mixControl, mixBranches) :
        swControl \in {{}, {s2}}, mixControl \in {{}, {sw}},
        mixBranches \in {<<{s1}, {sw}>>, <<{sw}, {}>>}}

===============================================================================
