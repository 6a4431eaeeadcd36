---------------------------- MODULE MCNodeManager ----------------------------
(* Small instances of the node graph for TLC. *)
EXTENDS GraphBroadcast, TLC

CONSTANTS app, a, b, c, settings, effect, unknown, opt1, opt2, bad, none

\* Only the settings take both options: an update of a node is refused or changes
\* nothing, an update of the settings may change them.
MCTypeOptions == [t \in {settings, effect} |-> IF t = effect THEN {opt1} ELSE Options]

\* A framebuffer chain: one single input, one single output.
MCIfaces == {"in", "fb"}
MCNodeIfaces == [t \in {settings, effect} |-> IF t = effect THEN MCIfaces ELSE {}]
MCAccepts == {<<"fb", "in">>}

\* Two interfaces of opposite directions, named in either order, of any two
\* nodes; two of the same direction of one node.
MCRequests == {r \in [from_node : Ids \ {app}, from_interface : MCIfaces,
                      to_node : Ids \ {app}, to_interface : MCIfaces] :
                  r.from_interface # r.to_interface \/ r.from_node = r.to_node}

\* Bound: commands run ahead of the render thread by at most two marked nodes.
MCBacklog == Cardinality(dirty \cup removed) <= 2

MCSymmetry == Permutations(Ids \ {app})
=============================================================================
