---------------------------- MODULE MCClientSync ----------------------------
(* Small instances of the two parts of what an editor shows: the graph, in      *)
(* ClientSync, and what an output node writes to the status registry of DeckLink *)
(* devices, in DeckLinkDevices. They share nothing, and a behaviour is about    *)
(* one of them.                                                                 *)
EXTENDS ClientSync, DeckLinkDevices, TLC

CONSTANTS c1, c2, n1, n2, n3, l1, low, wrong, d1, d2, card, other, locked, warm

VARIABLE part

TwoClients  == {c1, c2}
OneClient   == {c1}
ThreeIds    == {n1, n2, n3}
FirstIds    == {n1, n2}
OneLocal    == {l1}
TwoValues   == {low, wrong}
Corrections == [v \in TwoValues |-> low]

\* Editors are interchangeable; ids are not, since folds choose among them.
Symmetry == Permutations(TwoClients)

\* Two devices without an id share the name of their card. A node plays on devices that
\* report nothing, or only shows a device that reports.
PlayingOrShowing ==
    {[enabled |-> playing, reporting |-> IF playing THEN {} ELSE {d1},
      name_of |-> [d \in {d1, d2} |-> card], option |-> card] : playing \in BOOLEAN}
NotPlaying == {s \in PlayingOrShowing : ~s.enabled}

PartsInit ==
    /\ Init /\ DevicesInit
    /\ part \in {"graph", "devices"}
    /\ part = "graph" => enabled = FALSE /\ \A d \in Devices : actual[d] = NoStatus

PartsNext ==
    \/ part = "graph" /\ Next /\ UNCHANGED <<part, device_vars>>
    \/ part = "devices" /\ DevicesNext /\ UNCHANGED <<part, vars>>

PartsSpec == PartsInit /\ [][PartsNext]_<<part, vars, device_vars>>
=============================================================================
