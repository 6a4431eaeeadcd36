--------------------------- MODULE StatusSyncProofs ---------------------------
(***************************************************************************)
(* Machine-checked proofs about node status on its way to the clients, for *)
(* any sets of nodes, fields, values and sessions.                         *)
(*                                                                         *)
(* The invariant is about one field at a time: what is pending or being    *)
(* broadcast is what the registry holds, whoever is being served or        *)
(* follows has subscribed before, and what a client will hold is what the  *)
(* last message in its inbox that has the field says of it.                *)
(***************************************************************************)
EXTENDS StatusSync, TLAPS

\* Merge, of one field.
Latest(old, new) == IF new = Absent THEN old ELSE new

\* The messages of an inbox that have the field, and the last of them.
Saying(s, n, f) == {i \in 1 .. Len(s) : Says(s[i], n)[f] # Absent}
HasLast(S) == S # {} => \E i \in S : \A j \in S : j <= i

Final(s, statuses, n, f) ==
    IF Saying(s, n, f) = {} THEN statuses[n][f] ELSE Says(s[Max(Saying(s, n, f))], n)[f]

LastInv == \A c \in Conns, n \in Nodes, f \in Fields : HasLast(Saying(inbox[c], n, f))

\* Where the render thread is in its broadcast.
RenderInv ==
    /\ render = "frame" => updates = Empty
    /\ render \in {"frame", "broadcast"} => current = NoNode
    /\ render = "sending" => current \in Nodes

\* Who asked for the snapshot, is being served or follows has subscribed.
SessionInv ==
    \A c \in Conns :
        /\ session[c] = "new" => c \notin following /\ serving # c
        /\ requests[c] # <<>> => session[c] = "open"
        /\ requests[c] # <<>> /\ Head(requests[c]) = "config" => c \in subscribers
        /\ serving = c => c \in subscribers
        /\ session[c] = "open" /\ c \in following => c \in subscribers

\* What is under way is what the registry holds, and what it lacks nobody has.
RegistryInv ==
    \A n \in alive, f \in Fields :
        /\ pending[n][f] # Absent => pending[n][f] = states[n][f]
        /\ pending[n][f] = Absent /\ updates[n][f] # Absent => updates[n][f] = states[n][f]
        /\ states[n][f] = Absent =>
            /\ snapshot[n][f] = Absent
            /\ \A c \in Conns : Final(inbox[c], store[c], n, f) = Absent

\* The snapshot being serialised, with what its client is still to be sent.
ServingInv ==
    serving \in Conns \ overtaken =>
        \A n \in alive, f \in Fields :
            Latest(Latest(snapshot[n][f], Unsent(n, serving)[f]), pending[n][f]) = states[n][f]

\* NothingIsLost, of one field.
FollowingInv ==
    \A c \in Conns \ overtaken : Synced(c) =>
        \A n \in alive, f \in Fields :
            Latest(Latest(Final(inbox[c], store[c], n, f), Unsent(n, c)[f]), pending[n][f])
                = states[n][f]

IInv ==
    /\ TypeOK
    /\ StatusOfTheLiving
    /\ LastInv
    /\ RenderInv
    /\ SessionInv
    /\ RegistryInv
    /\ ServingInv
    /\ FollowingInv

-----------------------------------------------------------------------------
(* What an inbox says *)

LEMMA MaxIs ==
    ASSUME NEW S \in SUBSET Nat, NEW i \in S, \A j \in S : j <= i
    PROVE  Max(S) = i
<1>1. Max(S) \in S /\ \A y \in S : Max(S) >= y
  <2>1. \A y \in S : i >= y
    OBVIOUS
  <2> QED BY <2>1 DEF Max
<1>2. Max(S) <= i /\ Max(S) >= i
  BY <1>1
<1>3. Max(S) \in Nat /\ i \in Nat
  BY <1>1
<1> HIDE DEF Max
<1> QED BY <1>2, <1>3

\* A message more.
LEMMA FinalOfAppend ==
    ASSUME NEW s \in Seq(Message), NEW m \in Message, NEW statuses, NEW n \in Nodes,
           NEW f \in Fields, HasLast(Saying(s, n, f))
    PROVE  /\ HasLast(Saying(Append(s, m), n, f))
           /\ Final(Append(s, m), statuses, n, f)
                = Latest(Final(s, statuses, n, f), Says(m, n)[f])
<1> DEFINE t == Append(s, m)
           S == Saying(s, n, f)
           T == Saying(t, n, f)
<1>1. /\ Len(s) \in Nat /\ Len(t) = Len(s) + 1 /\ t[Len(t)] = m
      /\ \A i \in 1 .. Len(s) : t[i] = s[i]
  OBVIOUS
<1>2. S \in SUBSET Nat /\ S \subseteq 1 .. Len(s) /\ T \in SUBSET Nat
  BY DEF Saying
<1> HIDE DEF t
<1>3. CASE Says(m, n)[f] # Absent
  <2>1. Len(t) \in T /\ \A j \in T : j <= Len(t)
    BY <1>1, <1>3 DEF Saying
  <2>2. Max(T) = Len(t) /\ HasLast(T) /\ T # {}
    BY <2>1, <1>2, MaxIs DEF HasLast
  <2> HIDE DEF T, S
  <2>3. Final(t, statuses, n, f) = Says(m, n)[f]
    BY <2>2, <1>1 DEF Final, T
  <2> QED BY <2>2, <2>3, <1>3 DEF Latest, t, T
<1>4. CASE Says(m, n)[f] = Absent
  <2>1. T = S
    BY <1>1, <1>4 DEF Saying
  <2> HIDE DEF T, S
  <2>2. CASE S = {}
    BY <2>1, <2>2, <1>4 DEF Final, Latest, HasLast, t, T, S
  <2>3. CASE S # {}
    <3>1. PICK i \in S : \A j \in S : j <= i
      BY <2>3 DEF HasLast, S
    <3>2. Max(S) = i /\ i \in 1 .. Len(s)
      BY <3>1, <1>2, MaxIs
    <3> QED BY <2>1, <2>3, <3>1, <3>2, <1>1, <1>4 DEF Final, Latest, HasLast, t, T, S
  <2> QED BY <2>2, <2>3
<1> QED BY <1>3, <1>4

\* Handling a message takes it field by field into the client's statuses.
LEMMA HandledFields ==
    ASSUME NEW statuses \in Statuses, NEW m \in Message
    PROVE  /\ Handled(statuses, m) \in Statuses
           /\ \A n \in Nodes, f \in Fields :
                Handled(statuses, m)[n][f] = Latest(statuses[n][f], Says(m, n)[f])
<1>1. CASE m.kind = "socket_info"
  BY <1>1 DEF Handled, Says, Latest, Nothing, Statuses, Status
<1>2. CASE m \in [kind : {"delta"}, node : Nodes, status : Status]
  <2>1. m.kind = "delta" /\ m.node \in Nodes /\ m.status \in Status
    BY <1>2
  <2>2. Handled(statuses, m) = [statuses EXCEPT ![m.node] = Merge(@, m.status)]
    BY <2>1 DEF Handled, UpdateNodeStatus
  <2>3. Merge(statuses[m.node], m.status) \in Status
    BY <2>1 DEF Merge, Status, Statuses
  <2>4. \A n \in Nodes : Says(m, n) = IF m.node = n THEN m.status ELSE Nothing
    BY <2>1 DEF Says
  <2>5. Handled(statuses, m) \in Statuses
    BY <2>1, <2>2, <2>3 DEF Statuses
  <2>6. ASSUME NEW n \in Nodes, NEW f \in Fields
        PROVE  Handled(statuses, m)[n][f] = Latest(statuses[n][f], Says(m, n)[f])
    <3>1. CASE m.node = n
      <4>1. Handled(statuses, m)[n] = Merge(statuses[n], m.status)
        BY <2>1, <2>2, <3>1 DEF Statuses
      <4> QED BY <4>1, <2>4, <3>1 DEF Merge, Latest
    <3>2. CASE m.node # n
      <4>1. Handled(statuses, m)[n] = statuses[n]
        BY <2>1, <2>2, <3>2 DEF Statuses
      <4> QED BY <4>1, <2>4, <3>2 DEF Nothing, Latest
    <3> QED BY <3>1, <3>2
  <2> QED BY <2>5, <2>6
<1>3. CASE m \in [kind : {"snapshot"}, statuses : Statuses]
  <2>1. m.kind = "snapshot" /\ m.statuses \in Statuses
    BY <1>3
  <2>2. Handled(statuses, m) = [n \in Nodes |-> UpdateNodeStatus(statuses, n, m.statuses[n])[n]]
    BY <2>1 DEF Handled
  <2>3. \A n \in Nodes : UpdateNodeStatus(statuses, n, m.statuses[n])[n]
                           = Merge(statuses[n], m.statuses[n])
    BY DEF UpdateNodeStatus, Statuses
  <2>4. \A n \in Nodes : Merge(statuses[n], m.statuses[n]) \in Status
    BY <2>1 DEF Merge, Status, Statuses
  <2>5. \A n \in Nodes : Says(m, n) = m.statuses[n]
    BY <2>1 DEF Says
  <2>6. Handled(statuses, m) \in Statuses
    BY <2>2, <2>3, <2>4 DEF Statuses
  <2>7. ASSUME NEW n \in Nodes, NEW f \in Fields
        PROVE  Handled(statuses, m)[n][f] = Latest(statuses[n][f], Says(m, n)[f])
    <3>1. Handled(statuses, m)[n] = Merge(statuses[n], m.statuses[n])
      BY <2>2, <2>3
    <3> QED BY <3>1, <2>5 DEF Merge, Latest
  <2> QED BY <2>6, <2>7
<1> QED BY <1>1, <1>2, <1>3 DEF Message

\* Handling the first message changes nothing of what the client will hold.
LEMMA FinalOfTail ==
    ASSUME NEW s \in Seq(Message), s # <<>>, NEW statuses \in Statuses, NEW n \in Nodes,
           NEW f \in Fields, HasLast(Saying(s, n, f))
    PROVE  /\ HasLast(Saying(Tail(s), n, f))
           /\ Final(Tail(s), Handled(statuses, Head(s)), n, f) = Final(s, statuses, n, f)
<1> DEFINE t == Tail(s)
           S == Saying(s, n, f)
           T == Saying(t, n, f)
<1>1. /\ Len(s) \in Nat \ {0} /\ Len(t) = Len(s) - 1 /\ Head(s) = s[1] /\ s[1] \in Message
      /\ \A i \in 1 .. Len(t) : t[i] = s[i + 1]
  OBVIOUS
<1>2. Handled(statuses, Head(s))[n][f] = Latest(statuses[n][f], Says(s[1], n)[f])
  BY <1>1, HandledFields
<1> HIDE DEF t
<1>3. /\ S \in SUBSET Nat /\ S \subseteq 1 .. Len(s) /\ T \in SUBSET Nat /\ T \subseteq 1 .. Len(t)
      /\ \A i \in T : i + 1 \in S
      /\ \A i \in S : i # 1 => i - 1 \in T
      /\ 1 \in S <=> Says(s[1], n)[f] # Absent
  BY <1>1 DEF Saying
<1>4. CASE T = {}
  <2>1. S = {} \/ S = {1}
    BY <1>3, <1>4
  <2>2. S = {1} => Max(S) = 1
    BY MaxIs
  <2> HIDE DEF S, T
  <2> QED BY <1>2, <1>3, <1>4, <2>1, <2>2 DEF Final, Latest, HasLast, t, S, T
<1>5. CASE T # {}
  <2>1. S # {}
    BY <1>3, <1>5
  <2>2. PICK i \in S : \A j \in S : j <= i
    BY <2>1 DEF HasLast
  <2>3. i # 1 /\ i - 1 \in T /\ i \in 1 .. Len(s)
    BY <1>3, <1>5, <2>2
  <2>4. \A j \in T : j <= i - 1
    BY <1>3, <2>2, <2>3
  <2>5. Max(S) = i /\ Max(T) = i - 1
    BY <1>3, <2>2, <2>3, <2>4, MaxIs
  <2>6. t[i - 1] = s[i]
    BY <1>1, <1>3, <2>3
  <2> HIDE DEF S, T
  <2> QED BY <1>5, <2>1, <2>3, <2>4, <2>5, <2>6 DEF Final, HasLast, t, S, T
<1> QED BY <1>4, <1>5 DEF t

-----------------------------------------------------------------------------
(* One step *)

LEMMA EmptyStatuses ==
    /\ Empty \in Statuses
    /\ \A n \in Nodes : Empty[n] = Nothing /\ \A f \in Fields : Empty[n][f] = Absent
    /\ \A f \in Fields : Nothing[f] = Absent
BY DEF Empty, Nothing, Statuses, Status

LEMMA MergeFields ==
    ASSUME NEW old \in Status, NEW new \in Status
    PROVE  Merge(old, new) \in Status /\ \A f \in Fields : Merge(old, new)[f] = Latest(old[f], new[f])
BY DEF Merge, Latest, Status

LEMMA InitInv == Init => IInv
<1> SUFFICES ASSUME Init PROVE IInv
  OBVIOUS
<1>1. TypeOK
  BY StatusConstants, EmptyStatuses DEF Init, TypeOK
<1>2. \A c \in Conns, n \in Nodes, f \in Fields :
        Saying(inbox[c], n, f) = {} /\ Final(inbox[c], store[c], n, f) = Absent
  BY EmptyStatuses DEF Init, Saying, Final
<1>3. LastInv
  BY <1>2 DEF LastInv, HasLast
<1>4. RegistryInv
  BY <1>2, EmptyStatuses DEF Init, RegistryInv
<1> QED
  BY <1>1, <1>3, <1>4, StatusConstants
     DEF Init, IInv, StatusOfTheLiving, RenderInv, SessionInv, ServingInv, FollowingInv, Synced

\* Steps that leave the registry, the broadcast and the inboxes alone.
LEMMA QuietStep ==
    ASSUME IInv, TypeOK', SessionInv',
           UNCHANGED <<registry, updates, current, iterating, client, overtaken>>,
           render' \in {render, "undefined"},
           \A n \in alive, f \in Fields : states[n][f] = Absent => snapshot'[n][f] = Absent,
           serving' = NoConn \/ UNCHANGED <<serving, snapshot>>,
           \A c \in Conns : session'[c] = "open" => session[c] = "open",
           UNCHANGED following
    PROVE  IInv'
<1>1. UNCHANGED <<alive, states, pending, updates, current, iterating, inbox, store, overtaken>>
  BY DEF registry, client
<1>2. StatusOfTheLiving' /\ LastInv'
  BY <1>1 DEF IInv, StatusOfTheLiving, LastInv
<1>3. RenderInv' /\ RegistryInv'
  BY <1>1 DEF IInv, RenderInv, RegistryInv
<1>4. ServingInv'
  BY <1>1, StatusConstants DEF IInv, ServingInv, Unsent
<1>5. FollowingInv'
  BY <1>1 DEF IInv, FollowingInv, Synced, Unsent
<1> QED BY <1>2, <1>3, <1>4, <1>5 DEF IInv

\* The render thread writes to the registry.
LEMMA WriteKeepsInv ==
    ASSUME IInv, NEW n \in Nodes, NEW status \in Status, Write(n, status)
    PROVE  IInv'
<1> DEFINE changed == [f \in Fields |-> IF status[f] = states[n][f] THEN Absent ELSE status[f]]
<1>1. /\ render = "frame" /\ n \in alive
      /\ states' = [states EXCEPT ![n] = Merge(@, changed)]
      /\ pending' = [pending EXCEPT ![n] = Merge(@, changed)]
      /\ UNCHANGED <<alive, updates, current, iterating, render, session, subscribers, requests,
                     serving, snapshot, inbox, store, following, overtaken>>
  BY DEF Write, Accumulate, broadcast, server, client, history
<1>2. changed \in Status /\ states[n] \in Status /\ pending[n] \in Status
  BY DEF IInv, TypeOK, Status, Statuses
<1> HIDE DEF changed
<1>3. /\ states'[n] = Merge(states[n], changed) /\ pending'[n] = Merge(pending[n], changed)
      /\ \A m \in Nodes : m # n => states'[m] = states[m] /\ pending'[m] = pending[m]
      /\ states' \in Statuses /\ pending' \in Statuses
  BY <1>1, <1>2, MergeFields DEF IInv, TypeOK, Statuses
<1>4. \A f \in Fields :
        /\ states'[n][f] = Latest(states[n][f], changed[f])
        /\ pending'[n][f] = Latest(pending[n][f], changed[f])
  BY <1>2, <1>3, MergeFields
<1>5. TypeOK'
  BY <1>1, <1>3 DEF IInv, TypeOK
<1>6. StatusOfTheLiving'
  BY <1>1, <1>3 DEF IInv, StatusOfTheLiving
<1>7. LastInv' /\ RenderInv' /\ SessionInv'
  BY <1>1 DEF IInv, LastInv, RenderInv, SessionInv
<1>8. alive \subseteq Nodes
  BY DEF IInv, TypeOK
<1>9. RegistryInv'
  <2> SUFFICES ASSUME NEW m \in alive, NEW f \in Fields
               PROVE  /\ pending'[m][f] # Absent => pending'[m][f] = states'[m][f]
                      /\ pending'[m][f] = Absent /\ updates[m][f] # Absent
                            => updates[m][f] = states'[m][f]
                      /\ states'[m][f] = Absent =>
                           /\ snapshot[m][f] = Absent
                           /\ \A c \in Conns : Final(inbox[c], store[c], m, f) = Absent
    BY <1>1 DEF RegistryInv
  <2>1. CASE m = n
    BY <2>1, <1>4 DEF IInv, RegistryInv, Latest
  <2>2. CASE m # n
    BY <2>2, <1>3, <1>8 DEF IInv, RegistryInv
  <2> QED BY <2>1, <2>2
<1>10. ASSUME NEW m \in alive, NEW f \in Fields, NEW x,
              Latest(x, pending[m][f]) = states[m][f]
       PROVE  Latest(x, pending'[m][f]) = states'[m][f]
  <2>1. CASE m = n
    BY <2>1, <1>4, <1>10 DEF Latest
  <2>2. CASE m # n
    BY <2>2, <1>3, <1>8, <1>10
  <2> QED BY <2>1, <2>2
<1>11. ServingInv'
  BY <1>1, <1>10 DEF IInv, ServingInv, Unsent
<1>12. FollowingInv'
  BY <1>1, <1>10 DEF IInv, FollowingInv, Unsent, Synced
<1> QED BY <1>5, <1>6, <1>7, <1>9, <1>11, <1>12 DEF IInv

\* The registry loses a node.
LEMMA RemoveKeepsInv ==
    ASSUME IInv, NEW n \in Nodes, RemoveNode(n)
    PROVE  IInv'
<1>1. /\ alive' = alive \ {n}
      /\ states' = [states EXCEPT ![n] = Nothing] /\ pending' = [pending EXCEPT ![n] = Nothing]
      /\ UNCHANGED <<updates, current, iterating, render, session, subscribers, requests,
                     serving, snapshot, inbox, store, following, overtaken>>
  BY DEF RemoveNode, broadcast, server, client, history
<1>2. /\ \A m \in alive' : m \in alive /\ states'[m] = states[m] /\ pending'[m] = pending[m]
      /\ states'[n] = Nothing /\ pending'[n] = Nothing
      /\ \A m \in Nodes : m # n => states'[m] = states[m] /\ pending'[m] = pending[m]
      /\ states' \in Statuses /\ pending' \in Statuses
  BY <1>1, EmptyStatuses DEF IInv, TypeOK, Statuses, Status, Nothing
<1>3. TypeOK'
  BY <1>1, <1>2 DEF IInv, TypeOK
<1>4. StatusOfTheLiving'
  BY <1>1, <1>2 DEF IInv, StatusOfTheLiving
<1>5. LastInv' /\ RenderInv' /\ SessionInv'
  BY <1>1 DEF IInv, LastInv, RenderInv, SessionInv
<1>6. RegistryInv'
  BY <1>1, <1>2 DEF IInv, RegistryInv
<1>7. ServingInv' /\ FollowingInv'
  BY <1>1, <1>2 DEF IInv, ServingInv, FollowingInv, Unsent, Synced
<1> QED BY <1>3, <1>4, <1>5, <1>6, <1>7 DEF IInv

\* A frame ends: what is pending is what has yet to be broadcast.
LEMMA FlushKeepsInv == IInv /\ Flush => IInv'
<1> SUFFICES ASSUME IInv, Flush PROVE IInv'
  OBVIOUS
<1>1. /\ render = "frame" /\ render' = "broadcast" /\ updates = Empty /\ current = NoNode
      /\ updates' = pending /\ pending' = Empty
      /\ UNCHANGED <<alive, states, current, iterating, session, subscribers, requests,
                     serving, snapshot, inbox, store, following, overtaken>>
  BY DEF Flush, server, client, history, IInv, RenderInv
<1>2. TypeOK' /\ alive \subseteq Nodes
  BY <1>1, EmptyStatuses DEF IInv, TypeOK
<1>3. StatusOfTheLiving'
  BY <1>1, EmptyStatuses DEF IInv, StatusOfTheLiving
<1>4. LastInv' /\ RenderInv' /\ SessionInv'
  BY <1>1 DEF IInv, LastInv, RenderInv, SessionInv
<1>5. RegistryInv'
  BY <1>1, <1>2, EmptyStatuses DEF IInv, RegistryInv
<1>6. ASSUME NEW m \in alive, NEW f \in Fields, NEW x, NEW c \in Conns,
             Latest(Latest(x, Unsent(m, c)[f]), pending[m][f]) = states[m][f]
      PROVE  Latest(Latest(x, Unsent(m, c)'[f]), pending'[m][f]) = states'[m][f]
  BY <1>1, <1>2, <1>6, EmptyStatuses, StatusConstants DEF Latest, Unsent
<1>7. ServingInv'
  BY <1>1, <1>6 DEF IInv, ServingInv
<1>8. FollowingInv'
  BY <1>1, <1>6 DEF IInv, FollowingInv, Synced
<1> QED BY <1>2, <1>3, <1>4, <1>5, <1>7, <1>8 DEF IInv

\* The broadcast begins an update, for everybody who has to get it.
LEMMA StartKeepsInv ==
    ASSUME IInv, NEW n \in Nodes, StartBroadcast(n)
    PROVE  IInv'
<1>1. /\ render = "broadcast" /\ render' = "sending" /\ current = NoNode
      /\ current' = n /\ iterating' = subscribers
      /\ UNCHANGED <<alive, states, pending, updates, session, subscribers, requests,
                     serving, snapshot, inbox, store, following, overtaken>>
  BY DEF StartBroadcast, registry, server, client, history, IInv, RenderInv
<1>2. TypeOK'
  BY <1>1 DEF IInv, TypeOK
<1>3. StatusOfTheLiving' /\ LastInv' /\ RenderInv' /\ SessionInv' /\ RegistryInv'
  BY <1>1 DEF IInv, StatusOfTheLiving, LastInv, RenderInv, SessionInv, RegistryInv
<1>4. \A m \in alive, c \in subscribers : Unsent(m, c) = updates[m] /\ Unsent(m, c)' = updates[m]
  BY <1>1, StatusConstants DEF IInv, TypeOK, Unsent
<1>5. ServingInv'
  BY <1>1, <1>4 DEF IInv, ServingInv, SessionInv
<1>6. FollowingInv'
  BY <1>1, <1>4 DEF IInv, FollowingInv, SessionInv, Synced
<1> QED BY <1>2, <1>3, <1>5, <1>6 DEF IInv

\* The broadcast ends an update: nobody lacks it.
LEMMA EndKeepsInv == IInv /\ EndBroadcast => IInv'
<1> SUFFICES ASSUME IInv, EndBroadcast PROVE IInv'
  OBVIOUS
<1>1. /\ render = "sending" /\ render' = "broadcast" /\ iterating = {}
      /\ current \in Nodes /\ current' = NoNode
      /\ updates' = [updates EXCEPT ![current] = Nothing]
      /\ UNCHANGED <<alive, states, pending, iterating, session, subscribers, requests,
                     serving, snapshot, inbox, store, following, overtaken>>
  BY DEF EndBroadcast, registry, server, client, history, IInv, RenderInv
<1>2. /\ updates' \in Statuses /\ updates'[current] = Nothing
      /\ \A m \in Nodes : m # current => updates'[m] = updates[m]
      /\ alive \subseteq Nodes
  BY <1>1 DEF IInv, TypeOK, Statuses, Status, Nothing
<1>3. TypeOK'
  BY <1>1, <1>2 DEF IInv, TypeOK
<1>4. StatusOfTheLiving' /\ LastInv' /\ RenderInv' /\ SessionInv'
  BY <1>1 DEF IInv, StatusOfTheLiving, LastInv, RenderInv, SessionInv
<1>5. RegistryInv'
  <2>1. \A m \in alive, f \in Fields : updates'[m][f] # Absent => updates'[m][f] = updates[m][f]
    BY <1>2, EmptyStatuses
  <2> QED BY <1>1, <2>1 DEF IInv, RegistryInv
<1>6. \A m \in alive, c \in Conns : Unsent(m, c)' = Unsent(m, c)
  BY <1>1, <1>2, StatusConstants DEF Unsent
<1>7. ServingInv'
  BY <1>1, <1>6 DEF IInv, ServingInv
<1>8. FollowingInv'
  BY <1>1, <1>6 DEF IInv, FollowingInv, Synced
<1> QED BY <1>3, <1>4, <1>5, <1>7, <1>8 DEF IInv

LEMMA NextFrameKeepsInv == IInv /\ NextFrame => IInv'
<1> SUFFICES ASSUME IInv, NextFrame PROVE IInv'
  OBVIOUS
<1>1. /\ render = "broadcast" /\ render' = "frame" /\ updates = Empty
      /\ UNCHANGED <<alive, states, pending, updates, current, iterating, session, subscribers,
                     requests, serving, snapshot, inbox, store, following, overtaken>>
  BY DEF NextFrame, registry, server, client, history
<1> QED
  BY <1>1 DEF IInv, TypeOK, StatusOfTheLiving, LastInv, RenderInv, SessionInv, RegistryInv,
              ServingInv, FollowingInv, Unsent, Synced

\* A message goes into the inbox of a connection, or is lost with it.
LEMMA Delivery ==
    ASSUME IInv, NEW c \in Conns, NEW m \in Message,
           inbox' = IF session[c] # "open" THEN inbox ELSE [inbox EXCEPT ![c] = Append(@, m)],
           store' = store
    PROVE  /\ LastInv'
           /\ \A d \in Conns : inbox'[d] \in Seq(Message)
           /\ \A d \in Conns, n \in Nodes, f \in Fields :
                d # c => Final(inbox'[d], store'[d], n, f) = Final(inbox[d], store[d], n, f)
           /\ \A n \in Nodes, f \in Fields :
                Final(inbox'[c], store'[c], n, f)
                    = IF session[c] # "open" THEN Final(inbox[c], store[c], n, f)
                      ELSE Latest(Final(inbox[c], store[c], n, f), Says(m, n)[f])
<1>1. inbox \in [Conns -> Seq(Message)]
  BY DEF IInv, TypeOK
<1>2. \A n \in Nodes, f \in Fields : HasLast(Saying(inbox[c], n, f))
  BY DEF IInv, LastInv
<1>3. CASE session[c] # "open"
  BY <1>1, <1>3 DEF IInv, LastInv
<1>4. CASE session[c] = "open"
  <2>1. /\ inbox'[c] = Append(inbox[c], m) /\ inbox[c] \in Seq(Message)
        /\ \A d \in Conns : d # c => inbox'[d] = inbox[d]
    BY <1>1, <1>4
  <2>2. \A n \in Nodes, f \in Fields :
            /\ HasLast(Saying(inbox'[c], n, f))
            /\ Final(inbox'[c], store'[c], n, f)
                 = Latest(Final(inbox[c], store[c], n, f), Says(m, n)[f])
    BY <1>2, <2>1, FinalOfAppend
  <2> QED BY <1>1, <1>4, <2>1, <2>2 DEF IInv, LastInv
<1> QED BY <1>3, <1>4

\* One send of the broadcast.
LEMMA SendKeepsInv ==
    ASSUME IInv, NEW c \in Conns, Send(c)
    PROVE  IInv'
<1> DEFINE m == [kind |-> "delta", node |-> current, status |-> updates[current]]
<1>1. /\ render = "sending" /\ current \in Nodes /\ c \in iterating /\ iterating' = iterating \ {c}
      /\ inbox' = IF session[c] # "open" THEN inbox ELSE [inbox EXCEPT ![c] = Append(@, m)]
      /\ overtaken' = IF serving = c THEN overtaken \cup {c} ELSE overtaken
      /\ UNCHANGED <<alive, states, pending, updates, current, render, session, subscribers,
                     requests, serving, snapshot, store, following>>
  BY DEF Send, registry, server, IInv, RenderInv
<1>2. m \in Message /\ \A n \in Nodes : Says(m, n) = IF n = current THEN updates[n] ELSE Nothing
  BY <1>1 DEF IInv, TypeOK, Statuses, Message, Says
<1> HIDE DEF m
<1>3. /\ LastInv'
      /\ \A d \in Conns : inbox'[d] \in Seq(Message)
      /\ \A d \in Conns, n \in Nodes, f \in Fields :
           d # c => Final(inbox'[d], store'[d], n, f) = Final(inbox[d], store[d], n, f)
      /\ \A n \in Nodes, f \in Fields :
           Final(inbox'[c], store'[c], n, f)
               = IF session[c] # "open" THEN Final(inbox[c], store[c], n, f)
                 ELSE Latest(Final(inbox[c], store[c], n, f), Says(m, n)[f])
  BY <1>1, <1>2, Delivery
<1>4. TypeOK'
  <2>1. inbox' \in [Conns -> Seq(Message)]
    BY <1>1, <1>3 DEF IInv, TypeOK
  <2>2. overtaken' \in SUBSET Conns /\ iterating' \in SUBSET Conns
    BY <1>1 DEF IInv, TypeOK
  <2> QED BY <1>1, <2>1, <2>2 DEF IInv, TypeOK
<1>5. StatusOfTheLiving' /\ RenderInv' /\ SessionInv'
  BY <1>1 DEF IInv, StatusOfTheLiving, RenderInv, SessionInv
<1>6. alive \subseteq Nodes
  BY DEF IInv, TypeOK
<1>7. RegistryInv'
  <2>1. \A n \in alive, f \in Fields : states[n][f] = Absent => Says(m, n)[f] = Absent
    BY <1>2, <1>6, EmptyStatuses DEF IInv, RegistryInv
  <2>2. \A n \in alive, f \in Fields, d \in Conns :
            states[n][f] = Absent => Final(inbox'[d], store'[d], n, f) = Absent
    BY <1>3, <1>6, <2>1 DEF IInv, RegistryInv, Latest
  <2> QED BY <1>1, <2>2 DEF IInv, RegistryInv
<1>8. \A n \in alive, d \in Conns : d # c => Unsent(n, d)' = Unsent(n, d)
  BY <1>1 DEF Unsent
<1>9. ServingInv'
  BY <1>1, <1>8 DEF IInv, ServingInv
<1>10. FollowingInv'
  <2> SUFFICES ASSUME NEW d \in Conns \ overtaken', Synced(d)', NEW n \in alive, NEW f \in Fields
               PROVE  Latest(Latest(Final(inbox'[d], store'[d], n, f), Unsent(n, d)'[f]), pending[n][f])
                        = states[n][f]
    BY <1>1 DEF FollowingInv
  <2>1. /\ d \in Conns \ overtaken /\ Synced(d)
        /\ Latest(Latest(Final(inbox[d], store[d], n, f), Unsent(n, d)[f]), pending[n][f]) = states[n][f]
    BY <1>1 DEF IInv, FollowingInv, Synced
  <2>2. CASE d # c
    BY <1>3, <1>6, <1>8, <2>1, <2>2
  <2>3. CASE d = c
    <3>1. session[c] = "open"
      BY <2>1, <2>3 DEF Synced
    <3>2. Final(inbox'[c], store'[c], n, f) = Latest(Final(inbox[c], store[c], n, f), Says(m, n)[f])
      BY <1>3, <1>6, <3>1
    <3>3. Unsent(n, c) = updates[n] /\ Unsent(n, c)' = IF n = current THEN Nothing ELSE updates[n]
      BY <1>1 DEF Unsent
    <3>4. Latest(Latest(Final(inbox[c], store[c], n, f), Says(m, n)[f]), Unsent(n, c)'[f])
            = Latest(Final(inbox[c], store[c], n, f), updates[n][f])
      BY <1>2, <1>6, <3>3, EmptyStatuses DEF Latest
    <3> QED BY <2>1, <2>3, <3>2, <3>3, <3>4
  <2> QED BY <2>2, <2>3
<1> QED BY <1>3, <1>4, <1>5, <1>7, <1>9, <1>10 DEF IInv

\* A connection opens.
LEMMA OpenKeepsInv ==
    ASSUME IInv, NEW c \in Conns, OnOpen(c)
    PROVE  IInv'
<1> DEFINE m == [kind |-> "socket_info"]
<1>1. /\ session[c] = "new" /\ session' = [session EXCEPT ![c] = "open"]
      /\ inbox' = [inbox EXCEPT ![c] = Append(@, m)]
      /\ UNCHANGED <<alive, states, pending, updates, current, iterating, render, subscribers,
                     requests, serving, snapshot, store, following, overtaken, writes>>
  BY DEF OnOpen, registry, broadcast, history
<1>2. m \in Message /\ \A n \in Nodes : Says(m, n) = Nothing
  BY DEF Message, Says
<1> HIDE DEF m
<1>3. inbox \in [Conns -> Seq(Message)] /\ alive \subseteq Nodes
  BY DEF IInv, TypeOK
<1>4. /\ inbox'[c] = Append(inbox[c], m) /\ inbox[c] \in Seq(Message)
      /\ \A d \in Conns : d # c => inbox'[d] = inbox[d]
  BY <1>1, <1>3
<1>5. \A n \in Nodes, f \in Fields :
        /\ HasLast(Saying(inbox'[c], n, f))
        /\ Final(inbox'[c], store[c], n, f) = Latest(Final(inbox[c], store[c], n, f), Says(m, n)[f])
  BY <1>2, <1>4, FinalOfAppend DEF IInv, LastInv
<1>6. \A d \in Conns, n \in Nodes, f \in Fields :
        Final(inbox'[d], store[d], n, f) = Final(inbox[d], store[d], n, f)
  BY <1>2, <1>4, <1>5, EmptyStatuses, ZenonT(60) DEF Latest
<1>7. TypeOK'
  <2>1. inbox' \in [Conns -> Seq(Message)]
    BY <1>1, <1>2, <1>3
  <2>2. session' \in [Conns -> {"new", "open", "lost", "closed"}]
        /\ subscribers \in SUBSET {d \in Conns : session'[d] \in {"open", "lost"}}
    BY <1>1 DEF IInv, TypeOK
  <2> QED BY <1>1, <2>1, <2>2 DEF IInv, TypeOK
<1>8. LastInv'
  BY <1>4, <1>5 DEF IInv, LastInv
<1>9. SessionInv'
  BY <1>1 DEF IInv, TypeOK, SessionInv
<1>10. RegistryInv'
  BY <1>1, <1>3, <1>6 DEF IInv, RegistryInv
<1>11. ServingInv'
  BY <1>1 DEF IInv, ServingInv, Unsent
<1>12. FollowingInv'
  <2>1. \A d \in Conns : Synced(d)' => Synced(d)
    BY <1>1 DEF IInv, SessionInv, TypeOK, Synced
  <2> QED BY <1>1, <1>3, <1>6, <2>1 DEF IInv, FollowingInv, Unsent
<1> QED BY <1>1, <1>7, <1>8, <1>9, <1>10, <1>11, <1>12 DEF IInv, StatusOfTheLiving, RenderInv

\* The configuration thread's handlers that neither write nor send.
LEMMA SubscribeKeepsInv ==
    ASSUME IInv, NEW c \in Conns, OnSubscribe(c)
    PROVE  IInv'
<1>1. /\ session[c] = "open" /\ requests[c] # <<>> /\ serving = NoConn
      /\ requests' = [requests EXCEPT ![c] = Tail(@)] /\ subscribers' = subscribers \cup {c}
      /\ render' \in {render, "undefined"}
      /\ UNCHANGED <<registry, updates, current, iterating, session, serving, snapshot, client,
                     following, overtaken>>
  BY DEF OnSubscribe, Handling, Disturb, history
<1>2. TypeOK'
  BY <1>1 DEF IInv, TypeOK, registry, client
<1>3. SessionInv'
  BY <1>1 DEF IInv, SessionInv, TypeOK
<1>4. \A n \in alive, f \in Fields : states[n][f] = Absent => snapshot'[n][f] = Absent
  BY <1>1 DEF IInv, RegistryInv
<1> QED BY <1>1, <1>2, <1>3, <1>4, QuietStep

LEMMA CloseKeepsInv ==
    ASSUME IInv, NEW c \in Conns, OnClose(c)
    PROVE  IInv'
<1>1. /\ session[c] = "lost" /\ session' = [session EXCEPT ![c] = "closed"] /\ serving = NoConn
      /\ subscribers' = subscribers \ {c}
      /\ render' \in {render, "undefined"}
      /\ UNCHANGED <<registry, updates, current, iterating, requests, serving, snapshot, client,
                     following, overtaken>>
  BY DEF OnClose, Handling, Disturb, history
<1>2. TypeOK'
  BY <1>1 DEF IInv, TypeOK, registry, client
<1>3. SessionInv'
  BY <1>1, StatusConstants DEF IInv, SessionInv, TypeOK
<1>4. \A n \in alive, f \in Fields : states[n][f] = Absent => snapshot'[n][f] = Absent
  BY <1>1 DEF IInv, RegistryInv
<1>5. \A d \in Conns : session'[d] = "open" => session[d] = "open"
  BY <1>1 DEF IInv, TypeOK
<1> QED BY <1>1, <1>2, <1>3, <1>4, <1>5, QuietStep

LEMMA LoseKeepsInv ==
    ASSUME IInv, NEW c \in Conns, Lose(c)
    PROVE  IInv'
<1>1. /\ session[c] = "open" /\ session' = [session EXCEPT ![c] = "lost"]
      /\ requests' = [requests EXCEPT ![c] = <<>>]
      /\ inbox' = [inbox EXCEPT ![c] = <<>>] /\ store' = [store EXCEPT ![c] = Empty]
      /\ UNCHANGED <<alive, states, pending, updates, current, iterating, render, subscribers,
                     serving, snapshot, following, overtaken>>
  BY DEF Lose, registry, broadcast, history
<1>2. /\ inbox' \in [Conns -> Seq(Message)] /\ inbox'[c] = <<>>
      /\ store' \in [Conns -> Statuses] /\ store'[c] = Empty
      /\ \A d \in Conns : d # c => inbox'[d] = inbox[d] /\ store'[d] = store[d]
  BY <1>1, EmptyStatuses DEF IInv, TypeOK
<1>3. \A n \in Nodes, f \in Fields :
        Saying(inbox'[c], n, f) = {} /\ Final(inbox'[c], store'[c], n, f) = Absent
  BY <1>2, EmptyStatuses DEF Saying, Final
<1>4. TypeOK'
  <2>1. requests' \in [Conns -> Seq({"subscribe", "config"})]
    BY <1>1 DEF IInv, TypeOK
  <2>2. session' \in [Conns -> {"new", "open", "lost", "closed"}]
        /\ subscribers \in SUBSET {d \in Conns : session'[d] \in {"open", "lost"}}
    BY <1>1 DEF IInv, TypeOK
  <2> QED BY <1>1, <1>2, <2>1, <2>2 DEF IInv, TypeOK, Lose, registry
<1>5. LastInv'
  BY <1>2, <1>3 DEF IInv, LastInv, HasLast
<1>6. SessionInv'
  BY <1>1 DEF IInv, SessionInv, TypeOK
<1>7. RegistryInv'
  <2>1. \A n \in alive, f \in Fields, d \in Conns :
          states[n][f] = Absent => Final(inbox'[d], store'[d], n, f) = Absent
    BY <1>2, <1>3, SMTT(30) DEF IInv, RegistryInv, TypeOK
  <2> QED BY <1>1, <2>1 DEF IInv, RegistryInv
<1>8. ServingInv'
  BY <1>1 DEF IInv, ServingInv, Unsent
<1>9. FollowingInv'
  <2>1. \A d \in Conns : Synced(d)' => Synced(d) /\ d # c
    BY <1>1 DEF IInv, TypeOK, Synced
  <2> QED BY <1>1, <1>2, <2>1 DEF IInv, FollowingInv, Unsent
<1> QED BY <1>1, <1>4, <1>5, <1>6, <1>7, <1>8, <1>9 DEF IInv, StatusOfTheLiving, RenderInv

\* The snapshot is taken: what it lacks of the registry is nothing yet.
LEMMA TakeKeepsInv ==
    ASSUME IInv, NEW c \in Conns, TakeSnapshot(c)
    PROVE  IInv'
<1>1. /\ session[c] = "open" /\ requests[c] # <<>> /\ Head(requests[c]) = "config"
      /\ requests' = [requests EXCEPT ![c] = Tail(@)]
      /\ serving' = c /\ snapshot' = states
      /\ UNCHANGED <<alive, states, pending, updates, current, iterating, render, session,
                     subscribers, inbox, store, following, overtaken>>
  BY DEF TakeSnapshot, registry, broadcast, client, history
<1>2. TypeOK'
  <2>1. requests' \in [Conns -> Seq({"subscribe", "config"})]
    BY <1>1 DEF IInv, TypeOK
  <2> QED BY <1>1, <2>1 DEF IInv, TypeOK, TakeSnapshot, registry
<1>3. SessionInv'
  BY <1>1 DEF IInv, SessionInv, TypeOK
<1>4. RegistryInv'
  BY <1>1 DEF IInv, RegistryInv
<1>5. ServingInv'
  <2>1. \A n \in alive, f \in Fields : Unsent(n, c)[f] # Absent => Unsent(n, c)[f] = updates[n][f]
    BY EmptyStatuses DEF Unsent
  <2>2. \A n \in alive, f \in Fields :
          Latest(Latest(states[n][f], Unsent(n, c)[f]), pending[n][f]) = states[n][f]
    BY <2>1 DEF IInv, RegistryInv, Latest
  <2> QED BY <1>1, <2>2 DEF ServingInv, Unsent
<1>6. FollowingInv'
  BY <1>1 DEF IInv, FollowingInv, Synced, Unsent
<1> QED BY <1>1, <1>2, <1>3, <1>4, <1>5, <1>6 DEF IInv, StatusOfTheLiving, LastInv, RenderInv

\* The snapshot is sent: from now on the client follows.
LEMMA SendSnapshotKeepsInv == IInv /\ SendSnapshot => IInv'
<1> SUFFICES ASSUME IInv, SendSnapshot PROVE IInv'
  OBVIOUS
<1> DEFINE c == serving
           m == [kind |-> "snapshot", statuses |-> snapshot]
<1>1. /\ c \in Conns
      /\ inbox' = IF session[c] # "open" THEN inbox ELSE [inbox EXCEPT ![c] = Append(@, m)]
      /\ following' = following \cup {c} /\ serving' = NoConn /\ snapshot' = Empty
      /\ UNCHANGED <<alive, states, pending, updates, current, iterating, render, session,
                     subscribers, requests, store, overtaken>>
  BY DEF SendSnapshot, registry, broadcast, IInv, TypeOK
<1>2. m \in Message /\ \A n \in Nodes : Says(m, n) = snapshot[n]
  BY DEF IInv, TypeOK, Message, Says
<1> HIDE DEF m
<1>3. /\ LastInv'
      /\ \A d \in Conns : inbox'[d] \in Seq(Message)
      /\ \A d \in Conns, n \in Nodes, f \in Fields :
           d # c => Final(inbox'[d], store'[d], n, f) = Final(inbox[d], store[d], n, f)
      /\ \A n \in Nodes, f \in Fields :
           Final(inbox'[c], store'[c], n, f)
               = IF session[c] # "open" THEN Final(inbox[c], store[c], n, f)
                 ELSE Latest(Final(inbox[c], store[c], n, f), Says(m, n)[f])
  BY <1>1, <1>2, Delivery
<1>4. alive \subseteq Nodes
  BY DEF IInv, TypeOK
<1>5. TypeOK'
  <2>1. inbox' \in [Conns -> Seq(Message)]
    BY <1>1, <1>3 DEF IInv, TypeOK
  <2>2. following' \in SUBSET Conns /\ snapshot' \in Statuses /\ serving' \in Conns \cup {NoConn}
    BY <1>1, EmptyStatuses DEF IInv, TypeOK
  <2> QED BY <1>1, <2>1, <2>2 DEF IInv, TypeOK, SendSnapshot, registry
<1>6. SessionInv'
  BY <1>1, StatusConstants DEF IInv, SessionInv
<1>7. RegistryInv'
  <2>1. \A n \in alive, f \in Fields, d \in Conns :
            states[n][f] = Absent => Final(inbox'[d], store'[d], n, f) = Absent
    BY <1>2, <1>3, <1>4 DEF IInv, RegistryInv, Latest
  <2> QED BY <1>1, <1>4, <2>1, EmptyStatuses DEF IInv, RegistryInv
<1>8. ServingInv'
  BY <1>1, StatusConstants DEF ServingInv
<1>9. FollowingInv'
  <2> SUFFICES ASSUME NEW d \in Conns \ overtaken, Synced(d)', NEW n \in alive, NEW f \in Fields
               PROVE  Latest(Latest(Final(inbox'[d], store'[d], n, f), Unsent(n, d)[f]), pending[n][f])
                        = states[n][f]
    BY <1>1 DEF FollowingInv, Unsent
  <2>1. CASE d # c
    BY <1>1, <1>3, <1>4, <2>1 DEF IInv, FollowingInv, Synced
  <2>2. CASE d = c
    <3>1. Final(inbox'[c], store'[c], n, f) = Latest(Final(inbox[c], store[c], n, f), snapshot[n][f])
      BY <1>1, <1>2, <1>3, <1>4, <2>2 DEF Synced
    <3>2. Latest(Latest(snapshot[n][f], Unsent(n, c)[f]), pending[n][f]) = states[n][f]
      BY <2>2 DEF IInv, ServingInv
    <3>3. states[n][f] = Absent => Final(inbox[c], store[c], n, f) = Absent
      BY <1>1 DEF IInv, RegistryInv
    <3> HIDE DEF c
    <3> QED BY <2>2, <3>1, <3>2, <3>3 DEF Latest
  <2> QED BY <2>1, <2>2
<1> QED BY <1>1, <1>3, <1>5, <1>6, <1>7, <1>8, <1>9 DEF IInv, StatusOfTheLiving, RenderInv

\* The client handles a message: it holds what it was expected to.
LEMMA HandleKeepsInv ==
    ASSUME IInv, NEW c \in Conns, HandleMessage(c)
    PROVE  IInv'
<1>1. /\ session[c] = "open" /\ inbox[c] # <<>>
      /\ inbox' = [inbox EXCEPT ![c] = Tail(@)]
      /\ store' = [store EXCEPT ![c] = Handled(@, Head(inbox[c]))]
      /\ requests' \in {requests, [requests EXCEPT ![c] = Hello]}
      /\ UNCHANGED <<alive, states, pending, updates, current, iterating, render, session,
                     subscribers, serving, snapshot, following, overtaken>>
  BY DEF HandleMessage, registry, broadcast, history
<1>2. /\ inbox[c] \in Seq(Message) /\ Head(inbox[c]) \in Message /\ store[c] \in Statuses
      /\ Tail(inbox[c]) \in Seq(Message)
  BY <1>1 DEF IInv, TypeOK
<1>3. /\ inbox' \in [Conns -> Seq(Message)] /\ inbox'[c] = Tail(inbox[c])
      /\ store' \in [Conns -> Statuses] /\ store'[c] = Handled(store[c], Head(inbox[c]))
      /\ \A d \in Conns : d # c => inbox'[d] = inbox[d] /\ store'[d] = store[d]
  BY <1>1, <1>2, HandledFields DEF IInv, TypeOK
<1>4. \A n \in Nodes, f \in Fields :
        /\ HasLast(Saying(inbox'[c], n, f))
        /\ Final(inbox'[c], store'[c], n, f) = Final(inbox[c], store[c], n, f)
  BY <1>1, <1>2, <1>3, FinalOfTail DEF IInv, LastInv
<1>5. \A d \in Conns, n \in Nodes, f \in Fields :
        Final(inbox'[d], store'[d], n, f) = Final(inbox[d], store[d], n, f)
  BY <1>3, <1>4
<1>6. Hello \in Seq({"subscribe", "config"}) /\ Head(Hello) # "config" /\ Hello # <<>>
  BY DEF Hello
<1>7. TypeOK'
  <2>1. requests' \in [Conns -> Seq({"subscribe", "config"})]
    BY <1>1, <1>6 DEF IInv, TypeOK
  <2> QED BY <1>1, <1>3, <2>1 DEF IInv, TypeOK, HandleMessage, registry
<1>8. LastInv'
  BY <1>3, <1>4 DEF IInv, LastInv
<1>9. SessionInv'
  BY <1>1, <1>6 DEF IInv, SessionInv, TypeOK
<1>10. alive \subseteq Nodes
  BY DEF IInv, TypeOK
<1>11. RegistryInv'
  BY <1>1, <1>5, <1>10 DEF IInv, RegistryInv
<1>12. ServingInv'
  BY <1>1 DEF IInv, ServingInv, Unsent
<1>13. FollowingInv'
  BY <1>1, <1>5, <1>10 DEF IInv, FollowingInv, Synced, Unsent
<1> QED BY <1>1, <1>7, <1>8, <1>9, <1>11, <1>12, <1>13 DEF IInv, StatusOfTheLiving, RenderInv

LEMMA NextInv == IInv /\ [Next]_vars => IInv'
<1> SUFFICES ASSUME IInv, [Next]_vars PROVE IInv'
  OBVIOUS
<1>1. CASE Render
  BY <1>1, FlushKeepsInv, EndKeepsInv, NextFrameKeepsInv, StartKeepsInv, SendKeepsInv DEF Render
<1>2. CASE Config
  BY <1>2, SendSnapshotKeepsInv, SubscribeKeepsInv, TakeKeepsInv, CloseKeepsInv DEF Config
<1>3. CASE \E n \in Nodes : RemoveNode(n) \/ \E status \in Status : Write(n, status)
  BY <1>3, RemoveKeepsInv, WriteKeepsInv
<1>4. CASE \E c \in Conns : OnOpen(c) \/ HandleMessage(c) \/ Lose(c)
  BY <1>4, OpenKeepsInv, HandleKeepsInv, LoseKeepsInv
<1>5. CASE UNCHANGED vars
  BY <1>5 DEF vars, registry, broadcast, server, client, history, IInv, TypeOK, StatusOfTheLiving,
              LastInv, RenderInv, SessionInv, RegistryInv, ServingInv, FollowingInv, Unsent, Synced
<1> QED BY <1>1, <1>2, <1>3, <1>4, <1>5 DEF Next, Undefined

\* The invariant, field by field, says what NothingIsLost does of whole statuses.
LEMMA NothingLost == IInv => NothingIsLost
<1> SUFFICES ASSUME IInv, NEW c \in Conns \ overtaken, Synced(c), NEW n \in alive
             PROVE  Merge(Merge(Expected(c, n), Unsent(n, c)), pending[n]) = states[n]
  BY DEF NothingIsLost
<1> DEFINE lhs == Merge(Merge(Expected(c, n), Unsent(n, c)), pending[n])
<1>1. states[n] \in [Fields -> Values \cup {Absent}] /\ n \in Nodes
  BY DEF IInv, TypeOK, Statuses, Status
<1>2. \A f \in Fields : Expected(c, n)[f] = Final(inbox[c], store[c], n, f)
  BY DEF Expected, Final, Saying
<1>3. \A f \in Fields :
        lhs[f] = Latest(Latest(Expected(c, n)[f], Unsent(n, c)[f]), pending[n][f])
  BY DEF Merge, Latest
<1>4. \A f \in Fields : lhs[f] = states[n][f]
  BY <1>2, <1>3 DEF IInv, FollowingInv
<1>5. lhs = [f \in Fields |-> lhs[f]]
  BY DEF Merge
<1> HIDE DEF lhs
<1>6. lhs = states[n]
  BY <1>1, <1>4, <1>5
<1> QED BY <1>6 DEF lhs

-----------------------------------------------------------------------------
(* The theorems *)

\* What is pending, broadcast, served or followed stays as described.
THEOREM Invariance == Spec => []IInv
BY InitInv, NextInv, PTL DEF Spec

\* Nothing of a living node's status is lost on its way to a client that is
\* connected and was not overtaken by a delta while it was served, whatever
\* connects, breaks, is written and removed at the same time, and nothing of a
\* removed node is kept.
THEOREM StatusArrives == Spec => []StatusIsKept
<1>1. IInv => StatusIsKept
  BY NothingLost DEF IInv, StatusIsKept
<1> QED BY <1>1, Invariance, PTL

=============================================================================
