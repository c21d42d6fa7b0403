--------------------------- MODULE MachineProofs ---------------------------
(***************************************************************************)
(* Theorems of module Machine, for all bounds and both sets of roles.      *)
(*                                                                         *)
(* TypeOK is inductive as it stands.  OneEachWhenClean needs that, in a    *)
(* clean pass, a role still to create has no pod but the scheduler's.      *)
(***************************************************************************)
EXTENDS Machine, InformerProofs

Kept == KinkMachine \cup {NoMachine}

\* In a pass whose list was, and still is, what is stored but for its own pods: a
\* role still to create has no pod, or one of the mislabelled scheduler.
Unfound ==
  pc = "pods" /\ pass.clean =>
    \A t \in pass.create : Labelled(Stored(pods), t) \subseteq {"scheduler"}

-----------------------------------------------------------------------------
(* Types.                                                                  *)

\* An update of one field leaves a pass.
LEMMA PassTypes ==
  /\ NoPass \in Pass /\ NoPass.create = {}
  /\ \A p \in Pass, b \in BOOLEAN, C \in SUBSET Roles :
       /\ [p EXCEPT !.create = C] \in Pass /\ [p EXCEPT !.create = C].create = C
       /\ [p EXCEPT !.create = C].clean = p.clean
       /\ [p EXCEPT !.stale = b] \in Pass /\ [p EXCEPT !.stale = b].create = p.create
       /\ [p EXCEPT !.stale = b].clean = p.clean
       /\ [p EXCEPT !.clean = b] \in Pass /\ [p EXCEPT !.clean = b].create = p.create
       /\ [p EXCEPT !.clean = b].clean = b
  BY DEF Pass, NoPass

\* A pod that is stored; a template's pods that are changed.
LEMMA PodsAppend ==
  ASSUME TypeOK, NEW t \in Roles, NEW states \in SUBSET States,
         pods' = Append(pods, [Stored(pods) EXCEPT ![t] = states])
  PROVE  /\ pods' \in Streams(Pods)
         /\ \A u \in Roles \ {t} : Stored(pods')[u] = Stored(pods)[u]
         /\ Stored(pods')[t] = states
<1>1. pods \in Streams(Pods)
  BY DEF TypeOK
<1>2. Stored(pods) \in Pods
  BY <1>1, StreamReads
<1> DEFINE c == [Stored(pods) EXCEPT ![t] = states]
<1>3. c \in Pods /\ c[t] = states /\ \A u \in Roles \ {t} : c[u] = Stored(pods)[u]
  BY <1>2 DEF Pods
<1>4. pods' = Append(pods, c)
  OBVIOUS
<1> HIDE DEF c
<1>5. pods' \in Streams(Pods) /\ Stored(pods') = c
  BY <1>1, <1>3, <1>4, StreamAppend
<1> QED
  BY <1>3, <1>5

LEMMA StorePodTypes ==
  ASSUME TypeOK, NEW t \in Roles, StorePod(t)
  PROVE  /\ pods' \in Streams(Pods)
         /\ \A u \in Roles \ {t} : Stored(pods')[u] = Stored(pods)[u]
<1>1. Stored(pods) \in Pods
  <2>1. pods \in Streams(Pods)
    BY DEF TypeOK
  <2> QED
    BY <2>1, StreamReads
<1> DEFINE states == Stored(pods)[t] \cup {"waiting"}
<1>2. states \in SUBSET States
  BY <1>1 DEF Pods, States
<1>3. pods' = Append(pods, [Stored(pods) EXCEPT ![t] = states])
  BY DEF StorePod
<1> HIDE DEF states
<1> QED
  BY <1>2, <1>3, PodsAppend

LEMMA PodEventTypes ==
  ASSUME TypeOK, NEW t \in Roles, RunPod(t) \/ StopPod(t) \/ LosePod(t)
  PROVE  pods' \in Streams(Pods)
<1>1. Stored(pods) \in Pods
  <2>1. pods \in Streams(Pods)
    BY DEF TypeOK
  <2> QED
    BY <2>1, StreamReads
<1>2. PICK states \in SUBSET States : WritePods(t, states)
  <2>1. Stored(pods)[t] \in SUBSET States
    BY <1>1 DEF Pods
  <2> QED
    BY <2>1 DEF RunPod, StopPod, LosePod, Left, States
<1>3. pods' = Append(pods, [Stored(pods) EXCEPT ![t] = states])
  BY <1>2 DEF WritePods
<1> QED
  BY <1>3, PodsAppend

LEMMA InitType == Init => TypeOK
<1> SUFFICES ASSUME Init PROVE TypeOK
  OBVIOUS
<1>1. [ready |-> FALSE] \in Kept /\ [t \in Roles |-> {}] \in Pods
  BY DEF Kept, KinkMachine, Pods
<1>2. machine \in Streams(Kept) /\ pods \in Streams(Pods)
  BY <1>1 DEF Init, Streams
<1>3. service \in Streams(Services)
  <2>1. \A x \in Services : <<x>> \in Streams(Services)
    BY DEF Streams
  <2>2. "none" \in Services /\ "other" \in Services
    BY DEF Services
  <2>3. service = <<"none">> \/ service = <<"other">>
    BY DEF Init
  <2> QED
    BY <2>1, <2>2, <2>3
<1>4. pass \in Pass /\ pass.create = {}
  BY PassTypes DEF Init
<1>5. events \in 0..MaxEvents /\ faults \in 0..MaxFaults
  BY MachineBoundsAssumption DEF Init
<1> QED
  BY <1>2, <1>3, <1>4, <1>5 DEF Init, TypeOK, Kept

\* What a fault or an event leaves of its bound.
LEMMA BoundTypes ==
  ASSUME TypeOK
  PROVE  /\ faults > 0 /\ faults' = faults - 1 => faults' \in 0..MaxFaults
         /\ Event => events' \in 0..MaxEvents
BY MachineBoundsAssumption DEF TypeOK, Event

LEMMA ReconcileType == TypeOK /\ Reconcile => TypeOK'
<1> SUFFICES ASSUME TypeOK, Reconcile PROVE TypeOK'
  OBVIOUS
<1>a. machine \in Streams(Kept) /\ service \in Streams(Services) /\ pass \in Pass
  BY DEF TypeOK, Kept
<1>1. CASE GetNothing
  BY <1>1 DEF GetNothing, Objects, Bounds, TypeOK
<1>2. CASE GetNoCluster
  BY <1>2 DEF GetNoCluster, vars, TypeOK
<1>3. CASE Begin
  <2>1. pass' \in Pass
    BY <1>3 DEF Begin, Pass, Lagging
  <2> QED
    BY <1>3, <2>1 DEF Begin, Objects, Bounds, TypeOK
<1>4. ASSUME NEW t \in Roles, CreatePod(t) PROVE TypeOK'
  <2>1. pods' \in Streams(Pods)
    BY <1>4, StorePodTypes DEF CreatePod
  <2>2. pass.create \ {t} \in SUBSET Roles
    BY <1>a DEF Pass
  <2>3. pass' \in Pass
    BY <1>4, <1>a, <2>2, PassTypes DEF CreatePod
  <2> QED
    BY <1>4, <2>1, <2>3 DEF CreatePod, Bounds, TypeOK
<1>5. ASSUME NEW t \in Roles, PodFails(t) PROVE TypeOK'
  <2>1. pods' \in Streams(Pods)
    BY <1>5, StorePodTypes DEF PodFails, TypeOK
  <2>2. faults' \in 0..MaxFaults
    BY <1>5, BoundTypes DEF PodFails
  <2> QED
    BY <1>5, <2>1, <2>2, PassTypes DEF PodFails, Return, TypeOK
<1>6. CASE SetupService
  <2>1. service' \in Streams(Services)
    <3>1. "mine" \in Services
      BY DEF Services
    <3>2. service' = Write(service, "mine") \/ service' = service
      BY <1>6 DEF SetupService
    <3> QED
      BY <1>a, <3>1, <3>2, StreamWrite
  <2> QED
    BY <1>6, <2>1 DEF SetupService, PodsDone, Bounds, TypeOK
<1>7. CASE ServiceFails
  <2>1. faults' \in 0..MaxFaults
    BY <1>7, BoundTypes DEF ServiceFails
  <2> QED
    BY <1>7, <2>1 DEF ServiceFails, PodsDone, Objects, TypeOK
<1>8. CASE UpdateStatus
  <2>1. machine' \in Streams(Kept)
    <3>1. [ready |-> AllRun(Cached(pods))] \in Kept
      BY DEF Kept, KinkMachine, AllRun
    <3> QED
      BY <1>8, <1>a, <3>1, StreamWrite DEF UpdateStatus
  <2> QED
    BY <1>8, <2>1, PassTypes DEF UpdateStatus, Return, Bounds, TypeOK, Kept
<1>9. CASE UpdateFails
  <2>1. faults' \in 0..MaxFaults
    BY <1>9, BoundTypes DEF UpdateFails, TypeOK
  <2> QED
    BY <1>9, <2>1, PassTypes DEF UpdateFails, Return, Objects, TypeOK
<1> QED
  BY <1>1, <1>2, <1>3, <1>4, <1>5, <1>6, <1>7, <1>8, <1>9 DEF Reconcile

LEMMA ProcessType ==
  TypeOK /\ (Crash \/ DeliverMachine \/ DeliverPods \/ DeliverService) => TypeOK'
<1> SUFFICES ASSUME TypeOK, Crash \/ DeliverMachine \/ DeliverPods \/ DeliverService
             PROVE  TypeOK'
  OBVIOUS
<1>a. machine \in Streams(Kept) /\ pods \in Streams(Pods) /\ service \in Streams(Services)
  BY DEF TypeOK, Kept
<1>1. CASE Crash
  <2>1. faults' \in 0..MaxFaults
    BY <1>1, BoundTypes DEF Crash
  <2>2. /\ machine' \in Streams(Kept) /\ pods' \in Streams(Pods)
        /\ service' \in Streams(Services)
    BY <1>1, <1>a, StreamRelist DEF Crash
  <2> QED
    BY <1>1, <2>1, <2>2, PassTypes DEF Crash, TypeOK, Kept
<1>2. CASE DeliverMachine
  <2>1. machine' \in Streams(Kept)
    BY <1>2, <1>a, StreamDeliver DEF DeliverMachine
  <2> QED
    BY <1>2, <2>1 DEF DeliverMachine, Bounds, TypeOK, Kept
<1>3. CASE DeliverPods
  <2>1. pods' \in Streams(Pods)
    BY <1>3, <1>a, StreamDeliver DEF DeliverPods
  <2> QED
    BY <1>3, <2>1 DEF DeliverPods, Bounds, TypeOK
<1>4. CASE DeliverService
  <2>1. service' \in Streams(Services)
    BY <1>4, <1>a, StreamDeliver DEF DeliverService
  <2> QED
    BY <1>4, <2>1 DEF DeliverService, Bounds, TypeOK
<1> QED
  BY <1>1, <1>2, <1>3, <1>4

LEMMA EnvironmentType == TypeOK /\ Environment => TypeOK'
<1> SUFFICES ASSUME TypeOK, Environment PROVE TypeOK'
  OBVIOUS
<1>a. machine \in Streams(Kept) /\ service \in Streams(Services) /\ pass \in Pass
  BY DEF TypeOK, Kept
<1>b. Event => events' \in 0..MaxEvents
  BY BoundTypes
<1>1. ASSUME EditMachine \/ DeleteMachine PROVE TypeOK'
  <2>1. PICK object \in Kept : WriteMachine(object)
    <3>1. Stored(machine) \in Kept /\ NoMachine \in Kept
      BY <1>a, StreamReads DEF Kept
    <3> QED
      BY <1>1, <3>1 DEF EditMachine, DeleteMachine
  <2>2. machine' \in Streams(Kept)
    BY <1>a, <2>1, StreamAppend DEF WriteMachine
  <2>3. pass' \in Pass /\ pass'.create = pass.create
    BY <1>a, <2>1, PassTypes DEF WriteMachine
  <2> QED
    BY <1>b, <2>1, <2>2, <2>3 DEF WriteMachine, TypeOK, Kept
<1>2. CASE ChangeCluster
  BY <1>2, <1>b DEF ChangeCluster, TypeOK
<1>3. CASE ChangeService
  <2>1. service' \in Streams(Services)
    <3>1. {"other", "none"} \subseteq Services
      BY DEF Services
    <3> QED
      BY <1>3, <1>a, <3>1, StreamWrite DEF ChangeService
  <2> QED
    BY <1>3, <1>b, <2>1 DEF ChangeService, TypeOK
<1>4. ASSUME NEW t \in Roles, RunPod(t) \/ StopPod(t) \/ LosePod(t) PROVE TypeOK'
  <2>1. pods' \in Streams(Pods)
    BY <1>4, PodEventTypes
  <2>2. pass' = [pass EXCEPT !.clean = FALSE]
    BY <1>4 DEF RunPod, StopPod, LosePod, WritePods
  <2>3. pass' \in Pass /\ pass'.create = pass.create
    BY <1>a, <2>2, PassTypes
  <2>4. events' \in 0..MaxEvents /\ UNCHANGED <<machine, service, cluster, queued, pc, faults>>
    BY <1>4, <1>b DEF RunPod, StopPod, LosePod, WritePods, TypeOK
  <2> QED
    BY <2>1, <2>3, <2>4 DEF TypeOK
<1>5. CASE Collect
  <2>1. ASSUME NEW t \in Roles, WritePods(t, {}), UNCHANGED events PROVE TypeOK'
    <3>1. pods' = Append(pods, [Stored(pods) EXCEPT ![t] = {}])
      BY <2>1 DEF WritePods
    <3>2. pods' \in Streams(Pods)
      BY <3>1, PodsAppend
    <3>3. pass' \in Pass /\ pass'.create = pass.create
      BY <1>a, <2>1, PassTypes DEF WritePods
    <3> QED
      BY <2>1, <3>2, <3>3 DEF WritePods, TypeOK
  <2>2. ASSUME service' = Write(service, "none"),
               UNCHANGED <<machine, pods, cluster, queued, pc, pass, Bounds>>
        PROVE  TypeOK'
    <3>1. "none" \in Services
      BY DEF Services
    <3>2. service' \in Streams(Services)
      BY <1>a, <2>2, <3>1, StreamWrite
    <3> QED
      BY <2>2, <3>2 DEF Bounds, TypeOK
  <2> QED
    BY <1>5, <2>1, <2>2 DEF Collect
<1> QED
  BY <1>1, <1>2, <1>3, <1>4, <1>5 DEF Environment

LEMMA NextType == TypeOK /\ [Next]_vars => TypeOK'
<1>1. TypeOK /\ UNCHANGED vars => TypeOK'
  BY DEF vars, TypeOK
<1> QED
  BY <1>1, ReconcileType, ProcessType, EnvironmentType DEF Next

\* TypeOK: the types of the variables hold in every state.
THEOREM TypeCorrect == Spec => []TypeOK
<1>1. Init => TypeOK
  BY InitType
<1>2. TypeOK /\ [Next]_vars => TypeOK'
  BY NextType
<1> QED
  BY <1>1, <1>2, PTL DEF Spec

-----------------------------------------------------------------------------
(* One pod each.                                                           *)

LEMMA NextUnfound == TypeOK /\ Unfound /\ [Next]_vars => Unfound'
<1> SUFFICES ASSUME TypeOK, Unfound, [Next]_vars, pc' = "pods", pass'.clean,
                    NEW t \in pass'.create
             PROVE  Labelled(Stored(pods'), t) \subseteq {"scheduler"}
  BY DEF Unfound
<1>a. pods \in Streams(Pods) /\ machine \in Streams(Kept) /\ pass \in Pass
  BY DEF TypeOK, Kept
<1>1. CASE Begin
  <2>1. /\ Cached(pods) = Stored(pods) /\ pods' = pods
        /\ t \in Roles \ Found(Cached(pods))
    <3>1. ~Lagging(pods) /\ pods' = pods /\ t \in Roles \ Found(Cached(pods))
      BY <1>1 DEF Begin, Objects
    <3> QED
      BY <1>a, <3>1, StreamReads
  <2> QED
    BY <2>1 DEF Found, Labelled
<1>2. ASSUME NEW u \in Roles, CreatePod(u)
      PROVE  Labelled(Stored(pods'), t) \subseteq {"scheduler"}
  <2>1. pc = "pods" /\ pass' = [pass EXCEPT !.create = pass.create \ {u}] /\ StorePod(u)
    BY <1>2 DEF CreatePod
  <2>2. pass.create \ {u} \in SUBSET Roles
    BY <1>a DEF Pass
  <2>3. pass'.create = pass.create \ {u} /\ pass'.clean = pass.clean
    BY <1>a, <2>1, <2>2, PassTypes
  <2>4. Labelled(Stored(pods), t) \subseteq {"scheduler"} /\ t # u
    BY <2>1, <2>3 DEF Unfound
  <2>5. \A v \in Roles \ {u} : Stored(pods')[v] = Stored(pods)[v]
    BY <2>1, StorePodTypes
  <2>6. Label(u) = t => u = "scheduler"
    BY <2>4 DEF Label
  <2> QED
    BY <2>4, <2>5, <2>6 DEF Labelled
<1>3. CASE /\ pc = "pods" /\ t \in pass.create /\ pass.clean
           /\ Stored(pods') = Stored(pods)
  BY <1>3 DEF Unfound
<1>4. CASE DeliverPods
  <2>1. Stored(pods') = Stored(pods) /\ UNCHANGED <<pc, pass>>
    <3>1. Stored(pods') = Stored(pods)
      BY <1>4, <1>a, StreamDeliver DEF DeliverPods
    <3> QED
      BY <1>4, <3>1 DEF DeliverPods
  <2> QED
    BY <1>3, <2>1
<1>5. ASSUME EditMachine \/ DeleteMachine PROVE Labelled(Stored(pods'), t) \subseteq {"scheduler"}
  <2>1. pass' = [pass EXCEPT !.stale = (pc # "idle")] /\ UNCHANGED <<pods, pc>>
    BY <1>5 DEF EditMachine, DeleteMachine, WriteMachine
  <2> DEFINE b == (pc # "idle")
  <2>2. b \in BOOLEAN /\ pass' = [pass EXCEPT !.stale = b]
    BY <2>1
  <2> HIDE DEF b
  <2>3. pass'.create = pass.create /\ pass'.clean = pass.clean
    BY <1>a, <2>2 DEF Pass
  <2> QED
    BY <1>3, <2>1, <2>3
<1>6. ASSUME NEW u \in Roles, NEW states, WritePods(u, states) PROVE FALSE
  BY <1>6, <1>a, PassTypes DEF WritePods
<1>7. ASSUME NEW u \in Roles, RunPod(u) \/ StopPod(u) \/ LosePod(u) PROVE FALSE
  BY <1>6, <1>7 DEF RunPod, StopPod, LosePod
<1>8. CASE UNCHANGED <<pods, pc, pass>>
  BY <1>3, <1>8
<1> QED
  BY <1>1, <1>2, <1>4, <1>5, <1>6, <1>7, <1>8
  DEF Next, Reconcile, Environment, GetNothing, GetNoCluster, PodFails, SetupService,
      ServiceFails, UpdateStatus, UpdateFails, Return, Crash, DeliverMachine,
      DeliverService, ChangeCluster, ChangeService, Collect, Objects, vars

\* OneEachWhenClean: a pass that listed the stored pods, with nobody else at work
\* on them, creates no second pod for a role whose pods carry its label.
THEOREM NoSecondWhenClean == Spec => OneEachWhenClean
<1>1. Init => TypeOK /\ Unfound
  BY InitType DEF Init, Unfound
<1>2. TypeOK /\ Unfound /\ [Next]_vars => (TypeOK /\ Unfound)'
  BY NextType, NextUnfound
<1>3. TypeOK /\ Unfound /\ [Next]_vars =>
        [\A t \in Roles \ {"scheduler"} :
           CreatePod(t) /\ pass.clean =>
             Labelled(Stored(pods), t) \subseteq {"scheduler"}]_vars
  BY DEF Unfound, CreatePod
<1> QED
  BY <1>1, <1>2, <1>3, PTL DEF Spec, OneEachWhenClean
=============================================================================
