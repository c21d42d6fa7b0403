--------------------------- MODULE ReplicaControl ---------------------------
(***************************************************************************)
(* What the KinkControlPlane controller promises, in terms of what is      *)
(* stored alone: no cache, no queue, no pass.  Users ask, machines come to *)
(* run and get lost, the controller creates, deletes and reports, and it   *)
(* comes to rest only when the promise is kept.                            *)
(*                                                                         *)
(* The specification that module ControlPlane implements.                  *)
(***************************************************************************)
EXTENDS ControlPlaneTypes

VARIABLES
  kcp,        \* the KinkControlPlane, or NoKcp
  machines,   \* the KinkMachines, by name
  engaged,    \* the Cluster lets the controller through, and wakes it
  excused,    \* the controller ignored a failed write
  witnessed,  \* the uids that ever owned a ready machine
  born,       \* the uids are 1..born
  atRest      \* the controller has nothing left to do

vars == <<kcp, machines, engaged, excused, witnessed, born, atRest>>

\* As many machines as replicas, and a status that counts them.
Promise ==
  kcp # NoKcp /\ Want(kcp.replicas) >= 0 /\ engaged =>
    /\ Accurate(kcp.status, machines, kcp.uid)
    /\ excused \/ Cardinality(Live(machines)) = Want(kcp.replicas)

NewKcp(uid, r) == [uid |-> uid, replicas |-> r, status |-> NewStatus]

Init ==
  /\ kcp \in {NoKcp} \cup {NewKcp(1, r) : r \in Replicas}
  /\ machines = [m \in Machines |-> Absent]
  /\ engaged \in BOOLEAN
  /\ excused = FALSE
  /\ witnessed = {}
  /\ born = 1
  /\ atRest \in BOOLEAN /\ (atRest => Promise)

-----------------------------------------------------------------------------
\* A change of what is stored leaves the controller something to do.
Stirred == atRest' = FALSE /\ UNCHANGED <<engaged, excused>>

\* Users create a KinkControlPlane, another incarnation each time, ...
Ask(r) ==
  /\ kcp = NoKcp
  /\ born' = born + 1
  /\ kcp' = NewKcp(born', r)
  /\ Stirred /\ UNCHANGED <<machines, witnessed>>

\* ... edit its replicas, ...
AskAgain(r) ==
  /\ kcp # NoKcp
  /\ kcp' = [kcp EXCEPT !.replicas = r]
  /\ Stirred /\ UNCHANGED <<machines, witnessed, born>>

\* ... and delete it.
Resign ==
  /\ kcp # NoKcp
  /\ kcp' = NoKcp
  /\ Stirred /\ UNCHANGED <<machines, witnessed, born>>

\* A machine starts or stops to be ready.
Turn(m) ==
  /\ m \in Live(machines)
  /\ machines' = [machines EXCEPT ![m].ready = ~@]
  /\ witnessed' = witnessed \cup {machines[m].owner}
  /\ Stirred /\ UNCHANGED <<kcp, born>>

\* The controller creates a machine, for any incarnation there was;
Create(m) ==
  /\ ~atRest /\ m \notin Live(machines)
  /\ \E uid \in 1..born :
       machines' = [machines EXCEPT ![m] = [owner |-> uid, ready |-> FALSE]]
  /\ Stirred /\ UNCHANGED <<kcp, witnessed, born>>

\* the controller, a user or the garbage collector deletes one.
Delete(m) ==
  /\ m \in Live(machines)
  /\ machines' = [machines EXCEPT ![m] = Absent]
  /\ Stirred /\ UNCHANGED <<kcp, witnessed, born>>

\* The controller reports numbers, of machines there may have been, and ready
\* only for an incarnation that had a ready machine of its own.
Report(up, down) ==
  /\ ~atRest /\ kcp # NoKcp
  /\ up + down <= Cardinality(Machines)
  /\ up > 0 => kcp.uid \in witnessed
  /\ kcp' = [kcp EXCEPT !.status = [readyReplicas |-> up, ready |-> up > 0,
                                    unavailableReplicas |-> down]]
  /\ Stirred /\ UNCHANGED <<machines, witnessed, born>>

\* The Cluster changes, or something happens that changes nothing stored; only a
\* controller that works has writes that fail.
Stir ==
  /\ atRest' = FALSE
  /\ engaged' \in BOOLEAN /\ excused' \in BOOLEAN
  /\ atRest => excused' = excused
  /\ UNCHANGED <<kcp, machines, witnessed, born>>

\* The controller has kept its promise.
Rest ==
  /\ ~atRest /\ Promise
  /\ atRest' = TRUE
  /\ UNCHANGED <<kcp, machines, engaged, excused, witnessed, born>>

Next ==
  \/ \E r \in Replicas : Ask(r) \/ AskAgain(r)
  \/ Resign
  \/ \E m \in Machines : Turn(m) \/ Create(m) \/ Delete(m)
  \/ \E up, down \in 0..Cardinality(Machines) : Report(up, down)
  \/ Stir \/ Rest

Spec == Init /\ [][Next]_vars

-----------------------------------------------------------------------------
\* At rest the promise is kept, and ready means that there was a ready machine.
Kept ==
  /\ atRest => Promise
  /\ kcp # NoKcp /\ kcp.status.ready => kcp.uid \in witnessed
=============================================================================
