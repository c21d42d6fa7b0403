----------------------------- MODULE TrustStore -----------------------------
(***************************************************************************)
(* What the certificate manager promises, in terms of the stored Secrets   *)
(* alone: no cache, no queue, no keys in memory.  A Secret is stored once, *)
(* with a key that fits those stored before it, and never changed; users   *)
(* may delete it; and the controller goes on to the machines only when     *)
(* all Secrets are there.                                                  *)
(*                                                                         *)
(* The specification that module Certificates implements.                  *)
(***************************************************************************)
EXTENDS KinkCerts

CONSTANTS
  CertMap,   \* the certificate map
  Keys,      \* the keys, known by the pass that generated them
  Absent     \* no Secret of that name

VARIABLES
  secrets,   \* the key of each Secret, or Absent
  lost,      \* the Secrets someone deleted at some time
  mixed,     \* a pass ended between two certificates
  goneOn     \* the controller is at the machines

vars == <<secrets, lost, mixed, goneOn>>

Names == DOMAIN CertMap \cup {"sa", "kubeconfig"}

\* Two passes had to share the work on the certificates.
Excused == mixed \/ lost \cap DOMAIN CertMap # {}

\* Nothing is missing that nobody deleted.
Complete == \A s \in Names \ lost : secrets[s] # Absent

Init ==
  /\ secrets = [s \in Names |-> Absent]
  /\ lost = {} /\ mixed = FALSE /\ goneOn = FALSE

-----------------------------------------------------------------------------
\* A certificate has the key of the pass that signed it: its CA's, and for the
\* kubeconfig that of the cluster's CA.
Fits(s, key) ==
  /\ s \in DOMAIN CertMap /\ CertMap[s] # NoCA =>
       Excused \/ key = secrets[CertMap[s]]
  /\ s = "kubeconfig" => "ca" \in lost \/ key = secrets["ca"]

\* A Secret is stored; it may be the last one, or that of a pass that ends there.
Store(s, key) ==
  /\ ~goneOn /\ secrets[s] = Absent
  /\ Fits(s, key)
  /\ secrets' = [secrets EXCEPT ![s] = key]
  /\ goneOn' \in BOOLEAN /\ (goneOn' => Complete')
  /\ mixed' \in {mixed, TRUE}
  /\ UNCHANGED lost

\* Every Secret was found.
GoOn ==
  /\ ~goneOn /\ Complete
  /\ goneOn' = TRUE
  /\ UNCHANGED <<secrets, lost, mixed>>

Finish ==
  /\ goneOn /\ goneOn' = FALSE
  /\ UNCHANGED <<secrets, lost, mixed>>

\* A pass ends among the certificates.
Interrupt ==
  /\ ~goneOn /\ mixed' = TRUE
  /\ UNCHANGED <<secrets, lost, goneOn>>

\* A user deletes a Secret.
Lose(s) ==
  /\ secrets[s] # Absent
  /\ secrets' = [secrets EXCEPT ![s] = Absent]
  /\ lost' = lost \cup {s}
  /\ UNCHANGED <<mixed, goneOn>>

Next ==
  \/ \E s \in Names, key \in Keys : Store(s, key)
  \/ GoOn \/ Finish \/ Interrupt
  \/ \E s \in Names : Lose(s)

Spec == Init /\ [][Next]_vars

-----------------------------------------------------------------------------
\* What clients and pods rely on: whatever verifies once verifies for good, and
\* a kubeconfig trusts the cluster's CA.
Trusted ==
  /\ ~Excused => \A leaf \in DOMAIN CertMap :
       CertMap[leaf] # NoCA /\ secrets[leaf] # Absent =>
         secrets[leaf] = secrets[CertMap[leaf]]
  /\ "ca" \notin lost /\ secrets["kubeconfig"] # Absent =>
       secrets["kubeconfig"] = secrets["ca"]
  /\ goneOn => Complete
=============================================================================
