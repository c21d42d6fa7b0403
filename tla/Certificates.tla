---------------------------- MODULE Certificates ----------------------------
(***************************************************************************)
(* The certificates of one control plane: CertificatesManager, which every *)
(* pass of the KinkControlPlane controller runs before it touches machines.*)
(*                                                                         *)
(* Source: src/controllers/controlplane/secrets/ and, for the pass around  *)
(* it, src/controllers/controlplane/kinkcontrolplane_controller.go.        *)
(*                                                                         *)
(* Every pass generates every key anew, in memory, and stores those whose  *)
(* Secret its cache does not show.  A key is therefore known by the pass   *)
(* that generated it, its generation: a CA of generation g signed the      *)
(* leaves of generation g, and no others.                                  *)
(***************************************************************************)
EXTENDS Informer, KinkCerts, FiniteSets

CONSTANTS
  CertMap,     \* the certificate map: GetCerts
  MaxGens,     \* bound: generations told apart at a time
  MaxLag,      \* bound: watch events in flight
  MaxFaults,   \* bound: failing calls and restarts of the process
  MaxLosses    \* bound: Secrets deleted by someone else

Certs == DOMAIN CertMap

\* The Secrets of a cluster: one per certificate, the service account key pair,
\* and the kubeconfig.
SecretNames == Certs \cup {"sa", "kubeconfig"}

ASSUME CertMapAssumption ==
  /\ AllKnown(CertMap) /\ OneLevel(CertMap) /\ NoCA \notin Certs
  /\ "ca" \in CAs(CertMap)
  /\ "sa" \notin Certs /\ "kubeconfig" \notin Certs
ASSUME CertBoundsAssumption ==
  /\ MaxGens \in Nat /\ MaxLag \in Nat /\ MaxFaults \in Nat /\ MaxLosses \in Nat

Gens == 1..MaxGens
Absent == 0      \* no Secret of that name

VARIABLES
  secrets,      \* stream of the Secrets: the generation of each, or Absent
  queued,       \* the work queue holds the KinkControlPlane's request
  pc,           \* where the pass is; "idle" when none runs
  pass,         \* the local variables of the pass
  interrupted,  \* ghost: some pass ended inside the tree after it created a Secret
  lost,         \* the Secrets someone else deleted at some time
  faults        \* MaxFaults minus the faults so far

vars == <<secrets, queued, pc, pass, interrupted, lost, faults>>

\* The kubeconfig has the generation of the CA that signed its certificate.
Contents == [SecretNames -> Gens \cup {Absent}]

\* The local variables: the generation of the keys in memory, the CAs and the
\* leaves still to come, and (a ghost) whether the pass created a certificate.
Pass == [gen : Gens \cup {Absent}, cas : SUBSET Certs, leaves : SUBSET Certs,
         wrote : BOOLEAN]

NoPass == [gen |-> Absent, cas |-> {}, leaves |-> {}, wrote |-> FALSE]

Init ==
  /\ secrets = <<[s \in SecretNames |-> Absent]>>
  /\ queued = TRUE
  /\ pc = "idle"
  /\ pass = NoPass
  /\ interrupted = FALSE
  /\ lost = {}
  /\ faults = MaxFaults

-----------------------------------------------------------------------------
(* The pass.                                                               *)

\* No Secret, stored or on its way, has the generation.
Fresh(g) == \A i \in 1..Len(secrets), s \in SecretNames : secrets[i][s] # g

\* The pass comes to LookupOrGenerateCAs, which computes the tree.
Begin ==
  /\ pc = "idle" /\ queued
  /\ queued' = FALSE
  /\ pc' = "tree"
  /\ \E g \in Gens :
       /\ Fresh(g) /\ \A h \in Gens : Fresh(h) => g <= h
       /\ pass' = [NoPass EXCEPT !.gen = g, !.cas = CAs(CertMap)]
  /\ UNCHANGED <<secrets, interrupted, lost, faults>>

\* (Bug: the last CA counts as the last certificate.)
TreeDoneEarly(rest) == rest.cas = {}

TreeDone(rest) == rest.cas = {} /\ rest.leaves = {}

\* The Secret that is next.
Due(s) ==
  \/ pc = "tree" /\ s \in Certs /\ Turn(pass, s)
  \/ pc \in {"sa", "kubeconfig"} /\ s = pc

\* The pass goes on after that Secret.
Advance(s, wrote) ==
  LET rest == IF pc = "tree" THEN After(CertMap, pass, s) ELSE pass
  IN /\ pass' = [rest EXCEPT !.wrote = @ \/ wrote]
     /\ pc' = CASE pc = "tree" -> IF TreeDone(rest) THEN "sa" ELSE "tree"
                [] pc = "sa" -> "kubeconfig"
                [] pc = "kubeconfig" -> "machines"

\* The pass ends here: within the tree, after a certificate was created, or not.
Interrupt(wrote) ==
  interrupted' = (interrupted \/ (pc = "tree" /\ (pass.wrote \/ wrote)))

\* A call fails, and the pass with it: it is queued again.
\* (Bugs: it is not queued again; the error is logged, and the pass goes on.)
AbortDropped(wrote) ==
  /\ pc' = "idle" /\ pass' = NoPass /\ UNCHANGED queued
  /\ Interrupt(wrote)

AbortIgnored(wrote) ==
  /\ pc' = "machines" /\ UNCHANGED <<pass, queued>>
  /\ Interrupt(wrote)

Abort(wrote) ==
  /\ pc' = "idle" /\ pass' = NoPass /\ queued' = TRUE
  /\ Interrupt(wrote)

\* The Get finds the Secret: the key in memory is dropped, the stored one kept.
Found(s) ==
  /\ Due(s)
  /\ Cached(secrets)[s] # Absent
  /\ Advance(s, FALSE)
  /\ UNCHANGED <<secrets, queued, interrupted, lost, faults>>

\* A kubeconfig needs the CA, and its certificate is signed by the CA the cache
\* shows; everything else has the generation of the keys in memory.
\* (Bug: the kubeconfig is signed by the CA in memory.)
GenerationInMemory(s) == pass.gen

Generation(s) == IF s = "kubeconfig" THEN Cached(secrets)["ca"] ELSE pass.gen

\* It can be generated, and is neither in the cache nor stored...
\* (Bug: one that is stored is updated.)
CreatableAnyway(s) ==
  Due(s) /\ Cached(secrets)[s] = Absent /\ Generation(s) # Absent

Creatable(s) ==
  /\ Due(s)
  /\ Cached(secrets)[s] = Absent /\ Generation(s) # Absent
  /\ Stored(secrets)[s] = Absent

Store(s) ==
  /\ Room(secrets, MaxLag)
  /\ secrets' = Write(secrets, [Stored(secrets) EXCEPT ![s] = Generation(s)])

\* ... and Create stores it...
Created(s) ==
  /\ Creatable(s)
  /\ Store(s)
  /\ Advance(s, TRUE)
  /\ UNCHANGED <<queued, interrupted, lost, faults>>

\* ... or fails, after it was stored or before.
CreateFails(s) ==
  /\ Creatable(s)
  /\ faults > 0 /\ faults' = faults - 1
  /\ \/ Store(s) /\ Abort(TRUE)
     \/ UNCHANGED secrets /\ Abort(FALSE)
  /\ UNCHANGED lost

\* The cache shows neither the Secret nor that it is stored: AlreadyExists; or it
\* does not show the CA the kubeconfig needs.
Refused(s) ==
  /\ Due(s)
  /\ Cached(secrets)[s] = Absent
  /\ Stored(secrets)[s] # Absent \/ Generation(s) = Absent
  /\ Abort(FALSE)
  /\ UNCHANGED <<secrets, lost, faults>>

\* The rest of the pass (module ControlPlane).
Finish ==
  /\ pc = "machines"
  /\ pc' = "idle" /\ pass' = NoPass
  /\ UNCHANGED <<secrets, queued, interrupted, lost, faults>>

-----------------------------------------------------------------------------
(* The process, and everybody else.                                        *)

\* The process ends; the next one lists everything and enqueues it.
Crash ==
  /\ faults > 0 /\ faults' = faults - 1
  /\ secrets' = Relist(secrets)
  /\ Abort(FALSE)
  /\ UNCHANGED lost

\* SetupWithManager: Owns Secret.
DeliverSecrets ==
  /\ Lagging(secrets)
  /\ secrets' = Deliver(secrets)
  /\ queued' = TRUE
  /\ UNCHANGED <<pc, pass, interrupted, lost, faults>>

\* Any other event of the KinkControlPlane or of what it owns, or a resync.
Wake ==
  /\ ~queued /\ queued' = TRUE
  /\ UNCHANGED <<secrets, pc, pass, interrupted, lost, faults>>

\* Someone deletes a Secret; the bound has no Secret lost twice.
LoseSecret(s) ==
  /\ Stored(secrets)[s] # Absent
  /\ s \notin lost /\ Cardinality(lost) < MaxLosses
  /\ Room(secrets, MaxLag)
  /\ secrets' = Write(secrets, [Stored(secrets) EXCEPT ![s] = Absent])
  /\ lost' = lost \cup {s}
  /\ UNCHANGED <<queued, pc, pass, interrupted, faults>>

-----------------------------------------------------------------------------
Work ==
  \/ Begin
  \/ \E s \in SecretNames : Found(s) \/ Created(s) \/ CreateFails(s) \/ Refused(s)
  \/ Finish

Next ==
  \/ Work
  \/ Crash \/ DeliverSecrets \/ Wake
  \/ \E s \in SecretNames : LoseSecret(s)

Spec == Init /\ [][Next]_vars

\* The worker goes on while there is work, and watch events arrive.
FairSpec == Spec /\ WF_vars(Work) /\ WF_vars(DeliverSecrets)

-----------------------------------------------------------------------------
(* Correctness.                                                            *)

\* The types of the variables; only a pass in the tree has certificates to come.
TypeOK ==
  /\ secrets \in Streams(Contents)
  /\ queued \in BOOLEAN
  /\ pc \in {"idle", "tree", "sa", "kubeconfig", "machines"}
  /\ pass \in Pass
  /\ pc # "tree" => pass.cas = {} /\ pass.leaves = {}
  /\ pc # "idle" => pass.gen # Absent
  /\ interrupted \in BOOLEAN
  /\ lost \subseteq SecretNames
  /\ faults \in 0..MaxFaults

\* ReturnedComplete: a pass that goes on to the machines left every Secret stored
\* but those that someone deleted: whatever it skipped because its cache showed
\* it, or a pass before it, interrupted anywhere, had begun.
ReturnedComplete ==
  pc = "machines" => \A s \in SecretNames \ lost : Stored(secrets)[s] # Absent

\* KubeconfigTrusted: the certificate of a stored kubeconfig was signed by the
\* stored CA, unless someone deleted that CA: however many passes generated a CA
\* of their own before the kubeconfig was made.
KubeconfigTrusted ==
  LET stored == Stored(secrets)
  IN "ca" \notin lost /\ stored["kubeconfig"] # Absent =>
       stored["kubeconfig"] = stored["ca"]

\* Every stored leaf was signed by the stored certificate of its CA.
Chain ==
  LET stored == Stored(secrets)
  IN \A c \in Certs :
       CertMap[c] # NoCA /\ stored[c] # Absent => stored[c] = stored[CertMap[c]]

\* ChainIntact: as long as no pass was interrupted between two certificates, and
\* nobody deletes one, the stored certificates form a chain: passes with a stale
\* cache, which generate everything anew, do not mix their keys in.
ChainIntact == ~interrupted /\ lost \cap Certs = {} => Chain

\* What is stored, and whether the pass has gone on to the machines.
Trust == INSTANCE TrustStore WITH
  Keys <- Gens, secrets <- Stored(secrets), mixed <- interrupted,
  goneOn <- (pc = "machines")

\* KeepsTrust: whatever their caches show and wherever they end, to those who see
\* only what is stored the passes are one TrustStore: a Secret is stored once, with
\* a key that fits, and never overwritten.
KeepsTrust == Trust!Spec

\* Provisioned: once faults and losses are over, every Secret gets stored and
\* stays, with no help from a resync.
Provisioned == <>[](\A s \in SecretNames : Stored(secrets)[s] # Absent)

\* ChainConsistent: cert.go:194 and cert.go:224 have the certificates "signed by
\* the CAs" they depend on; with nothing deleted, a pass that goes on to the
\* machines leaves such a tree.
ChainConsistent == pc = "machines" /\ lost = {} => Chain
=============================================================================
