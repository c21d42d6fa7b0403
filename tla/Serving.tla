------------------------------ MODULE Serving ------------------------------
(***************************************************************************)
(* Clusters that share a namespace, and users who edit them: whether what  *)
(* one controller writes down for clients (the certificate of the API      *)
(* server and the kubeconfig, once and for all) fits what the other one    *)
(* starts (the pods, again and again).                                     *)
(*                                                                         *)
(* Source: src/controllers/controlplane/secrets/ and                       *)
(* src/controllers/infrastructure/templates/.                              *)
(*                                                                         *)
(* Every read is of what is stored, and nobody deletes a Secret: module    *)
(* Certificates has the stale cache and the losses.  Nothing is queued: an *)
(* event of its own or a resync may wake a control plane at any time.      *)
(***************************************************************************)
EXTENDS KinkCerts, Naturals, Sequences, FiniteSets

CONSTANTS
  Clusters,    \* the names of the Clusters: sequences of words, joined by dashes
  CertMap,     \* the certificate map: GetCerts
  Settings,    \* the specs of the Clusters: service blocks and endpoint
  Malformed,   \* a block that is not a CIDR
  Absent,      \* no Secret of that name
  MaxKeys,     \* bound: the keys told apart at a time
  MaxEdits,    \* bound: edits of the Clusters
  MaxFaults    \* bound: failing calls and restarts of the process

\* What a pass sees to: the certificates, then the service account key pair, then
\* the kubeconfig.
Kinds == DOMAIN CertMap \cup {"sa", "kubeconfig"}

\* A cluster is named by a sequence of words.
ASSUME NamesAssumption == Clusters \subseteq Seq(STRING)

\* The words of a kind.
\* (Bug: the front proxy's certificates have the names of the cluster's own.)
WordsAlike(kind) ==
  CASE kind \in {"kubelet-client", "front-proxy-client"} -> <<"kubelet", "client">>
    [] kind \in {"ca", "front-proxy-ca"} -> <<"ca">>
    [] OTHER -> <<kind>>

Words(kind) ==
  CASE kind = "kubelet-client" -> <<"kubelet", "client">>
    [] kind = "front-proxy-ca" -> <<"front", "proxy", "ca">>
    [] kind = "front-proxy-client" -> <<"front", "proxy", "client">>
    [] OTHER -> <<kind>>

\* certNameFmt: the words of the cluster, and of the kind.
SecretName(cluster, kind) == cluster \o Words(kind)

SecretNames == {SecretName(c, kind) : c \in Clusters, kind \in Kinds}

\* What is read of the spec of a Cluster whose gate is open:
\* clusterNetwork.services.cidrBlocks and the host of controlPlaneEndpoint.
ASSUME SettingsAssumption == \A s \in Settings : DOMAIN s = {"blocks", "host"}

\* The first block, or what the code takes in its place, each file for itself.
FirstBlock(s, default) == IF s.blocks = <<>> THEN default ELSE s.blocks[1]

\* The service range as cert.go has it.
\* (Bug: no block, no range.)
RangeEmpty(s) == FirstBlock(s, "")

Range(s) == FirstBlock(s, "192.168.0.0/24")

\* What a pod's template says of the service range.  The one of the scheduler was
\* made from that of the API server, and etcd's says nothing of it.
\* (Bug: the last block of a list.)
ApiServerPodLast(s) ==
  [range |-> IF s.blocks = <<>> THEN "192.168.0.0/24" ELSE s.blocks[Len(s.blocks)]]

ApiServerPod(s) == [range |-> FirstBlock(s, "192.168.0.0/24")]

SchedulerPod(s) == [range |-> FirstBlock(s, "192.168.0.0/24")]

ControllerManagerPod(s) == [range |-> FirstBlock(s, "192.168.0.0/24")]

Templates(s) == {ApiServerPod(s), SchedulerPod(s), ControllerManagerPod(s)}

\* The Secrets every pod mounts: templates/util.go has a list of its own.
Mounts == {"ca", "apiserver", "kubelet-client", "front-proxy-ca",
           "front-proxy-client", "sa"}

\* Every CA is in the map, what the pods mount is made, and the kubeconfig is not a
\* certificate of the map: there is a CA to sign it when its turn comes.
ASSUME CertMapAssumption ==
  AllKnown(CertMap) /\ Mounts \subseteq Kinds /\ "kubeconfig" \notin DOMAIN CertMap

\* What a certificate or a kubeconfig names: the first address of a service
\* range, or a host.  The DNS names of the service are always there.
Service(range) == <<"service", range>>
Host(s) == <<"host", s.host>>
AllNames == {Service(FirstBlock(s, "192.168.0.0/24")) : s \in Settings} \cup {Host(s) : s \in Settings}

\* getAPIServerAltNames; with a malformed range it fails, and the error is ignored.
AltNames(s) == IF Range(s) = Malformed THEN {} ELSE {Service(Range(s)), Host(s)}

Keys == 1..MaxKeys

\* A Secret knows whom it was made for, the key that signed what it holds (module
\* Certificates), and what it names.
Secret == [cluster : Clusters, kind : Kinds, signer : Keys, names : SUBSET AllNames]

ASSUME AbsentAssumption == Absent \notin Secret
ASSUME BoundsAssumption == MaxKeys \in Nat /\ MaxEdits \in Nat /\ MaxFaults \in Nat

VARIABLES
  settings,     \* the Clusters
  secrets,      \* the Secrets of the namespace, by name
  pass,         \* the one pass of the KinkControlPlane controller, or NoPass
  provided,     \* the Clusters with KinkMachines
  pods,         \* by Cluster, the templates its machines' pods were made from
  had,          \* ghost: by Cluster, every setting it has had
  interrupted,  \* ghost: the Clusters some pass failed for
  edits,        \* MaxEdits minus the edits so far
  faults        \* MaxFaults minus the faults so far

vars == <<settings, secrets, pass, provided, pods, had, interrupted, edits, faults>>

\* The Cluster as the pass got it, the key it generated, and what it has to see to:
\* CAs, the leaves of the current one, and what follows the tree.
Pass == [cluster : Clusters, settings : Settings, key : Keys,
         cas : SUBSET Kinds, leaves : SUBSET Kinds, rest : Seq(Kinds)]
NoPass == <<>>

Init ==
  /\ settings \in [Clusters -> Settings]
  /\ secrets = [n \in SecretNames |-> Absent]
  /\ pass = NoPass
  /\ provided = {}
  /\ pods = [c \in Clusters |-> {}]
  /\ had = [c \in Clusters |-> {settings[c]}]
  /\ interrupted = {}
  /\ edits = MaxEdits
  /\ faults = MaxFaults

-----------------------------------------------------------------------------
(* The pass of the KinkControlPlane controller.                            *)

Fresh(key) == \A n \in SecretNames : secrets[n] # Absent => secrets[n].signer # key

\* Later passes for a Cluster whose pass went on to its machines find every Secret
\* and write nothing here: they are left out.
Begin(c) ==
  /\ pass = NoPass /\ c \notin provided
  /\ \E key \in Keys :
       /\ Fresh(key) /\ \A k \in Keys : Fresh(k) => key <= k
       /\ pass' = [cluster |-> c, settings |-> settings[c], key |-> key,
                   cas |-> CAs(CertMap), leaves |-> {}, rest |-> <<"sa", "kubeconfig">>]
  /\ UNCHANGED <<settings, secrets, provided, pods, had, interrupted, edits, faults>>

InTree == pass.leaves # {} \/ pass.cas # {}

Due(kind) ==
  /\ pass # NoPass
  /\ IF InTree THEN Turn(pass, kind) ELSE pass.rest # <<>> /\ kind = pass.rest[1]

Advance(kind) ==
  pass' = IF InTree THEN After(CertMap, pass, kind)
                    ELSE [pass EXCEPT !.rest = Tail(@)]

Current(kind) == secrets[SecretName(pass.cluster, kind)]

\* What a Secret of the kind is made with: the kubeconfig by the CA that is stored.
Signer(kind) == IF kind = "kubeconfig" THEN Current("ca").signer ELSE pass.key

\* (Bug: the Cluster is read again for the kubeconfig.)
NamesAnew(kind) ==
  CASE kind = "apiserver" -> AltNames(pass.settings)
    [] kind = "kubeconfig" -> {Host(settings[pass.cluster])}
    [] OTHER -> {}

Names(kind) ==
  CASE kind = "apiserver" -> AltNames(pass.settings)
    [] kind = "kubeconfig" -> {Host(pass.settings)}
    [] OTHER -> {}

Store(kind) ==
  secrets' = [secrets EXCEPT ![SecretName(pass.cluster, kind)] =
                [cluster |-> pass.cluster, kind |-> kind, signer |-> Signer(kind),
                 names |-> Names(kind)]]

\* Whoever made it, a Secret that is there is kept; one that is not is created.
Ensure(kind) ==
  /\ Due(kind)
  /\ IF Current(kind) # Absent THEN UNCHANGED secrets ELSE Store(kind)
  /\ Advance(kind)
  /\ UNCHANGED <<settings, provided, pods, had, interrupted, edits, faults>>

\* A call fails or the process ends, with the Secret stored or not: the next pass
\* starts over.
Interrupt(kind) ==
  /\ Due(kind)
  /\ faults > 0 /\ faults' = faults - 1
  /\ UNCHANGED secrets \/ (Current(kind) = Absent /\ Store(kind))
  /\ pass' = NoPass
  /\ interrupted' = interrupted \cup {pass.cluster}
  /\ UNCHANGED <<settings, provided, pods, had, edits>>

\* Everything is seen to: the pass goes on to the machines (module ControlPlane).
\* (Bug: the machines do not wait for the rest.)
CreateMachinesEarly ==
  /\ pass # NoPass /\ ~InTree
  /\ provided' = provided \cup {pass.cluster}
  /\ pass' = NoPass
  /\ UNCHANGED <<settings, secrets, pods, had, interrupted, edits, faults>>

CreateMachines ==
  /\ pass # NoPass /\ ~InTree /\ pass.rest = <<>>
  /\ provided' = provided \cup {pass.cluster}
  /\ pass' = NoPass
  /\ UNCHANGED <<settings, secrets, pods, had, interrupted, edits, faults>>

-----------------------------------------------------------------------------
(* The KinkMachine controller and users.                                   *)

\* A pass of the KinkMachine controller (module Machine) creates pods.
CreatePods(c) ==
  /\ c \in provided
  /\ pods' = [pods EXCEPT ![c] = @ \cup Templates(settings[c])]
  /\ UNCHANGED <<settings, secrets, pass, provided, had, interrupted, edits, faults>>

Edit(c, s) ==
  /\ edits > 0 /\ edits' = edits - 1
  /\ s # settings[c]
  /\ settings' = [settings EXCEPT ![c] = s]
  /\ had' = [had EXCEPT ![c] = @ \cup {s}]
  /\ UNCHANGED <<secrets, pass, provided, pods, interrupted, faults>>

Next ==
  \/ \E c \in Clusters : Begin(c) \/ CreatePods(c) \/ \E s \in Settings : Edit(c, s)
  \/ \E kind \in Kinds : Ensure(kind) \/ Interrupt(kind)
  \/ CreateMachines

Spec == Init /\ [][Next]_vars

-----------------------------------------------------------------------------
(* Correctness.                                                            *)

\* The types of the variables; a Cluster has had the settings it has.
TypeOK ==
  /\ settings \in [Clusters -> Settings]
  /\ secrets \in [SecretNames -> Secret \cup {Absent}]
  /\ pass # NoPass => pass \in Pass
  /\ provided \subseteq Clusters
  /\ pods \in [Clusters -> SUBSET UNION {Templates(s) : s \in Settings}]
  /\ had \in [Clusters -> SUBSET Settings]
  /\ \A c \in Clusters : settings[c] \in had[c]
  /\ interrupted \subseteq Clusters
  /\ edits \in 0..MaxEdits
  /\ faults \in 0..MaxFaults

\* Another Cluster, or another kind, gives a Secret the same name.
Shared(c, kind) ==
  \E d \in Clusters, other \in Kinds :
    d # c /\ SecretName(d, other) = SecretName(c, kind)

Stored(c, kind) == secrets[SecretName(c, kind)]

\* OwnSecrets: a Cluster that has machines has every Secret, made for it and for
\* what it is used for, unless the Secret's name is also one of another Cluster
\* in the namespace: a Secret is looked up by a name in which the Cluster's and
\* the certificate's run together, and never looked into.
OwnSecrets ==
  \A c \in provided, kind \in Kinds :
    /\ Stored(c, kind) # Absent
    /\ ~Shared(c, kind) => Stored(c, kind).cluster = c /\ Stored(c, kind).kind = kind

\* MountsStored: of a Cluster that has pods every Secret they mount is stored, by
\* the names the templates make up on their own, so that no pod waits for one for
\* ever; and the certificates they mount verify against the CAs they mount, unless
\* two passes had to share the work or a name is shared with another Cluster.
MountsStored ==
  \A c \in Clusters : pods[c] # {} =>
    /\ \A kind \in Mounts :
         SecretName(c, kind) \in SecretNames /\ Stored(c, kind) # Absent
    /\ \A cert, ca \in Mounts \cap DOMAIN CertMap :
         /\ CertMap[cert] = ca
         /\ c \notin interrupted /\ ~Shared(c, cert) /\ ~Shared(c, ca)
         => Stored(c, cert).signer = Stored(c, ca).signer

NeverMalformed(c) == \A s \in had[c] : Range(s) # Malformed
NeverEdited(c) == had[c] = {settings[c]}

\* KubeconfigServes: with the stored kubeconfig a client trusts the stored
\* certificate of the API server, and trusts it for the host it is told to connect
\* to, whatever is edited while a pass runs or after: unless two passes had to share
\* the work (and the host is right even then, if the Cluster was not edited); the
\* Cluster had a malformed service range; or a name is shared with another Cluster.
KubeconfigServes ==
  \A c \in provided :
    LET kubeconfig == Stored(c, "kubeconfig")
        server == Stored(c, "apiserver")
    IN (\A kind \in {"ca", "apiserver", "kubeconfig"} : ~Shared(c, kind)) =>
          /\ c \notin interrupted => kubeconfig.signer = server.signer
          /\ NeverMalformed(c) /\ (c \notin interrupted \/ NeverEdited(c)) =>
               kubeconfig.names \subseteq server.names

\* PodsCovered: what runs in the cluster reaches the API server at the first
\* address of the service range that the pods are given; the stored certificate
\* names that address, the same for all of them, unless the Cluster was edited or
\* its range malformed.
PodsCovered ==
  \A c \in Clusters :
    NeverEdited(c) /\ NeverMalformed(c) /\ ~Shared(c, "apiserver") =>
      \A pod \in pods[c] : Service(pod.range) \in Stored(c, "apiserver").names
=============================================================================
