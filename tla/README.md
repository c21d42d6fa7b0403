# Kink, specified

TLA+ specifications of [Kink](../src/README.md), a Cluster API provider that runs
the control planes of Kubernetes clusters as pods of another one. The system is
three controllers, built with controller-runtime; each is a loop that reads
objects from a cache, compares them with what is asked for and writes what is
missing. Their hard part is not what one pass does but what many passes do, over
caches that lag behind, with failing writes, edits and restarts in between.

## Inventory

| Part | Source | State | Operations | Interaction |
|---|---|---|---|---|
| KinkControlPlane controller | `controllers/controlplane/kinkcontrolplane_controller.go` | KinkControlPlane, Cluster, KinkMachines; the work queue; the local variables of the pass | read, gate on the Cluster, certificates, list, create and delete machines, count and write the status | creates KinkMachines; woken by its own object, the machines and Secrets it owns, and the Cluster that refers to it |
| Certificate manager | `controllers/controlplane/secrets/` | seven Secrets per cluster; the keys in memory | build the tree of CAs and leaves, get-or-create each Secret, get-or-create the kubeconfig | called by every pass of the KinkControlPlane controller; the pods mount the Secrets, clients use the kubeconfig |
| KinkMachine controller | `controllers/infrastructure/kinkmachine_controller.go` | KinkMachine, its pods, the etcd Service | read, list pods, create the missing ones, create the Service, write ready | its ready is what the KinkControlPlane controller counts; woken by its own object and its pods |
| Templates | `controllers/infrastructure/templates/` | none | make a pod or a Service | their labels are read back by the KinkMachine controller; they mount the certificate manager's Secrets and repeat its service range |
| KinkCluster controller | `controllers/infrastructure/kinkcluster_controller.go` | KinkCluster | set ready | Cluster API reads it and marks the Cluster, which opens the gate of the KinkControlPlane controller |
| API types | `apis/` | none | fields; two versions | what users may ask for; an edit through `v1alpha1` drops what that version lacks |
| Manager | `main.go` | the process | starts the controllers with cached reads | the controllers share one process and its caches: what ends one ends all |

What is hard in them, and what has to be right:

* *Stale caches.* Every Get and List is answered by an informer cache, every write
  goes to the API server. A pass may not see what the one before it did.
* *Missed wake-ups.* Nothing polls. A pass that leaves something undone is repeated
  only if it returns an error or a later event queues it.
* *Partial failure.* Loops of several writes are left in the middle, or go on.
* *Overtaking.* Objects are edited, deleted and created anew while a pass works.
* *Restarts.* What a pass had in memory, above all its keys, is gone.
* *Random order.* Templates, certificates and lists come in the order of Go maps and
  of caches.
* *Two hands.* What one controller stores once (certificates, a kubeconfig), another
  one has to match for ever (the pods), and each makes up names and defaults itself.

For the KinkControlPlane controller that means: as many machines as replicas and a
status that counts them, whenever there is nothing left to do; no status written
for another spec; ready never without a machine of its own that was. For the
certificates: one chain of trust, complete before any machine is created, for names
at which clients find the API server. For the KinkMachine controller: a pod per role
and no second one, and not ready when one does not run. For all of them together:
nothing before the infrastructure was ready, everything after, and bad news all the
way up. `PROJECT.json` lists every hazard at its line with the properties that cover
it, or says why none does.

## Modules

`Informer` is how a controller sees the objects of a kind: a *stream* of contents
whose first is the cached one and whose last is the stored one; between them are the
watch events on their way. `Write` appends, `Deliver` drops the first, `Relist` (a
restart) keeps the last. It stands for controller-runtime and the API server, which
are not in the repository.

`ControlPlaneTypes` has the objects of the KinkControlPlane controller and
`ReplicaControl` its *abstract specification*, in terms of what is stored alone:
users ask, machines come to run and get lost, the controller creates, deletes and
reports, and it comes to rest only when its `Promise` is kept (as many machines as
replicas, unless it is excused by a failed write it ignored, and a status that counts
them; ready only for an incarnation that had a ready machine).

`ControlPlane` is the KinkControlPlane controller. `pc` says what the running pass
does next, `pass` holds its local variables, `queued` is the work queue for the one
request there is. Each early return of `Reconcile` is an action (`GetNothing`,
`GetNoCluster`, `WaitForCluster`); `Begin` passes the gate, `EnsurePki` stands for
the certificates, `ListMachines` for the List and what the loops will do,
`CreateMachine`, `DeleteMachine` and their failing forms for one turn of a loop, and
`UpdateStatus` or `UpdateFails` for the end. `Panic` is the index -1 that a negative
replica count runs into. `DeliverKcp`, `DeliverCluster`, `DeliverMachines` are the
watches of `SetupWithManager`, with `ClusterToKinkCtrlPlane` as `Refers`. The rest of
the world edits, deletes and re-creates the KinkControlPlane, changes the Cluster,
loses machines, makes them ready or not and collects orphans. A re-created
KinkControlPlane has another uid, and the machines of the first still carry the label.
`v1alpha1` has no `spec.replicas`, so an edit through it leaves `Nil`.

`ControlPlane` implements `ReplicaControl` (`KeepsItsPromise`) under this mapping:

| `ReplicaControl` | `ControlPlane` |
|---|---|
| `kcp`, `machines` | `Stored(kcp)`, `Stored(machines)` |
| `engaged` | `LetThrough`: the stored Cluster is open, and refers to the KinkControlPlane |
| `excused` | `swallowed`: the last pass to scale ignored a failed write |
| `atRest` | `Settled`: no pass, nothing queued, no event on its way |
| `witnessed`, `born` | themselves |

`Certificates` is the certificate manager within such a pass. Every pass generates
every key anew, so a key is known by the pass that made it, its *generation*; a
Secret holds one. A leaf in memory was signed by the CA in memory, whatever is
stored. `KinkCerts` holds the certificates and the tree as operators, and where in
the tree a pass is (`Turn`, `After`); `CertTree` is the loop that builds the tree in
the random order of a map.

`TrustStore` is the *abstract specification* of the certificate manager, in terms of
what is stored: a Secret is stored once, with a key that `Fits` those stored before
it, and never changed; users delete some; the controller goes on to the machines
only when nothing is missing that nobody deleted. No cache, no order, no keys in
memory. `Certificates` implements it (`KeepsTrust`) under this mapping:

| `TrustStore` | `Certificates` |
|---|---|
| `Keys` | `Gens` |
| `secrets` | `Stored(secrets)` |
| `lost` | itself |
| `mixed` | `interrupted`: some pass ended between two certificates |
| `goneOn` | `pc = "machines"` |

`Serving` is about what the certificate manager and the templates say to each other,
for several Clusters in one namespace which users edit. A Secret has a name (the words
of the Cluster's and of the kind's, which run together), and the certificate of the
API server and the kubeconfig have the names they are for (`getAPIServerAltNames`,
the endpoint). A pod has the service range its template gave it (`ApiServerPod`,
`SchedulerPod`, `ControllerManagerPod`) and mounts the Secrets of `Mounts`; which
files of them its command line names is left out. Caches are left out here, `Certificates` has them.

`Machine` is the KinkMachine controller for one machine. The code asks of its pods
whether there is one with a label and whether any does not run, so the model keeps,
for each template, the set of states its pods are in. `Label` is what a template
writes, and for the scheduler that is `apiserver`. The etcd Service has one name per
cluster; it is this machine's, another's, or missing.

`Kink` composes the three controllers. It extends `ControlPlane`, whose machines and
Cluster are now written by those who write them: `SetReady`, its failures and
`GetNoKinkCluster` are the KinkCluster controller, whose KinkCluster users create,
edit and delete, and create anew, never ready (`readied` remembers that one was); `SetupPods` and `UpdateMachine` with their failures are
a pass of the KinkMachine controller, coarser than in `Machine` (the pods of a machine
are one set of states); `CopyInfrastructure` is Cluster API. Every pass stores a pod
there, for no pass finds the scheduler's, and every pod stored has its event, which
queues its machine again even if the states are what they were (`EventOf`). The machines have one
informer that both controllers watch (`DeliverMachinesToBoth`), and when the process
ends, by a crash or by the panic of one, all passes are gone and everything is listed
and queued again (`ProcessEnds`). A machine that somebody else writes outdates the
pass that works for it, whose update will conflict.

`MC*` modules give names to constants; every run has a `.cfg`. The `*Proofs` modules
hold the proofs. Operators that follow "(Bug: ...)" are mutated forms of the
definition after them, with which the property named for them in `PROJECT.json` fails.

A read of a cache and the write that follows it are one step. That loses nothing: a
change between the two could as well have come before the read, with its event
after the write. A write that fails without effect, one that conflicts and one that
succeeds are told apart; in `Certificates`, `Machine`, `Serving` and for the pods of
`Kink` a failed write may have had its effect as well.

## Runs

| Run | Shows |
|---|---|
| `controlplane` | The safety of the KinkControlPlane controller. At rest: `SettledReplicas`, `SettledStatus`. Always: `ReadyWitnessed`, `StatusOfCurrentSpec`, `CloserWhenClean`. And `KeepsItsPromise`: it implements `ReplicaControl` |
| `controlplane_live` | `Converges`: when users and faults are done the desired state is reached and kept, with no resync, unless the last pass swallowed a failure or the Cluster has no reference. `ResyncRecovers`: with the periodic resync, in those cases too |
| `certtree` | `OrderIndependent`, `ErrorIffUnknown`: the tree, or the error, does not depend on the order of the map, over every map of four certificates |
| `certificates` | `ReturnedComplete`, `KubeconfigTrusted`, `ChainIntact`: stale caches never mix generations, the kubeconfig trusts the stored CA, and no machine is created before the Secrets are there. `KeepsTrust`: it implements `TrustStore`. `Provisioned`: they all get stored |
| `serving` | `OwnSecrets`: a Cluster uses its own Secrets unless the names meet. `MountsStored`: no pod mounts what is never stored, and the certificates it mounts verify against the CAs it mounts. `KubeconfigServes`, `PodsCovered`: the API server's certificate is good for the host of the kubeconfig, and for the address its pods give it |
| `machine` | `OneEachWhenClean`: no second pod from an up-to-date list. `Provisioned`: pods and the Service come, and go with the machine. `DownReported`: a pod that does not run is noticed |
| `kink` | `InfraFirst`: no machine and no pod before the infrastructure was ready, across three controllers and their caches, whoever deletes what. `KeepsItsPromise` again, with the real neighbours |
| `kink_live` | `Starts`: a cluster with an endpoint comes to have pods. `DownPropagates`: pods that do not run come to be reported by the KinkControlPlane |

Four runs end in a counterexample. Each checks a sentence of the repository:

| Run | Sentence | What happens |
|---|---|---|
| `never_further` | "closer to the desired state" (comment of `Reconcile`) | A pass lists a cache that lacks the machines of the pass before and creates them again; a later one deletes the surplus |
| `chain_consistent` | "certs signed by the CAs" (`cert.go:194`) | The pass stops after a CA; the next one generates another CA, drops it since one is stored, and signs the missing leaves with it |
| `ready_is_serving` | Ready is the API server "ready to receive requests" (`kinkmachine_types.go:52`) | The pods were just created and the cache shows none: none is found not running, and the machine is ready |
| `api_server_provisioned` | "until the desired state is reached" (`README.md:52`) | The scheduler's pod is stored, the pass fails; from then on it is taken for the apiserver's, which is never created |

What the properties have to leave out is worth as much as what they say:

* A Create or Delete that fails is logged and the pass succeeds. The status may not
  change, so no event comes, and the controller rests with too few machines or too
  many until the informers resync: `~swallowed` in `SettledReplicas`, `Converges` and
  `Starts`, and `ResyncRecovers`.
* A Cluster that does not refer to the KinkControlPlane never wakes it (`Refers`).
* A pass that shares the work on the Secrets with another one, after an interruption,
  may leave a chain that does not verify (`interrupted` in `ChainIntact`,
  `KubeconfigServes`, `MountsStored`); an edit in between may leave a kubeconfig for
  another host.
* A Cluster named after another one with the suffix `-front-proxy` takes that one's
  front proxy CA for its own CA, or the other way round (`Shared`):
  the Secret is looked up by its name, whoever comes later takes what is there, and
  signs what is missing with a CA that is stored nowhere.
* With a malformed service range the certificate is stored without any name, the
  endpoint's included (`NeverMalformed`):
  the error is ignored (`cert.go:298`), and no Secret is ever updated.
* A list that is stale has `CloserWhenClean` and `OneEachWhenClean` say nothing:
  `never_further` shows what a pass does then, and the properties about rest that the
  machines come right again. Pods do not: a pass that follows another one too soon
  creates them a second time under generated names (`kinkmachine_controller.go:97`),
  and no pass deletes one.
* An edit through `v1alpha1` takes the replicas away, and `Converges` then asks for
  what nil asks for: that it should not is not something this code could promise.
* No pass of the KinkMachine controller finds a scheduler's pod, so every pass creates
  one, and its event queues the next pass (`OneEachWhenClean` is about the labels the
  other templates write). New pods do not run yet, so that a machine may be
  reported not ready ever again, and no property promises that good news arrives.

### Bounds

`MaxLag` bounds the events in flight per kind; one is enough for a pass to miss
what the pass before wrote, and a pass with several writes waits in between, which
only removes the longer lags. `MaxEvents` (in `Serving`, `MaxEdits`) and `MaxFaults`
bound what others do and what fails; the shortest behaviours that break a property
need one fault, or a deletion, a re-creation and one machine that turns ready, which
is three events.

* `controlplane`: three machines, one more than the replicas, so that a stale pass
  overshoots, with one name that is used again; replicas 2 or -1; three events, one
  fault. Machine names are symmetric; no liveness run uses symmetry.
* `controlplane_live`: two machines, replicas 2, -1 or left out, two events, one fault.
* `kink`: one machine, replicas 1 or -1, one event, one fault. Each of the three
  controllers is on its own bounds elsewhere; what this run adds is how they hand on,
  in every order, about 2 million states. Creating the KinkCluster and giving it its
  endpoint, Cluster API and what pods do count as no event, deleting it does.
* `kink_live`: the same without further events, 181 thousand states.
* `machine`: three of the four roles: the controller-manager's template differs from
  etcd's in nothing the model keeps. `ready_is_serving` and
  `api_server_provisioned` have all four, and `MachineProofs` both.
* `certificates`: `MaxGens` is more than the generations that faults and losses leave
  stored at a time, and the run has no deadlock, so no pass ever lacked a fresh one.
  A Secret is lost at most once.
* `serving`: two Clusters whose names meet, `c` and `c-front-proxy`; no service
  block, two, or a malformed one, and two hosts; an edit and a fault. With one fault
  three passes store something, so of six keys there is always one to begin with.

### Fairness

The worker of a controller takes the next step of its pass, and a queued request is
taken (`WF` of `Reconcile` or `Work`): one goroutine runs the passes, and each call
returns. In `Kink` the passes have strong fairness, as a stream that is full
(`MaxLag`) has them wait again and again, which no real stream does. Watch events are
delivered (`WF` of the `Deliver` actions): an informer keeps its watch open or lists
again. The garbage collector works (`WF` of `Collect`, `CollectPods`), and Cluster API
copies what the KinkCluster says (`WF` of `CopyInfrastructure`). Nobody has to edit,
fail, restart, run a pod or resync; only `ResyncRecovers` assumes `WF` of `Resync`,
which the manager's default of ten hours justifies. `Converges` and `ResyncRecovers`
assume `Timely`, that from some time on the events of the machines arrive before the
next pass lists them. Without it a cache that is always one step behind has the
controller create and delete for ever. `Starts` and `DownPropagates` do without.

## Proofs

What is proved holds for every value of the constants that satisfies their
assumptions, all of which TLC evaluates:

* bounds that are numbers, and names for "none" that are no object;
* in `ControlPlane` finitely many machines and any replicas (`MachinesAssumption`,
  `ReplicasAssumption`);
* in `Certificates` a certificate map whose tree is one level deep, has a `ca` and names
  no CA that it lacks (`CertMapAssumption`), which `GetCerts` is;
* in `Serving` a map whose names are all known and which has what the pods mount, Clusters
  whose names are sequences of words (`NamesAssumption`) and settings with the two fields
  that are read;
* in `Machine` the four roles or those without the controller-manager
  (`RolesAssumption`);
* in `Kink` a Cluster that starts out new (`NewClusterAssumption`).

`InformerProofs` has the lemmas about streams that the others cite: what a write, a
delivery and a relist leave cached, stored, lagging and anywhere along the stream.

### The KinkControlPlane controller

`ControlPlaneProofs`:

* `TypeCorrect`: `Spec => []TypeOK`.
* `StatusWritesAreCurrent`: a pass that is not `stale` holds the stored
  KinkControlPlane (`PassCurrent`), and only such a pass writes a status.
* `ReadyIsWitnessed`: by `Credited`, every version of the KinkControlPlane on its way
  that is ready, and every ready machine on its way, has a witness. The versions in
  between are needed, as the pass reads the oldest and writes the newest.
* `RestHasStatus` and `RestHasReplicas`: a controller that is at rest has had, since
  the last event, a pass that ended well. The invariants say what a pass
  has yet to do as a relation between what it listed, what it did and what is stored
  (`LoopsIntact`), with every deviation covered by an event on its way, a queued
  request, or `swallowed`.
* `CleanPassesMoveCloser`: as long as a pass is `clean` the stored machines, those to
  create and those to delete balance to the replicas (`LoopsBounded`).
* `ControlPlaneKeepsItsPromise`, `Spec => KeepsItsPromise`: first states are first
  states; each step either changes nothing stored and is a `Stir`, a `Rest` or a
  stutter, or is one of the users', the machines' or the reporting steps of
  `ReplicaControl`. A step into rest is a `Rest` since the theorems about rest have
  `AtRestKept` hold there; a report is one since the status it writes counts machines
  that there may have been and is witnessed; `AllBorn` has every version on its way
  belong to an incarnation there was.

That the abstract controller keeps its promise needs no theorem: it rests only when it
has. What is proved is that the code's controller is one.

### The certificates

`CertTreeProofs` proves `TypeCorrect`, `TreeIsTheMaps` (`OrderIndependent`) and
`UnknownIsAnError` (`ErrorIffUnknown`) for every certificate map in every order. By
its invariant, `Progress`, the certificates the loop has come to have a known CA or
none, and the tree so far is the map's tree restricted to them.

`CertificatesProofs` proves `TypeCorrect`, `KubeconfigIsTrusted`, `ReturnedIsComplete`
and `ChainIsIntact`, from one inductive invariant: along its stream a Secret nobody
deleted is absent or what is stored (`Stays`: Secrets are created and never updated);
what the pass has passed is stored (`Past`); and the chain grows (`Growing`): as long
as no pass was interrupted and no certificate lost, a CA that is stored has all its
leaves stored and signed by it, but for those of the pass that is creating them. The
last part is why the generations do not mix even if the cache is stale: a CA that is
not cached but stored makes the Create fail before any leaf is signed.

The same invariant gives `CertificatesKeepTrust`, `Spec => KeepsTrust`. Every step
stores one Secret, loses one, or leaves what is stored (`StepKinds`); what is stored
fits (`CreatedFits`): a leaf by `Growing`, a kubeconfig since the CA its pass read from
the cache is by `Stays` the stored one; and a step to the machines finds all there by
`Past`. `TrustIsKept` then needs nothing but `TrustStore`: where things are only ever
added that fit, what verified once verifies for good.

`ServingProofs` proves `TypeCorrect`, `SecretsAreOwn` (`OwnSecrets`), `MountsAreStored`,
`KubeconfigIsServed` (`KubeconfigServes`) and `PodsAreCovered`, for any number of
Clusters with any names. None of the four is inductive; the invariant remembers where
things come from. A Secret is stored under the name of the Cluster and the kind it was
made for, which may not be that of the Cluster that reads it, and names what that
Cluster's settings were at some time (`Made`); what a pass has passed is stored
(`Past`, with `Passes` for where a pass can be); a kubeconfig was signed by the CA that
is stored (`Signed`); a Cluster no pass failed for has Secrets of one key and one
setting (`OnePass`); and pods follow machines, their templates settings (`Covered`).
That the names of one Cluster's Secrets are apart (`NamesApart`) is a lemma about the
words they are made of; that those of two Clusters are not is why the properties
excuse `Shared`.

### The KinkMachine controller, and all three together

`MachineProofs` proves `TypeCorrect` and `NoSecondWhenClean` (`OneEachWhenClean`): in
a pass whose list was, and but for its own pods still is, what is stored, a role still
to create has no pod but a mislabelled scheduler (`Unfound`).

`KinkProofs` proves `KinkTypeCorrect` and `InfrastructureFirst` (`InfraFirst`) for any
number of machines, on the type lemmas of `ControlPlaneProofs`. `Gated` says: every
version of the Cluster that is open, on its way or stored, and every pass beyond the
gate, implies that a KinkCluster was ready and the Cluster is marked; and until then
nothing of a control plane is stored, on its way, or in the hands of a pass.
`TaskCurrent`, that a pass of the KinkMachine controller which nothing outdated works
for a stored machine, is what keeps its update from bringing a deleted machine back.

What `ControlPlaneProofs` shows with an environment that may do anything holds with the
other controllers in its place: `KinkKeepsItsPromise` (`KeepsItsPromise`),
`KinkRestsWhenDone` (`SettledReplicas`, `SettledStatus`, `ReadyWitnessed`),
`KinkStatusIsCurrent` (`StatusOfCurrentSpec`) and `KinkMovesCloser` (`CloserWhenClean`).
That is no substitution, for `Kink` does not imply the specification of `ControlPlane`:
its KinkMachine controller and Cluster API write what and when the environment there
may not (a machine as often as its pods change, the Cluster with no bound on events). So
`ControlPlaneInv`, the invariant of `ControlPlane`, is shown to survive those steps too
(`AsideStep`, `CopyStep`, `UpdateMachineStep`), and each to be a step of
`ReplicaControl` or none. `UpdateMachineStep` is where `TaskCurrent` is needed again: the
machine it writes is there, and of the same owner, so that nobody's replicas change.

### Only model-checked

Every safety invariant and action property of the passing runs, and every refinement,
is proved. The properties under fairness (`Converges`, `ResyncRecovers`, `Starts`,
`DownPropagates`, `DownReported` and both `Provisioned`) are out of the proof system's
reach, as are `ENABLED` and induction over data; TLC checks them. That the pass of the
KinkMachine controller in `Kink` is a coarser `Machine` is a choice of the model, which
no theorem relates to the finer one.

## Not modelled

* `status.pods` of a KinkMachine: `lookupOrSetupServices` clears what
  `lookupOrSetupPods` fills, so it is always stored empty. That the map it is made
  from has the address of a loop variable as its values (`kinkmachine_controller.go:119`)
  therefore shows nowhere.
* Subjects, usages and key formats of certificates, their DNS names, and command lines
  beyond the service range they name. The files they name are configuration without
  any state, and no property speaks of them, which is not to say that they are right:
  the controller-manager is told to read `/etc/kubernetes/pki/ca.crt` and others, and
  `controller-manager.conf` (`controller-manager.go:71-84`), none of which is where its
  pod mounts a Secret (`util.go:71-74`), and the API server to use the front proxy's CA
  as its client certificate.
* Of `v1alpha1` everything but the field it lacks: the other kinds have the same spec
  in both versions.
* `KinkMachineTemplate`, which no controller reads, and deep copies, which are
  generated and in a model the identity.
* Flags, health probes and leader election, which are controller-runtime's.
