--------------------------- MODULE ServingProofs ---------------------------
(***************************************************************************)
(* Theorems of module Serving, for any Clusters, however their names run   *)
(* into each other, any certificate map that has what the pods mount, any  *)
(* settings and all bounds.                                                *)
(*                                                                         *)
(* The invariant, in parts: Made, that a Secret holds what some pass for   *)
(* the Cluster it was made for puts into it; Past, that what a pass has    *)
(* passed is stored; Signed, that a kubeconfig has the stored CA; OnePass, *)
(* that a Cluster no pass failed for has the Secrets of a single pass; and *)
(* Covered, that pods follow machines, and templates the settings.         *)
(***************************************************************************)
EXTENDS Serving, TLAPS

\* What a Secret of the kind names that is made with the settings.
NamesOf(kind, s) ==
  CASE kind = "apiserver" -> AltNames(s)
    [] kind = "kubeconfig" -> {Host(s)}
    [] OTHER -> {}

\* What the pass has still to come to.
Todo ==
  pass.cas \cup pass.leaves \cup {c \in DOMAIN CertMap : CertMap[c] \in pass.cas}
    \cup CASE pass.rest = <<"sa", "kubeconfig">> -> {"sa", "kubeconfig"}
           [] pass.rest = <<"kubeconfig">> -> {"kubeconfig"}
           [] OTHER -> {}

\* The pass runs, works with settings the Cluster has had, and comes to the tree
\* first.
Passes ==
  pass # NoPass =>
    /\ pass.settings \in had[pass.cluster]
    /\ pass.cluster \notin provided
    /\ pass.cas \cup pass.leaves \subseteq DOMAIN CertMap
    /\ pass.rest \in {<<"sa", "kubeconfig">>, <<"kubeconfig">>, <<>>}
    /\ InTree => pass.rest = <<"sa", "kubeconfig">>

\* A Secret is stored by its name, and names what the settings were at some time.
Made ==
  \A n \in SecretNames : secrets[n] # Absent =>
    /\ n = SecretName(secrets[n].cluster, secrets[n].kind)
    /\ \E s \in had[secrets[n].cluster] : secrets[n].names = NamesOf(secrets[n].kind, s)

\* What the pass has passed is stored, and so is everything after the last one.
Past ==
  /\ pass # NoPass =>
       \A kind \in Kinds \ Todo : Stored(pass.cluster, kind) # Absent
  /\ \A c \in provided, kind \in Kinds : Stored(c, kind) # Absent

\* A kubeconfig was signed by the CA that is stored.
Signed ==
  \A n \in SecretNames : secrets[n] # Absent /\ secrets[n].kind = "kubeconfig" =>
    /\ Stored(secrets[n].cluster, "ca") # Absent
    /\ secrets[n].signer = Stored(secrets[n].cluster, "ca").signer

\* The Secrets made for a Cluster are of one key and one setting.
Fits(c, key, s) ==
  \A n \in SecretNames : secrets[n] # Absent /\ secrets[n].cluster = c =>
    /\ secrets[n].kind # "kubeconfig" => secrets[n].signer = key
    /\ secrets[n].names = NamesOf(secrets[n].kind, s)

Running(c) == pass # NoPass /\ pass.cluster = c

OnePass ==
  \A c \in Clusters \ interrupted :
    /\ c \notin provided /\ ~Running(c) =>
         \A n \in SecretNames : secrets[n] # Absent => secrets[n].cluster # c
    /\ Running(c) => Fits(c, pass.key, pass.settings)
    /\ c \in provided => \E key \in Keys, s \in had[c] : Fits(c, key, s)

\* Pods are those of machines, and their templates were made from some settings.
Covered ==
  \A c \in Clusters :
    /\ pods[c] # {} => c \in provided
    /\ \A pod \in pods[c] : \E s \in had[c] : pod \in Templates(s)

IInv == TypeOK /\ Passes /\ Made /\ Past /\ Signed /\ OnePass /\ Covered

-----------------------------------------------------------------------------
(* Names, and what a pass makes.                                           *)

\* Tuples are sequences.
LEMMA Tuples ==
  ASSUME NEW S
  PROVE  /\ \A a \in S : <<a>> \in Seq(S) /\ Len(<<a>>) = 1
         /\ \A a, b \in S : <<a, b>> \in Seq(S) /\ Len(<<a, b>>) = 2
         /\ \A a, b, c \in S : <<a, b, c>> \in Seq(S) /\ Len(<<a, b, c>>) = 3
  OBVIOUS

\* Within a cluster the names of the Secrets are apart.
LEMMA NamesApart ==
  ASSUME NEW c \in Clusters, NEW k, NEW l, SecretName(c, k) = SecretName(c, l)
  PROVE  k = l
<1>1. c \in Seq(STRING)
  BY NamesAssumption
<1> DEFINE S(x) == {x, "kubelet", "client", "front", "proxy", "ca"}
<1>2. ASSUME NEW x PROVE Words(x) \in Seq(S(x)) /\ Len(Words(x)) \in 1..3
  <2>1. /\ x \in S(x) /\ "kubelet" \in S(x) /\ "client" \in S(x)
        /\ "front" \in S(x) /\ "proxy" \in S(x) /\ "ca" \in S(x)
    OBVIOUS
  <2>2. \/ Words(x) = <<x>> \/ Words(x) = <<"kubelet", "client">>
        \/ Words(x) = <<"front", "proxy", "ca">>
        \/ Words(x) = <<"front", "proxy", "client">>
    BY DEF Words
  <2>3. Words(x) \in Seq(S(x)) /\ Len(Words(x)) \in {1, 2, 3}
    BY <2>1, <2>2, Tuples, Zenon
  <2> QED
    BY <2>3
<1>3. Len(Words(k)) = Len(Words(l))
  BY <1>1, <1>2 DEF SecretName
<1>4. \A i \in 1..Len(Words(k)) : Words(k)[i] = Words(l)[i]
  <2> SUFFICES ASSUME NEW i \in 1..Len(Words(k)) PROVE Words(k)[i] = Words(l)[i]
    OBVIOUS
  <2> DEFINE j == Len(c) + i
  <2>1. (c \o Words(k))[j] = Words(k)[i] /\ (c \o Words(l))[j] = Words(l)[i]
    BY <1>1, <1>2, <1>3
  <2> QED
    BY <2>1 DEF SecretName
<1> QED
  BY <1>3, <1>4 DEF Words

LEMMA PassIsOne == \A p \in Pass : p # NoPass
  BY DEF Pass, NoPass

\* The kinds that are named.
LEMMA KindsThere ==
  /\ {"ca", "apiserver", "sa", "kubeconfig"} \subseteq Kinds
  /\ "ca" \in DOMAIN CertMap
  BY CertMapAssumption DEF Kinds, Mounts

LEMMA NamesTyped ==
  \A s \in Settings : \A kind : NamesOf(kind, s) \subseteq AllNames
  BY DEF NamesOf, AltNames, AllNames, Range

LEMMA NamesArePass == \A kind : Names(kind) = NamesOf(kind, pass.settings)
  BY DEF Names, NamesOf

\* A name is one of a Cluster and a kind.
LEMMA NameOfKind == \A c \in Clusters, kind \in Kinds : SecretName(c, kind) \in SecretNames
  BY DEF SecretNames

\* Where a pass goes.
LEMMA AdvanceFields ==
  ASSUME TypeOK, Passes, NEW kind \in Kinds, Due(kind), Advance(kind)
  PROVE  /\ pass \in Pass /\ pass' \in Pass
         /\ pass'.cluster = pass.cluster /\ pass'.settings = pass.settings
         /\ pass'.key = pass.key
         /\ pass'.cas \cup pass'.leaves \subseteq DOMAIN CertMap
         /\ pass'.rest \in {<<"sa", "kubeconfig">>, <<"kubeconfig">>, <<>>}
         /\ InTree' => pass'.rest = <<"sa", "kubeconfig">>
         /\ Todo \ {kind} \subseteq Todo'
<1>1. pass \in Pass /\ pass # NoPass
  BY DEF TypeOK, Due
<1>2. CASE InTree
  <2>1. kind \in DOMAIN CertMap /\ pass.rest = <<"sa", "kubeconfig">>
    BY <1>1, <1>2 DEF Due, Turn, Passes
  <2>2. Leaves(CertMap, kind) \subseteq DOMAIN CertMap /\ DOMAIN CertMap \subseteq Kinds
    BY DEF Leaves, Kinds
  <2>3. pass' = After(CertMap, pass, kind)
    BY <1>2 DEF Advance
  <2>4. CASE pass.leaves = {}
    <3>1. pass' = [pass EXCEPT !.cas = @ \ {kind}, !.leaves = Leaves(CertMap, kind)]
      BY <2>3, <2>4 DEF After
    <3>2. /\ pass' \in Pass
          /\ pass'.cluster = pass.cluster /\ pass'.settings = pass.settings
          /\ pass'.key = pass.key /\ pass'.rest = pass.rest
          /\ pass'.cas = pass.cas \ {kind} /\ pass'.leaves = Leaves(CertMap, kind)
      BY <1>1, <2>2, <3>1 DEF Pass
    <3>3. Todo \ {kind} \subseteq Todo'
      BY <2>4, <3>2 DEF Todo, Leaves
    <3> QED
      BY <1>1, <2>1, <2>2, <3>2, <3>3 DEF Passes
  <2>5. CASE pass.leaves # {}
    <3>1. pass' = [pass EXCEPT !.leaves = @ \ {kind}]
      BY <2>3, <2>5 DEF After
    <3>2. /\ pass' \in Pass
          /\ pass'.cluster = pass.cluster /\ pass'.settings = pass.settings
          /\ pass'.key = pass.key /\ pass'.rest = pass.rest
          /\ pass'.cas = pass.cas /\ pass'.leaves = pass.leaves \ {kind}
      BY <1>1, <3>1 DEF Pass
    <3>3. Todo \ {kind} \subseteq Todo'
      BY <3>2 DEF Todo
    <3> QED
      BY <1>1, <2>1, <3>2, <3>3 DEF Passes
  <2> QED
    BY <2>4, <2>5
<1>3. CASE ~InTree
  <2>1. kind = pass.rest[1] /\ pass.rest # <<>> /\ pass' = [pass EXCEPT !.rest = Tail(@)]
    BY <1>3 DEF Due, Advance
  <2>2. pass.cas = {} /\ pass.leaves = {}
    BY <1>3 DEF InTree
  <2>3. \/ pass.rest = <<"sa", "kubeconfig">> /\ kind = "sa"
        \/ pass.rest = <<"kubeconfig">> /\ kind = "kubeconfig"
    BY <1>1, <2>1 DEF Passes
  <2>4. Tail(<<"sa", "kubeconfig">>) = <<"kubeconfig">> /\ Tail(<<"kubeconfig">>) = <<>>
    OBVIOUS
  <2>5. Tail(pass.rest) \in {<<"kubeconfig">>, <<>>} /\ Tail(pass.rest) \in Seq(Kinds)
    <3>1. <<"kubeconfig">> \in Seq(Kinds) /\ <<>> \in Seq(Kinds)
      BY KindsThere, Tuples
    <3> QED
      BY <2>3, <2>4, <3>1, Zenon
  <2>6. /\ pass' \in Pass
        /\ pass'.cluster = pass.cluster /\ pass'.settings = pass.settings
        /\ pass'.key = pass.key /\ pass'.rest = Tail(pass.rest)
        /\ pass'.cas = {} /\ pass'.leaves = {}
    BY <1>1, <2>1, <2>2, <2>5 DEF Pass
  <2>7. Todo \ {kind} \subseteq Todo'
    BY <2>2, <2>3, <2>4, <2>6 DEF Todo
  <2>8. ~InTree'
    BY <2>6 DEF InTree
  <2> QED
    BY <1>1, <2>5, <2>6, <2>7, <2>8
<1> QED
  BY <1>2, <1>3

\* The Secret of the kind that the pass makes.
New(kind) ==
  [cluster |-> pass.cluster, kind |-> kind, signer |-> Signer(kind), names |-> Names(kind)]

\* When the turn of the kubeconfig comes the CA is stored.
LEMMA CAFirst ==
  ASSUME TypeOK, Passes, Past, Due("kubeconfig")
  PROVE  Current("ca") # Absent
<1>1. pass \in Pass /\ pass # NoPass
  BY DEF TypeOK, Due
<1>2. ~InTree
  BY <1>1, CertMapAssumption DEF Due, Turn, Passes
<1>3. pass.rest = <<"kubeconfig">>
  BY <1>1, <1>2 DEF Due, Passes
<1>4. "ca" \notin Todo
  BY <1>2, <1>3 DEF Todo, InTree
<1> QED
  BY <1>1, <1>4, KindsThere DEF Past, Current, Stored

\* A pass stores what it makes, where nothing is, or nothing.
LEMMA Writes ==
  ASSUME TypeOK, Passes, Past, NEW kind \in Kinds, Due(kind),
         UNCHANGED secrets \/ (Current(kind) = Absent /\ Store(kind))
  PROVE  /\ pass \in Pass /\ pass # NoPass
         /\ New(kind) \in Secret
         /\ secrets' \in [SecretNames -> Secret \cup {Absent}]
         /\ \A n \in SecretNames : secrets[n] # Absent => secrets'[n] = secrets[n]
         /\ \A n \in SecretNames : \/ secrets'[n] = secrets[n]
                                   \/ /\ n = SecretName(pass.cluster, kind)
                                      /\ secrets'[n] = New(kind)
<1>1. pass \in Pass /\ pass # NoPass
  BY DEF TypeOK, Due
<1>2. SecretName(pass.cluster, kind) \in SecretNames
  BY <1>1, NameOfKind DEF Pass
<1>3. Signer(kind) \in Keys
  <2>1. CASE kind = "kubeconfig"
    <3>1. SecretName(pass.cluster, "ca") \in SecretNames
      BY <1>1, KindsThere, NameOfKind DEF Pass
    <3> QED
      BY <2>1, <3>1, CAFirst DEF Signer, Current, TypeOK, Secret
  <2>2. CASE kind # "kubeconfig"
    BY <1>1, <2>2 DEF Signer, Pass
  <2> QED
    BY <2>1, <2>2
<1>4. Names(kind) \subseteq AllNames
  BY <1>1, NamesTyped, NamesArePass DEF Pass
<1>5. New(kind) \in Secret
  BY <1>1, <1>3, <1>4 DEF New, Secret, Pass
<1>6. CASE UNCHANGED secrets
  BY <1>1, <1>5, <1>6 DEF TypeOK
<1>7. CASE Current(kind) = Absent /\ Store(kind)
  <2>1. secrets' = [secrets EXCEPT ![SecretName(pass.cluster, kind)] = New(kind)]
    BY <1>7 DEF Store, New
  <2>2. secrets \in [SecretNames -> Secret \cup {Absent}]
    BY DEF TypeOK
  <2> QED
    BY <1>1, <1>2, <1>5, <1>7, <2>1, <2>2 DEF Current
<1> QED
  BY <1>6, <1>7

\* The same of a step of the pass.
LEMMA PassWrites ==
  ASSUME TypeOK, Passes, Past, NEW kind \in Kinds, Ensure(kind) \/ Interrupt(kind)
  PROVE  /\ pass \in Pass /\ pass # NoPass
         /\ New(kind) \in Secret
         /\ secrets' \in [SecretNames -> Secret \cup {Absent}]
         /\ \A n \in SecretNames : secrets[n] # Absent => secrets'[n] = secrets[n]
         /\ \A n \in SecretNames : \/ secrets'[n] = secrets[n]
                                   \/ /\ n = SecretName(pass.cluster, kind)
                                      /\ secrets'[n] = New(kind)
<1>1. Due(kind) /\ (UNCHANGED secrets \/ (Current(kind) = Absent /\ Store(kind)))
  BY DEF Ensure, Interrupt
<1> QED
  BY <1>1, Writes

-----------------------------------------------------------------------------
(* Types, and where the pass is.                                           *)

LEMMA TemplatesTyped == \A s \in Settings : Templates(s) \subseteq UNION {Templates(t) : t \in Settings}
  OBVIOUS

LEMMA InitType == Init => TypeOK
<1> SUFFICES ASSUME Init PROVE TypeOK
  OBVIOUS
<1>1. edits \in 0..MaxEdits /\ faults \in 0..MaxFaults
  BY BoundsAssumption DEF Init
<1> QED
  BY <1>1 DEF Init, TypeOK

LEMMA StepType == TypeOK /\ Passes /\ Past /\ [Next]_vars => TypeOK'
<1> SUFFICES ASSUME TypeOK, Passes, Past, [Next]_vars PROVE TypeOK'
  OBVIOUS
<1>1. ASSUME NEW c \in Clusters, Begin(c) PROVE TypeOK'
  <2>1. PICK key \in Keys :
          pass' = [cluster |-> c, settings |-> settings[c], key |-> key,
                   cas |-> CAs(CertMap), leaves |-> {}, rest |-> <<"sa", "kubeconfig">>]
    BY <1>1 DEF Begin
  <2>2. settings[c] \in Settings /\ CAs(CertMap) \subseteq Kinds
    BY DEF TypeOK, CAs, Kinds
  <2>3. <<"sa", "kubeconfig">> \in Seq(Kinds)
    BY KindsThere, Tuples
  <2>4. pass' \in Pass
    BY <2>1, <2>2, <2>3 DEF Pass
  <2> QED
    BY <1>1, <2>4 DEF Begin, TypeOK
<1>2. ASSUME NEW c \in Clusters, CreatePods(c) PROVE TypeOK'
  <2>1. settings[c] \in Settings
    BY DEF TypeOK
  <2>2. pods' \in [Clusters -> SUBSET UNION {Templates(s) : s \in Settings}]
    BY <1>2, <2>1, TemplatesTyped DEF CreatePods, TypeOK
  <2> QED
    BY <1>2, <2>2 DEF CreatePods, TypeOK
<1>3. ASSUME NEW c \in Clusters, NEW s \in Settings, Edit(c, s) PROVE TypeOK'
  <2>1. edits' \in 0..MaxEdits
    BY <1>3, BoundsAssumption DEF Edit, TypeOK
  <2> QED
    BY <1>3, <2>1 DEF Edit, TypeOK
<1>4. ASSUME NEW kind \in Kinds, Ensure(kind) PROVE TypeOK'
  <2>1. pass' \in Pass
    BY <1>4, AdvanceFields DEF Ensure
  <2>2. secrets' \in [SecretNames -> Secret \cup {Absent}]
    BY <1>4, PassWrites
  <2> QED
    BY <1>4, <2>1, <2>2 DEF Ensure, TypeOK
<1>5. ASSUME NEW kind \in Kinds, Interrupt(kind) PROVE TypeOK'
  <2>1. secrets' \in [SecretNames -> Secret \cup {Absent}] /\ pass.cluster \in Clusters
    BY <1>5, PassWrites DEF Pass
  <2>2. faults' \in 0..MaxFaults
    BY <1>5, BoundsAssumption DEF Interrupt, TypeOK
  <2> QED
    BY <1>5, <2>1, <2>2 DEF Interrupt, TypeOK
<1>6. CASE CreateMachines
  BY <1>6 DEF CreateMachines, TypeOK, Pass
<1>7. CASE UNCHANGED vars
  BY <1>7 DEF vars, TypeOK
<1> QED
  BY <1>1, <1>2, <1>3, <1>4, <1>5, <1>6, <1>7 DEF Next

LEMMA PassesStep == TypeOK /\ Passes /\ [Next]_vars => Passes'
<1> SUFFICES ASSUME TypeOK, Passes, [Next]_vars PROVE Passes'
  OBVIOUS
<1>1. ASSUME NEW c \in Clusters, Begin(c) PROVE Passes'
  <2>1. PICK key \in Keys :
          pass' = [cluster |-> c, settings |-> settings[c], key |-> key,
                   cas |-> CAs(CertMap), leaves |-> {}, rest |-> <<"sa", "kubeconfig">>]
    BY <1>1 DEF Begin
  <2>2. CAs(CertMap) \subseteq DOMAIN CertMap
    BY DEF CAs
  <2>3. settings[c] \in had[c] /\ c \notin provided /\ had' = had /\ provided' = provided
    BY <1>1 DEF TypeOK, Begin
  <2> QED
    BY <2>1, <2>2, <2>3 DEF Passes
<1>2. ASSUME NEW c \in Clusters, CreatePods(c) PROVE Passes'
  BY <1>2 DEF CreatePods, Passes, InTree
<1>3. ASSUME NEW c \in Clusters, NEW s \in Settings, Edit(c, s) PROVE Passes'
  <2>1. \A d \in Clusters : had[d] \subseteq had'[d]
    BY <1>3 DEF Edit, TypeOK
  <2>2. pass # NoPass => pass.cluster \in Clusters
    BY DEF TypeOK, Pass
  <2> QED
    BY <1>3, <2>1, <2>2 DEF Edit, Passes, InTree
<1>4. ASSUME NEW kind \in Kinds, Ensure(kind) PROVE Passes'
  BY <1>4, AdvanceFields DEF Ensure, Due, Passes
<1>5. ASSUME NEW kind \in Kinds, Interrupt(kind) PROVE Passes'
  BY <1>5 DEF Interrupt, Passes
<1>6. CASE CreateMachines
  BY <1>6 DEF CreateMachines, Passes
<1>7. CASE UNCHANGED vars
  BY <1>7 DEF vars, Passes, InTree
<1> QED
  BY <1>1, <1>2, <1>3, <1>4, <1>5, <1>6, <1>7 DEF Next

-----------------------------------------------------------------------------
(* What is stored.                                                         *)

LEMMA MadeStep == TypeOK /\ Passes /\ Past /\ Made /\ [Next]_vars => Made'
<1> SUFFICES ASSUME TypeOK, Passes, Past, Made, [Next]_vars PROVE Made'
  OBVIOUS
<1>1. ASSUME NEW kind \in Kinds, Ensure(kind) \/ Interrupt(kind) PROVE Made'
  <2> SUFFICES ASSUME NEW n \in SecretNames, secrets'[n] # Absent
               PROVE  /\ n = SecretName(secrets'[n].cluster, secrets'[n].kind)
                      /\ \E s \in had'[secrets'[n].cluster] :
                           secrets'[n].names = NamesOf(secrets'[n].kind, s)
    BY DEF Made
  <2>1. had' = had
    BY <1>1 DEF Ensure, Interrupt
  <2>2. CASE secrets'[n] = secrets[n]
    BY <2>1, <2>2 DEF Made
  <2>3. CASE n = SecretName(pass.cluster, kind) /\ secrets'[n] = New(kind)
    <3>1. pass.settings \in had[pass.cluster]
      BY <1>1, PassWrites DEF Passes
    <3>2. /\ secrets'[n].cluster = pass.cluster /\ secrets'[n].kind = kind
          /\ secrets'[n].names = NamesOf(kind, pass.settings)
      BY <2>3, NamesArePass DEF New
    <3> QED
      BY <2>1, <2>3, <3>1, <3>2
  <2> QED
    BY <1>1, <2>2, <2>3, PassWrites
<1>2. ASSUME NEW c \in Clusters, NEW s \in Settings, Edit(c, s) PROVE Made'
  <2>1. \A d \in Clusters : had[d] \subseteq had'[d]
    BY <1>2 DEF Edit, TypeOK
  <2>2. secrets' = secrets /\ \A n \in SecretNames : secrets[n] # Absent => secrets[n].cluster \in Clusters
    BY <1>2 DEF Edit, TypeOK, Secret
  <2> QED
    BY <2>1, <2>2 DEF Made
<1>3. CASE UNCHANGED <<secrets, had>>
  BY <1>3 DEF Made
<1> QED
  BY <1>1, <1>2, <1>3 DEF Next, Begin, CreatePods, CreateMachines, vars

\* In the beginning everything is to come to, and at the end nothing.
LEMMA AllTodo ==
  \A c \in DOMAIN CertMap : c \in CAs(CertMap) \/ CertMap[c] \in CAs(CertMap)
  BY CertMapAssumption DEF AllKnown, CAs

LEMMA PastStep == TypeOK /\ Passes /\ Past /\ [Next]_vars => Past'
<1> SUFFICES ASSUME TypeOK, Passes, Past, [Next]_vars PROVE Past'
  OBVIOUS
<1>1. ASSUME NEW c \in Clusters, Begin(c) PROVE Past'
  <2>1. PICK key \in Keys :
          pass' = [cluster |-> c, settings |-> settings[c], key |-> key,
                   cas |-> CAs(CertMap), leaves |-> {}, rest |-> <<"sa", "kubeconfig">>]
    BY <1>1 DEF Begin
  <2>2. Todo' = Kinds
    <3>1. pass'.cas = CAs(CertMap) /\ pass'.leaves = {} /\ pass'.rest = <<"sa", "kubeconfig">>
      BY <2>1
    <3>2. CAs(CertMap) \subseteq DOMAIN CertMap
      BY DEF CAs
    <3> QED
      BY <3>1, <3>2, AllTodo DEF Todo, Kinds
  <2> QED
    BY <1>1, <2>2 DEF Begin, Past, Stored
<1>2. ASSUME NEW kind \in Kinds, Ensure(kind) PROVE Past'
  <2>1. /\ pass' \in Pass /\ pass'.cluster = pass.cluster /\ Todo \ {kind} \subseteq Todo'
        /\ provided' = provided
    BY <1>2, AdvanceFields DEF Ensure
  <2>2. pass \in Pass /\ pass # NoPass /\ pass.cluster \in Clusters
    BY <1>2, PassWrites DEF Pass
  <2>3. SecretName(pass.cluster, kind) \in SecretNames
    BY <2>2, NameOfKind
  <2>4. secrets'[SecretName(pass.cluster, kind)] # Absent
    <3>1. CASE Current(kind) # Absent
      BY <1>2, <2>3, <3>1, PassWrites DEF Current
    <3>2. CASE Current(kind) = Absent
      <4>1. secrets' = [secrets EXCEPT ![SecretName(pass.cluster, kind)] = New(kind)]
        BY <1>2, <3>2 DEF Ensure, Store, New
      <4> QED
        BY <1>2, <2>3, <4>1, PassWrites, AbsentAssumption DEF TypeOK
    <3> QED
      BY <3>1, <3>2
  <2>5. \A c \in Clusters, k \in Kinds : Stored(c, k) # Absent => Stored(c, k)' # Absent
    BY <1>2, NameOfKind, PassWrites DEF Stored
  <2>6. \A k \in Kinds \ Todo' : Stored(pass.cluster, k)' # Absent
    BY <2>1, <2>2, <2>4, <2>5 DEF Past, Stored
  <2>7. provided \subseteq Clusters
    BY DEF TypeOK
  <2> QED
    BY <2>1, <2>5, <2>6, <2>7 DEF Past, Stored
<1>3. ASSUME NEW kind \in Kinds, Interrupt(kind) PROVE Past'
  <2>1. \A c \in Clusters, k \in Kinds : Stored(c, k) # Absent => Stored(c, k)' # Absent
    BY <1>3, NameOfKind, PassWrites DEF Stored
  <2> QED
    BY <1>3, <2>1 DEF Interrupt, Past, TypeOK
<1>4. CASE CreateMachines
  <2>1. Todo = {}
    BY <1>4 DEF CreateMachines, Todo, InTree
  <2> QED
    BY <1>4, <2>1 DEF CreateMachines, Past, Stored
<1>5. CASE UNCHANGED <<secrets, pass, provided>>
  BY <1>5 DEF Past, Todo, Stored
<1> QED
  BY <1>1, <1>2, <1>3, <1>4, <1>5 DEF Next, CreatePods, Edit, vars

LEMMA SignedStep == TypeOK /\ Passes /\ Past /\ Signed /\ [Next]_vars => Signed'
<1> SUFFICES ASSUME TypeOK, Passes, Past, Signed, [Next]_vars PROVE Signed'
  OBVIOUS
<1>1. ASSUME NEW kind \in Kinds, Ensure(kind) \/ Interrupt(kind) PROVE Signed'
  <2> SUFFICES ASSUME NEW n \in SecretNames, secrets'[n] # Absent,
                      secrets'[n].kind = "kubeconfig"
               PROVE  /\ secrets'[SecretName(secrets'[n].cluster, "ca")] # Absent
                      /\ secrets'[n].signer =
                           secrets'[SecretName(secrets'[n].cluster, "ca")].signer
    BY DEF Signed, Stored
  <2>1. \A c \in Clusters : Stored(c, "ca") # Absent =>
                            secrets'[SecretName(c, "ca")] = Stored(c, "ca")
    BY <1>1, PassWrites, KindsThere, NameOfKind DEF Stored
  <2>2. CASE secrets'[n] = secrets[n]
    <3>1. secrets[n].cluster \in Clusters
      BY <2>2 DEF TypeOK, Secret
    <3> QED
      BY <2>1, <2>2, <3>1 DEF Signed, Stored
  <2>3. CASE n = SecretName(pass.cluster, kind) /\ secrets'[n] = New(kind)
    <3>1. kind = "kubeconfig" /\ secrets'[n].cluster = pass.cluster
          /\ secrets'[n].signer = Signer(kind)
      BY <2>3 DEF New
    <3>2. Stored(pass.cluster, "ca") # Absent /\ pass.cluster \in Clusters
      BY <1>1, <3>1, CAFirst, PassWrites DEF Ensure, Interrupt, Current, Stored, Pass
    <3>3. Signer(kind) = Stored(pass.cluster, "ca").signer
      BY <3>1 DEF Signer, Current, Stored
    <3> QED
      BY <2>1, <3>1, <3>2, <3>3 DEF Stored
  <2> QED
    BY <1>1, <2>2, <2>3, PassWrites
<1>2. CASE UNCHANGED secrets
  BY <1>2 DEF Signed, Stored
<1> QED
  BY <1>1, <1>2 DEF Next, Begin, CreatePods, Edit, CreateMachines, vars

\* What a pass adds for its Cluster fits the rest; for others it adds nothing.
LEMMA AddsFitting ==
  ASSUME TypeOK, Passes, Past, NEW kind \in Kinds, Ensure(kind) \/ Interrupt(kind)
  PROVE  \A n \in SecretNames : secrets'[n] # Absent =>
           \/ secrets'[n] = secrets[n]
           \/ /\ secrets'[n].cluster = pass.cluster
              /\ secrets'[n].kind # "kubeconfig" => secrets'[n].signer = pass.key
              /\ secrets'[n].names = NamesOf(secrets'[n].kind, pass.settings)
<1>1. /\ New(kind).cluster = pass.cluster
      /\ New(kind).kind # "kubeconfig" => New(kind).signer = pass.key
      /\ New(kind).names = NamesOf(New(kind).kind, pass.settings)
  BY NamesArePass DEF New, Signer
<1> QED
  BY <1>1, PassWrites

LEMMA OnePassStep == TypeOK /\ Passes /\ Past /\ OnePass /\ [Next]_vars => OnePass'
<1> SUFFICES ASSUME TypeOK, Passes, Past, OnePass, [Next]_vars PROVE OnePass'
  OBVIOUS
<1>1. ASSUME NEW c \in Clusters, Begin(c) PROVE OnePass'
  <2>1. PICK key \in Keys :
          pass' = [cluster |-> c, settings |-> settings[c], key |-> key,
                   cas |-> CAs(CertMap), leaves |-> {}, rest |-> <<"sa", "kubeconfig">>]
    BY <1>1 DEF Begin
  <2>2. pass = NoPass /\ c \notin provided
        /\ UNCHANGED <<secrets, provided, had, interrupted>>
    BY <1>1 DEF Begin
  <2>3. pass'.cluster = c
    BY <2>1
  <2>4. c \notin interrupted => \A n \in SecretNames : secrets[n] # Absent => secrets[n].cluster # c
    BY <2>2 DEF OnePass, Running
  <2>5. c \notin interrupted => Fits(c, pass.key, pass.settings)'
    BY <2>2, <2>4 DEF Fits
  <2> QED
    BY <2>2, <2>3, <2>5 DEF OnePass, Running, Fits
<1>2. ASSUME NEW c \in Clusters, NEW s \in Settings, Edit(c, s) PROVE OnePass'
  <2>1. \A d \in Clusters : had[d] \subseteq had'[d]
    BY <1>2 DEF Edit, TypeOK
  <2> QED
    BY <1>2, <2>1 DEF Edit, OnePass, Running, Fits
<1>3. ASSUME NEW kind \in Kinds, Ensure(kind) PROVE OnePass'
  <2>1. /\ pass # NoPass /\ pass' # NoPass /\ pass'.cluster = pass.cluster
        /\ pass'.key = pass.key /\ pass'.settings = pass.settings
        /\ UNCHANGED <<provided, had, interrupted>>
    BY <1>3, AdvanceFields, PassIsOne DEF Ensure, Due
  <2>2. \A d \in Clusters : Running(d)' <=> Running(d)
    BY <2>1 DEF Running
  <2> SUFFICES ASSUME NEW d \in Clusters \ interrupted
               PROVE  /\ d \notin provided /\ ~Running(d) =>
                           \A n \in SecretNames : secrets'[n] # Absent => secrets'[n].cluster # d
                      /\ Running(d) => Fits(d, pass.key, pass.settings)'
                      /\ d \in provided => \E key \in Keys, s \in had[d] : Fits(d, key, s)'
    BY <2>1, <2>2 DEF OnePass, Fits
  <2>3. CASE d = pass.cluster
    <3>1. Fits(d, pass.key, pass.settings)
      BY <2>1, <2>3 DEF OnePass, Running
    <3>2. Fits(d, pass.key, pass.settings)'
      BY <1>3, <2>1, <3>1, AddsFitting DEF Fits
    <3> QED
      BY <2>1, <2>3, <3>2 DEF Passes, Running
  <2>4. CASE d # pass.cluster
    <3>1. \A n \in SecretNames : secrets'[n] # Absent /\ secrets'[n].cluster = d
             => secrets'[n] = secrets[n]
      BY <1>3, <2>4, AddsFitting
    <3> QED
      BY <2>4, <3>1 DEF OnePass, Running, Fits
  <2> QED
    BY <2>3, <2>4
<1>4. ASSUME NEW kind \in Kinds, Interrupt(kind) PROVE OnePass'
  <2>1. /\ pass # NoPass /\ pass' = NoPass /\ pass.cluster \in interrupted'
        /\ interrupted \subseteq interrupted'
        /\ UNCHANGED <<provided, had>>
    BY <1>4 DEF Interrupt, Due
  <2>2. \A d : ~Running(d)'
    BY <2>1 DEF Running
  <2> SUFFICES ASSUME NEW d \in Clusters \ interrupted, d # pass.cluster
               PROVE  /\ d \notin provided =>
                           \A n \in SecretNames : secrets'[n] # Absent => secrets'[n].cluster # d
                      /\ d \in provided => \E key \in Keys, s \in had[d] : Fits(d, key, s)'
    BY <2>1, <2>2 DEF OnePass
  <2>3. \A n \in SecretNames : secrets'[n] # Absent /\ secrets'[n].cluster = d
           => secrets'[n] = secrets[n]
    BY <1>4, AddsFitting
  <2> QED
    BY <2>3 DEF OnePass, Running, Fits
<1>5. CASE CreateMachines
  <2>1. /\ pass # NoPass /\ pass' = NoPass /\ provided' = provided \cup {pass.cluster}
        /\ UNCHANGED <<secrets, had, interrupted>>
    BY <1>5 DEF CreateMachines
  <2>2. pass.key \in Keys /\ pass.settings \in had[pass.cluster]
    BY <2>1 DEF TypeOK, Pass, Passes
  <2> QED
    BY <2>1, <2>2 DEF OnePass, Running, Fits
<1>6. CASE UNCHANGED <<secrets, pass, provided, had, interrupted>>
  BY <1>6 DEF OnePass, Running, Fits
<1> QED
  BY <1>1, <1>2, <1>3, <1>4, <1>5, <1>6 DEF Next, CreatePods, vars

LEMMA CoveredStep == TypeOK /\ Covered /\ [Next]_vars => Covered'
<1> SUFFICES ASSUME TypeOK, Covered, [Next]_vars PROVE Covered'
  OBVIOUS
<1>1. ASSUME NEW c \in Clusters, CreatePods(c) PROVE Covered'
  <2>1. c \in provided /\ settings[c] \in had[c] /\ provided' = provided /\ had' = had
    BY <1>1 DEF CreatePods, TypeOK
  <2>2. /\ pods'[c] = pods[c] \cup Templates(settings[c])
        /\ \A d \in Clusters \ {c} : pods'[d] = pods[d]
    BY <1>1 DEF CreatePods, TypeOK
  <2> QED
    BY <2>1, <2>2 DEF Covered
<1>2. ASSUME NEW c \in Clusters, NEW s \in Settings, Edit(c, s) PROVE Covered'
  <2>1. \A d \in Clusters : had[d] \subseteq had'[d]
    BY <1>2 DEF Edit, TypeOK
  <2> QED
    BY <1>2, <2>1 DEF Edit, Covered
<1>3. CASE provided \subseteq provided' /\ UNCHANGED <<pods, had>>
  BY <1>3 DEF Covered
<1> QED
  BY <1>1, <1>2, <1>3 DEF Next, Begin, Ensure, Interrupt, CreateMachines, vars

-----------------------------------------------------------------------------
(* The theorems.                                                           *)

LEMMA SpecIInv == Spec => []IInv
<1>1. Init => IInv
  <2> SUFFICES ASSUME Init PROVE IInv
    OBVIOUS
  <2>1. /\ \A n \in SecretNames : secrets[n] = Absent
        /\ pass = NoPass /\ provided = {} /\ \A c \in Clusters : pods[c] = {}
    BY DEF Init
  <2>2. Passes /\ Made /\ Past /\ Signed /\ OnePass /\ Covered
    BY <2>1 DEF Passes, Made, Past, Signed, OnePass, Running, Covered
  <2> QED
    BY <2>2, InitType DEF IInv
<1>2. IInv /\ [Next]_vars => IInv'
  BY StepType, PassesStep, MadeStep, PastStep, SignedStep, OnePassStep, CoveredStep DEF IInv
<1> QED
  BY <1>1, <1>2, PTL DEF Spec

\* TypeOK holds.
THEOREM TypeCorrect == Spec => []TypeOK
<1>1. IInv => TypeOK
  BY DEF IInv
<1> QED
  BY <1>1, SpecIInv, PTL

\* A Secret whose name is nobody else's was made for its Cluster and kind.
LEMMA OwnName ==
  ASSUME Made, TypeOK, NEW c \in Clusters, NEW kind \in Kinds,
         ~Shared(c, kind), Stored(c, kind) # Absent
  PROVE  /\ Stored(c, kind).cluster = c /\ Stored(c, kind).kind = kind
         /\ \E s \in had[c] : Stored(c, kind).names = NamesOf(kind, s)
<1> DEFINE n == SecretName(c, kind)
<1>1. n \in SecretNames /\ secrets[n] = Stored(c, kind)
  BY NameOfKind DEF Stored
<1>2. secrets[n] \in Secret /\ secrets[n].cluster \in Clusters /\ secrets[n].kind \in Kinds
  BY <1>1 DEF TypeOK, Secret
<1>3. n = SecretName(secrets[n].cluster, secrets[n].kind)
  BY <1>1 DEF Made
<1>4. secrets[n].cluster = c
  BY <1>2, <1>3 DEF Shared
<1>5. secrets[n].kind = kind
  BY <1>3, <1>4, NamesApart
<1> QED
  BY <1>1, <1>4, <1>5 DEF Made

\* OwnSecrets holds: a Cluster with machines has every Secret, and its own.
THEOREM SecretsAreOwn == Spec => []OwnSecrets
<1>1. IInv => OwnSecrets
  BY OwnName DEF IInv, OwnSecrets, Past, TypeOK
<1> QED
  BY <1>1, SpecIInv, PTL

\* A kind that is mounted and of the map is one a pass sees to, and no kubeconfig.
LEMMA MountedKinds ==
  /\ Mounts \subseteq Kinds
  /\ \A kind \in Mounts \cap DOMAIN CertMap : kind \in Kinds /\ kind # "kubeconfig"
  BY CertMapAssumption DEF Kinds

\* MountsStored holds: no pod waits for ever for a Secret it mounts, and what pods
\* mount of a Cluster that no pass failed for verifies against the CAs they mount.
THEOREM MountsAreStored == Spec => []MountsStored
<1>1. IInv => MountsStored
  <2> SUFFICES ASSUME IInv, NEW c \in Clusters, pods[c] # {}
               PROVE  /\ \A kind \in Mounts :
                           SecretName(c, kind) \in SecretNames /\ Stored(c, kind) # Absent
                      /\ \A cert, ca \in Mounts \cap DOMAIN CertMap :
                           /\ CertMap[cert] = ca
                           /\ c \notin interrupted /\ ~Shared(c, cert) /\ ~Shared(c, ca)
                           => Stored(c, cert).signer = Stored(c, ca).signer
    BY DEF MountsStored
  <2>1. c \in provided
    BY DEF IInv, Covered
  <2>2. \A kind \in Mounts : SecretName(c, kind) \in SecretNames /\ Stored(c, kind) # Absent
    BY <2>1, NameOfKind, MountedKinds DEF IInv, Past
  <2>3. ASSUME NEW kind \in Mounts \cap DOMAIN CertMap, NEW key, NEW s,
               Fits(c, key, s), ~Shared(c, kind)
        PROVE  Stored(c, kind).signer = key
    <3>1. Stored(c, kind).cluster = c /\ Stored(c, kind).kind = kind
      BY <2>2, <2>3, OwnName, MountedKinds DEF IInv
    <3> QED
      BY <2>2, <2>3, <3>1, MountedKinds DEF Fits, Stored
  <2>4. ASSUME c \notin interrupted PROVE \E key \in Keys, s \in had[c] : Fits(c, key, s)
    BY <2>1, <2>4 DEF IInv, OnePass
  <2> QED
    BY <2>2, <2>3, <2>4
<1> QED
  BY <1>1, SpecIInv, PTL

\* What the certificate of the API server and the kubeconfig name.
LEMMA ServingNames ==
  \A s : /\ NamesOf("apiserver", s) = AltNames(s)
         /\ NamesOf("kubeconfig", s) = {Host(s)}
         /\ Range(s) # Malformed => AltNames(s) = {Service(Range(s)), Host(s)}
  BY DEF NamesOf, AltNames

\* KubeconfigServes holds: a client with the stored kubeconfig trusts the stored
\* certificate of the API server.
THEOREM KubeconfigIsServed == Spec => []KubeconfigServes
<1>1. IInv => KubeconfigServes
  <2> SUFFICES ASSUME IInv, NEW c \in provided,
                      \A kind \in {"ca", "apiserver", "kubeconfig"} : ~Shared(c, kind)
               PROVE  /\ c \notin interrupted =>
                           Stored(c, "kubeconfig").signer = Stored(c, "apiserver").signer
                      /\ NeverMalformed(c) /\ (c \notin interrupted \/ NeverEdited(c)) =>
                           Stored(c, "kubeconfig").names \subseteq Stored(c, "apiserver").names
    BY DEF KubeconfigServes
  <2> USE DEF IInv
  <2>1. c \in Clusters
    BY DEF TypeOK
  <2>2. ASSUME NEW kind \in {"ca", "apiserver", "kubeconfig"}
        PROVE  /\ SecretName(c, kind) \in SecretNames
               /\ Stored(c, kind) = secrets[SecretName(c, kind)]
               /\ Stored(c, kind) # Absent
               /\ Stored(c, kind).cluster = c /\ Stored(c, kind).kind = kind
               /\ \E s \in had[c] : Stored(c, kind).names = NamesOf(kind, s)
    <3>1. kind \in Kinds
      BY KindsThere
    <3> QED
      BY <2>1, <3>1, OwnName, NameOfKind DEF Past, Stored
  <2>3. Stored(c, "kubeconfig").signer = Stored(c, "ca").signer
    BY <2>2 DEF Signed
  <2>4. CASE c \notin interrupted
    <3>1. PICK key \in Keys, s \in had[c] : Fits(c, key, s)
      BY <2>1, <2>4 DEF OnePass
    <3>2. /\ Stored(c, "ca").signer = key /\ Stored(c, "apiserver").signer = key
          /\ Stored(c, "apiserver").names = AltNames(s)
          /\ Stored(c, "kubeconfig").names = {Host(s)}
      BY <2>2, <3>1, ServingNames DEF Fits
    <3>3. NeverMalformed(c) => Host(s) \in AltNames(s)
      BY ServingNames DEF NeverMalformed
    <3> QED
      BY <2>3, <3>2, <3>3
  <2>5. CASE c \in interrupted
    <3> SUFFICES ASSUME NeverMalformed(c), NeverEdited(c)
                 PROVE  Stored(c, "kubeconfig").names \subseteq Stored(c, "apiserver").names
      BY <2>5
    <3>1. had[c] = {settings[c]}
      BY DEF NeverEdited
    <3>2. /\ Stored(c, "apiserver").names = AltNames(settings[c])
          /\ Stored(c, "kubeconfig").names = {Host(settings[c])}
      BY <2>2, <3>1, ServingNames
    <3>3. Host(settings[c]) \in AltNames(settings[c])
      BY <3>1, ServingNames DEF NeverMalformed
    <3> QED
      BY <3>2, <3>3
  <2> QED
    BY <2>4, <2>5
<1> QED
  BY <1>1, SpecIInv, PTL

\* PodsCovered holds: what runs in the cluster reaches the API server at an address
\* its certificate names.
THEOREM PodsAreCovered == Spec => []PodsCovered
<1>1. IInv => PodsCovered
  <2> SUFFICES ASSUME IInv, NEW c \in Clusters, NeverEdited(c), NeverMalformed(c),
                      ~Shared(c, "apiserver"), NEW pod \in pods[c]
               PROVE  Service(pod.range) \in Stored(c, "apiserver").names
    BY DEF PodsCovered
  <2> USE DEF IInv
  <2>1. had[c] = {settings[c]}
    BY DEF NeverEdited
  <2>2. c \in provided
    BY DEF Covered
  <2>3. Stored(c, "apiserver").names = AltNames(settings[c])
    BY <2>1, <2>2, OwnName, KindsThere, ServingNames DEF Past
  <2>4. pod.range = Range(settings[c])
    <3>1. pod \in Templates(settings[c])
      BY <2>1 DEF Covered
    <3> QED
      BY <3>1 DEF Templates, ApiServerPod, SchedulerPod, ControllerManagerPod, Range
  <2> QED
    BY <2>1, <2>3, <2>4, ServingNames DEF NeverMalformed
<1> QED
  BY <1>1, SpecIInv, PTL
=============================================================================
