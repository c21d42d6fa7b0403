------------------------- MODULE CertificatesProofs -------------------------
(***************************************************************************)
(* Theorems of module Certificates, for every certificate map whose tree   *)
(* is one level deep and for all bounds.                                   *)
(*                                                                         *)
(* The invariant, in parts: TypeOK; Stays, which says what a stale cache   *)
(* may still show; Past, that what a pass has passed is stored; and        *)
(* Growing, that the chain of the stored certificates grows whole.         *)
(***************************************************************************)
EXTENDS Certificates, InformerProofs

Dom == Gens \cup {Absent}

\* A Secret nobody deleted never changes: along the stream it is absent or what
\* is stored.
Stays ==
  \A s \in SecretNames \ lost, c \in Along(secrets) : c[s] \in {Absent, Stored(secrets)[s]}

\* The certificates the pass has still to come to.
Todo == pass.cas \cup pass.leaves \cup {c \in Certs : CertMap[c] \in pass.cas}

\* The Secret is stored, unless someone deleted it.
Kept(s) == s \in lost \/ Stored(secrets)[s] # Absent

\* The pass comes to the CAs of the tree, and what it has passed is stored.
Past ==
  /\ pass.cas \subseteq CAs(CertMap)
  /\ pc = "tree" => \A s \in Certs \ Todo : Kept(s)
  /\ pc \in {"sa", "kubeconfig", "machines"} => \A s \in Certs : Kept(s)
  /\ pc \in {"kubeconfig", "machines"} => Kept("sa")
  /\ pc = "machines" => Kept("kubeconfig")

\* A CA that is stored has all its leaves stored.
Whole(ca) ==
  Stored(secrets)[ca] # Absent =>
    \A l \in Leaves(CertMap, ca) : Stored(secrets)[l] # Absent

\* The chain grows: outside a pass that created something all CAs are whole; in
\* one, those to come that it did not create; and an absent leaf it is about to
\* come to has a CA of this pass.
Grown ==
  /\ Chain
  /\ pc # "tree" \/ ~pass.wrote => \A ca \in Certs : Whole(ca)
  /\ pc = "tree" => \A ca \in pass.cas : Stored(secrets)[ca] # pass.gen => Whole(ca)
  /\ pc = "tree" =>
       \A l \in pass.leaves : Stored(secrets)[l] = Absent =>
         CertMap[l] \in Certs /\ Stored(secrets)[CertMap[l]] = pass.gen

Growing == ~interrupted /\ lost \cap Certs = {} => Grown

-----------------------------------------------------------------------------
(* Types.                                                                  *)

LEMMA GensAreNotAbsent == \A g \in Gens : g # Absent
  BY CertBoundsAssumption DEF Gens, Absent

\* A field of a pass, updated with a value of its type, leaves a pass.
LEMMA PassTypes ==
  /\ NoPass \in Pass /\ NoPass.cas = {} /\ NoPass.leaves = {} /\ NoPass.wrote = FALSE
  /\ \A p \in Pass, w \in BOOLEAN, C \in SUBSET Certs, L \in SUBSET Certs, g \in Gens :
       /\ [p EXCEPT !.wrote = w] \in Pass
       /\ [p EXCEPT !.cas = C, !.leaves = L] \in Pass
       /\ [p EXCEPT !.leaves = L] \in Pass
       /\ [p EXCEPT !.gen = g, !.cas = C] \in Pass
  BY DEF Pass, NoPass

\* Going on to the next certificate: the fields of the pass afterwards.
LEMMA AfterFields ==
  ASSUME NEW p \in Pass, NEW s \in Certs
  PROVE  /\ After(CertMap, p, s) \in Pass
         /\ After(CertMap, p, s).gen = p.gen /\ After(CertMap, p, s).wrote = p.wrote
         /\ p.leaves = {} => /\ After(CertMap, p, s).cas = p.cas \ {s}
                             /\ After(CertMap, p, s).leaves = Leaves(CertMap, s)
         /\ p.leaves # {} => /\ After(CertMap, p, s).cas = p.cas
                             /\ After(CertMap, p, s).leaves = p.leaves \ {s}
<1>1. Leaves(CertMap, s) \subseteq Certs
  BY DEF Leaves, Certs
<1>2. p.cas \subseteq Certs /\ p.leaves \subseteq Certs
  BY DEF Pass
<1> QED
  BY <1>1, <1>2 DEF After, Pass

\* The same for the whole of Advance, in the tree and after it.
LEMMA AdvanceFields ==
  ASSUME TypeOK, NEW s \in SecretNames, Due(s), NEW w \in BOOLEAN, Advance(s, w)
  PROVE  /\ pass' \in Pass /\ pass'.gen = pass.gen /\ pass'.wrote = (pass.wrote \/ w)
         /\ pc = "tree" => /\ s \in Certs
                           /\ pass'.cas = After(CertMap, pass, s).cas
                           /\ pass'.leaves = After(CertMap, pass, s).leaves
                           /\ \/ pc' = "sa" /\ pass'.cas = {} /\ pass'.leaves = {}
                              \/ pc' = "tree"
         /\ pc # "tree" => /\ s = pc /\ pass'.cas = {} /\ pass'.leaves = {}
                           /\ \/ pc = "sa" /\ pc' = "kubeconfig"
                              \/ pc = "kubeconfig" /\ pc' = "machines"
<1>1. pass \in Pass
  BY DEF TypeOK
<1>2. CASE pc = "tree"
  <2>1. s \in Certs
    BY <1>2 DEF Due
  <2> DEFINE rest == After(CertMap, pass, s)
  <2>2. rest \in Pass /\ rest.gen = pass.gen /\ rest.wrote = pass.wrote
    BY <1>1, <2>1, AfterFields
  <2>3. pass' = [rest EXCEPT !.wrote = @ \/ w] /\ pc' = IF TreeDone(rest) THEN "sa" ELSE "tree"
    BY <1>2 DEF Advance
  <2> HIDE DEF rest
  <2>4. /\ pass' \in Pass /\ pass'.gen = rest.gen /\ pass'.wrote = (rest.wrote \/ w)
        /\ pass'.cas = rest.cas /\ pass'.leaves = rest.leaves
    BY <2>2, <2>3 DEF Pass
  <2>5. pc' = "tree" \/ (pc' = "sa" /\ rest.cas = {} /\ rest.leaves = {})
    BY <2>3 DEF TreeDone
  <2>6. rest = After(CertMap, pass, s)
    BY DEF rest
  <2> QED
    BY <1>2, <2>1, <2>2, <2>4, <2>5, <2>6
<1>3. CASE pc # "tree"
  <2>1. s = pc /\ pc \in {"sa", "kubeconfig"}
    BY <1>3 DEF Due
  <2>2. pass' = [pass EXCEPT !.wrote = @ \/ w]
    BY <1>3 DEF Advance
  <2>3. \/ pc = "sa" /\ pc' = "kubeconfig"
        \/ pc = "kubeconfig" /\ pc' = "machines"
    BY <2>1 DEF Advance
  <2>4. pass.cas = {} /\ pass.leaves = {}
    BY <1>3 DEF TypeOK
  <2>5. /\ pass' \in Pass /\ pass'.gen = pass.gen /\ pass'.wrote = (pass.wrote \/ w)
        /\ pass'.cas = pass.cas /\ pass'.leaves = pass.leaves
    BY <1>1, <2>2 DEF Pass
  <2> QED
    BY <1>3, <2>1, <2>3, <2>4, <2>5
<1> QED
  BY <1>2, <1>3

\* What a pass stores, and a write that changes one Secret.
LEMMA ContentWrite ==
  ASSUME NEW c \in Contents, NEW s \in SecretNames, NEW g \in Dom
  PROVE  /\ [c EXCEPT ![s] = g] \in Contents
         /\ [c EXCEPT ![s] = g][s] = g
         /\ \A t \in SecretNames \ {s} : [c EXCEPT ![s] = g][t] = c[t]
  BY DEF Contents, Dom

LEMMA StoreWrites ==
  ASSUME TypeOK, NEW s \in SecretNames, Creatable(s), Store(s)
  PROVE  /\ Generation(s) \in Gens
         /\ secrets' \in Streams(Contents)
         /\ Stored(secrets') = [Stored(secrets) EXCEPT ![s] = Generation(s)]
         /\ Along(secrets') \subseteq Along(secrets) \cup {Stored(secrets')}
<1>1. secrets \in Streams(Contents) /\ pass \in Pass
  BY DEF TypeOK
<1>2. Cached(secrets) \in Contents /\ Stored(secrets) \in Contents
  BY <1>1, StreamReads
<1>3. Generation(s) \in Gens
  <2>1. "ca" \in SecretNames
    BY CertMapAssumption DEF SecretNames, Certs, CAs
  <2>2. Cached(secrets)["ca"] \in Gens \cup {Absent} /\ pass.gen \in Gens \cup {Absent}
    BY <1>1, <1>2, <2>1 DEF Contents, Pass
  <2> QED
    BY <2>2 DEF Creatable, Generation
<1> DEFINE c == [Stored(secrets) EXCEPT ![s] = Generation(s)]
<1>4. c \in Contents
  BY <1>2, <1>3, ContentWrite DEF Dom
<1>5. secrets' = Write(secrets, c)
  BY DEF Store
<1> HIDE DEF c
<1>6. secrets' \in Streams(Contents) /\ Stored(secrets') = c
  BY <1>1, <1>4, <1>5, StreamWrite
<1>7. Along(secrets') \subseteq Along(secrets) \cup {c}
  BY <1>1, <1>4, <1>5, StreamAlong
<1> QED
  BY <1>3, <1>6, <1>7 DEF c

LEMMA LossWrites ==
  ASSUME TypeOK, NEW s \in SecretNames, LoseSecret(s)
  PROVE  /\ secrets' \in Streams(Contents)
         /\ Stored(secrets') = [Stored(secrets) EXCEPT ![s] = Absent]
         /\ Along(secrets') \subseteq Along(secrets) \cup {Stored(secrets')}
<1>1. secrets \in Streams(Contents)
  BY DEF TypeOK
<1>2. Stored(secrets) \in Contents
  BY <1>1, StreamReads
<1> DEFINE c == [Stored(secrets) EXCEPT ![s] = Absent]
<1>4. c \in Contents
  BY <1>2, ContentWrite DEF Dom
<1>5. secrets' = Write(secrets, c)
  BY DEF LoseSecret
<1> HIDE DEF c
<1>6. secrets' \in Streams(Contents) /\ Stored(secrets') = c
  BY <1>1, <1>4, <1>5, StreamWrite
<1>7. Along(secrets') \subseteq Along(secrets) \cup {c}
  BY <1>1, <1>4, <1>5, StreamAlong
<1> QED
  BY <1>6, <1>7 DEF c

\* Reordering nothing: what the actions that only move watch events do.
LEMMA SameStored ==
  ASSUME TypeOK, DeliverSecrets \/ Crash
  PROVE  /\ secrets' \in Streams(Contents)
         /\ Stored(secrets') = Stored(secrets)
         /\ Along(secrets') \subseteq Along(secrets)
<1>1. secrets \in Streams(Contents)
  BY DEF TypeOK
<1>2. Stored(secrets) \in Contents /\ Stored(secrets) \in Along(secrets)
  <2>1. Stored(secrets) \in Contents
    BY <1>1, StreamReads
  <2> QED
    BY <1>1, <2>1, StreamAlong
<1>3. CASE DeliverSecrets
  BY <1>1, <1>2, <1>3, StreamDeliver, StreamAlong DEF DeliverSecrets
<1>4. CASE Crash
  BY <1>1, <1>2, <1>4, StreamRelist, StreamAlong DEF Crash
<1> QED
  BY <1>3, <1>4

LEMMA InitType == Init => TypeOK
<1> SUFFICES ASSUME Init PROVE TypeOK
  OBVIOUS
<1>1. [s \in SecretNames |-> Absent] \in Contents
  BY DEF Contents
<1>2. secrets \in Streams(Contents)
  BY <1>1 DEF Init, Streams
<1>3. pass \in Pass /\ pass.cas = {} /\ pass.leaves = {}
  BY PassTypes DEF Init
<1>4. faults \in 0..MaxFaults
  BY CertBoundsAssumption DEF Init
<1> QED
  BY <1>2, <1>3, <1>4 DEF Init, TypeOK

\* An aborted pass leaves an idle controller.
LEMMA AbortTypes ==
  ASSUME TypeOK, NEW w \in BOOLEAN, Abort(w)
  PROVE  /\ queued' \in BOOLEAN /\ pc' = "idle" /\ pass' = NoPass
         /\ interrupted' \in BOOLEAN
BY DEF Abort, Interrupt, TypeOK, Pass

LEMMA NextType == TypeOK /\ [Next]_vars => TypeOK'
<1> SUFFICES ASSUME TypeOK, [Next]_vars PROVE TypeOK'
  OBVIOUS
<1>1. CASE Begin
  <2>1. PICK g \in Gens : pass' = [NoPass EXCEPT !.gen = g, !.cas = CAs(CertMap)]
    BY <1>1 DEF Begin
  <2>2. CAs(CertMap) \subseteq Certs
    BY DEF CAs, Certs
  <2>3. pass' \in Pass /\ pass'.gen = g
    BY <2>1, <2>2, PassTypes DEF NoPass
  <2> QED
    BY <1>1, <2>3, GensAreNotAbsent DEF Begin, TypeOK
<1>2. ASSUME NEW s \in SecretNames, Found(s) PROVE TypeOK'
  <2>1. Due(s) /\ Advance(s, FALSE)
    BY <1>2 DEF Found
  <2> QED
    BY <1>2, <2>1, AdvanceFields DEF Found, TypeOK, Due
<1>3. ASSUME NEW s \in SecretNames, Created(s) PROVE TypeOK'
  <2>1. Due(s) /\ Advance(s, TRUE) /\ Creatable(s) /\ Store(s)
    BY <1>3 DEF Created, Creatable
  <2>2. secrets' \in Streams(Contents)
    BY <2>1, StoreWrites
  <2> QED
    BY <1>3, <2>1, <2>2, AdvanceFields DEF Created, TypeOK, Due
<1>4. ASSUME NEW s \in SecretNames, CreateFails(s) PROVE TypeOK'
  <2>1. Creatable(s) /\ faults' \in 0..MaxFaults
    BY <1>4, CertBoundsAssumption DEF CreateFails, TypeOK
  <2>2. secrets' \in Streams(Contents)
    BY <1>4, <2>1, StoreWrites DEF CreateFails, TypeOK
  <2>3. PICK w \in BOOLEAN : Abort(w)
    BY <1>4 DEF CreateFails
  <2> QED
    BY <1>4, <2>1, <2>2, <2>3, AbortTypes, PassTypes DEF CreateFails, TypeOK
<1>5. ASSUME NEW s \in SecretNames, Refused(s) PROVE TypeOK'
  BY <1>5, AbortTypes, PassTypes DEF Refused, TypeOK
<1>6. CASE Finish
  BY <1>6, PassTypes DEF Finish, TypeOK
<1>7. CASE Crash
  <2>1. secrets' \in Streams(Contents)
    BY <1>7, SameStored
  <2>2. faults' \in 0..MaxFaults
    BY <1>7, CertBoundsAssumption DEF Crash, TypeOK
  <2> QED
    BY <1>7, <2>1, <2>2, AbortTypes, PassTypes DEF Crash, TypeOK
<1>8. CASE DeliverSecrets
  BY <1>8, SameStored DEF DeliverSecrets, TypeOK
<1>9. CASE Wake
  BY <1>9 DEF Wake, TypeOK
<1>10. ASSUME NEW s \in SecretNames, LoseSecret(s) PROVE TypeOK'
  BY <1>10, LossWrites DEF LoseSecret, TypeOK
<1>11. CASE UNCHANGED vars
  BY <1>11 DEF vars, TypeOK
<1> QED
  BY <1>1, <1>2, <1>3, <1>4, <1>5, <1>6, <1>7, <1>8, <1>9, <1>10, <1>11 DEF Next, Work

\* TypeOK: the types of the variables hold in every state.
THEOREM TypeCorrect == Spec => []TypeOK
<1>1. Init => TypeOK
  BY InitType
<1>2. TypeOK /\ [Next]_vars => TypeOK'
  BY NextType
<1> QED
  BY <1>1, <1>2, PTL DEF Spec

-----------------------------------------------------------------------------
(* What a step does to the Secrets.                                        *)

\* Contents along the stream, and what is stored, are contents.
LEMMA Reads ==
  ASSUME TypeOK
  PROVE  /\ Stored(secrets) \in Contents /\ Cached(secrets) \in Contents
         /\ Cached(secrets) \in Along(secrets) /\ Stored(secrets) \in Along(secrets)
         /\ Along(secrets) \subseteq Contents
<1>1. secrets \in Streams(Contents)
  BY DEF TypeOK
<1>2. Stored(secrets) \in Contents /\ Cached(secrets) \in Contents
  BY <1>1, StreamReads
<1> QED
  BY <1>1, <1>2, StreamAlong

\* One Secret is stored that was absent, with its generation.
StoredOne(s) ==
  /\ Stored(secrets)[s] = Absent /\ Stored(secrets')[s] = Generation(s)
  /\ Generation(s) \in Gens
  /\ \A t \in SecretNames \ {s} : Stored(secrets')[t] = Stored(secrets)[t]
  /\ Along(secrets') \subseteq Along(secrets) \cup {Stored(secrets')}

LEMMA StoreStoresOne ==
  ASSUME TypeOK, NEW s \in SecretNames, Creatable(s), Store(s)
  PROVE  StoredOne(s)
<1>1. Stored(secrets) \in Contents
  BY Reads
<1>2. /\ Generation(s) \in Gens
      /\ Stored(secrets') = [Stored(secrets) EXCEPT ![s] = Generation(s)]
      /\ Along(secrets') \subseteq Along(secrets) \cup {Stored(secrets')}
  BY StoreWrites
<1>3. Generation(s) \in Dom
  BY <1>2 DEF Dom
<1>4. Stored(secrets)[s] = Absent
  BY DEF Creatable
<1> DEFINE g == Generation(s)
<1> HIDE DEF g
<1>5. g \in Dom /\ Stored(secrets') = [Stored(secrets) EXCEPT ![s] = g]
  BY <1>2, <1>3 DEF g
<1>6. Stored(secrets')[s] = g /\ \A t \in SecretNames \ {s} : Stored(secrets')[t] = Stored(secrets)[t]
  BY <1>1, <1>5, ContentWrite
<1> QED
  BY <1>2, <1>4, <1>6 DEF StoredOne, g

LEMMA LossLosesOne ==
  ASSUME TypeOK, NEW s \in SecretNames, LoseSecret(s)
  PROVE  /\ \A t \in SecretNames \ {s} : Stored(secrets')[t] = Stored(secrets)[t]
         /\ lost' = lost \cup {s}
         /\ Along(secrets') \subseteq Along(secrets) \cup {Stored(secrets')}
<1>1. Stored(secrets) \in Contents
  BY Reads
<1>2. /\ Stored(secrets') = [Stored(secrets) EXCEPT ![s] = Absent]
      /\ Along(secrets') \subseteq Along(secrets) \cup {Stored(secrets')}
  BY LossWrites
<1>3. lost' = lost \cup {s} /\ Absent \in Dom
  BY DEF LoseSecret, Dom
<1> QED
  BY <1>1, <1>2, <1>3, ContentWrite

\* Every step stores one Secret, loses one, or stores and loses none.
StoredNone ==
  /\ Stored(secrets') = Stored(secrets) /\ Along(secrets') \subseteq Along(secrets)

LEMMA StepKinds ==
  ASSUME TypeOK, [Next]_vars
  PROVE  \/ StoredNone /\ lost' = lost
         \/ \E s \in SecretNames : Creatable(s) /\ Store(s) /\ lost' = lost
         \/ \E s \in SecretNames : LoseSecret(s)
<1>1. CASE DeliverSecrets \/ Crash
  <2>1. StoredNone
    BY <1>1, SameStored DEF StoredNone
  <2> QED
    BY <1>1, <2>1 DEF DeliverSecrets, Crash
<1>2. CASE UNCHANGED secrets /\ lost' = lost
  BY <1>2 DEF StoredNone
<1> QED
  BY <1>1, <1>2
  DEF Next, Work, Begin, Found, Created, CreateFails, Refused, Finish, Wake, vars

-----------------------------------------------------------------------------
(* What a stale cache may show.                                            *)

LEMMA NextStays == TypeOK /\ Stays /\ [Next]_vars => Stays'
<1> SUFFICES ASSUME TypeOK, Stays, [Next]_vars PROVE Stays'
  OBVIOUS
<1>1. CASE StoredNone /\ lost' = lost
  BY <1>1 DEF Stays, StoredNone
<1>2. ASSUME NEW s \in SecretNames, Creatable(s), Store(s), lost' = lost PROVE Stays'
  <2>1. StoredOne(s)
    BY <1>2, StoreStoresOne
  <2> SUFFICES ASSUME NEW t \in SecretNames \ lost, NEW c \in Along(secrets')
               PROVE  c[t] \in {Absent, Stored(secrets')[t]}
    BY <1>2 DEF Stays
  <2>2. CASE c = Stored(secrets')
    BY <2>2
  <2>3. CASE c \in Along(secrets)
    <3>1. c[t] \in {Absent, Stored(secrets)[t]}
      BY <2>3 DEF Stays
    <3> QED
      BY <2>1, <3>1 DEF StoredOne
  <2> QED
    BY <2>1, <2>2, <2>3 DEF StoredOne
<1>3. ASSUME NEW s \in SecretNames, LoseSecret(s) PROVE Stays'
  <2>1. /\ \A t \in SecretNames \ {s} : Stored(secrets')[t] = Stored(secrets)[t]
        /\ lost' = lost \cup {s}
        /\ Along(secrets') \subseteq Along(secrets) \cup {Stored(secrets')}
    BY <1>3, LossLosesOne
  <2> QED
    BY <2>1 DEF Stays
<1> QED
  BY <1>1, <1>2, <1>3, StepKinds

\* A Secret the cache shows and nobody deleted is stored as the cache shows it.
LEMMA CachedIsStored ==
  ASSUME TypeOK, Stays, NEW s \in SecretNames \ lost, Cached(secrets)[s] # Absent
  PROVE  Stored(secrets)[s] = Cached(secrets)[s]
BY Reads DEF Stays

-----------------------------------------------------------------------------
(* The kubeconfig and the CA.                                              *)

LEMMA NextTrusted ==
  TypeOK /\ Stays /\ KubeconfigTrusted /\ [Next]_vars => KubeconfigTrusted'
<1> SUFFICES ASSUME TypeOK, Stays, KubeconfigTrusted, [Next]_vars, "ca" \notin lost',
                    Stored(secrets')["kubeconfig"] # Absent
             PROVE  Stored(secrets')["kubeconfig"] = Stored(secrets')["ca"]
  BY DEF KubeconfigTrusted
<1>1. {"ca", "kubeconfig"} \subseteq SecretNames /\ "ca" # "kubeconfig"
  BY CertMapAssumption DEF SecretNames, Certs, CAs
<1>2. CASE StoredNone /\ lost' = lost
  BY <1>2 DEF KubeconfigTrusted, StoredNone
<1>3. ASSUME NEW s \in SecretNames, Creatable(s), Store(s), lost' = lost
      PROVE  Stored(secrets')["kubeconfig"] = Stored(secrets')["ca"]
  <2>1. StoredOne(s)
    BY <1>3, StoreStoresOne
  <2>2. CASE s = "kubeconfig"
    <3>1. Generation(s) = Cached(secrets)["ca"] /\ Cached(secrets)["ca"] # Absent
      BY <1>3, <2>2 DEF Creatable, Generation
    <3>2. Stored(secrets)["ca"] = Cached(secrets)["ca"]
      BY <1>1, <1>3, <3>1, CachedIsStored
    <3> QED
      BY <1>1, <2>1, <2>2, <3>1, <3>2 DEF StoredOne
  <2>3. CASE s # "kubeconfig"
    <3>1. Stored(secrets)["kubeconfig"] = Stored(secrets')["kubeconfig"]
      BY <1>1, <2>1, <2>3 DEF StoredOne
    <3>2. Stored(secrets)["kubeconfig"] = Stored(secrets)["ca"]
      BY <1>3, <3>1 DEF KubeconfigTrusted
    <3> QED
      BY <1>1, <2>1, <3>1, <3>2 DEF StoredOne
  <2> QED
    BY <2>2, <2>3
<1>4. ASSUME NEW s \in SecretNames, LoseSecret(s)
      PROVE  Stored(secrets')["kubeconfig"] = Stored(secrets')["ca"]
  <2>1. /\ \A t \in SecretNames \ {s} : Stored(secrets')[t] = Stored(secrets)[t]
        /\ lost' = lost \cup {s}
    BY <1>4, LossLosesOne
  <2>2. s # "kubeconfig"
    <3>1. Stored(secrets') = [Stored(secrets) EXCEPT ![s] = Absent]
      BY <1>4, LossWrites
    <3>2. Stored(secrets) \in Contents /\ Absent \in Dom
      BY Reads DEF Dom
    <3> QED
      BY <3>1, <3>2, ContentWrite
  <2> QED
    BY <1>1, <2>1, <2>2 DEF KubeconfigTrusted
<1> QED
  BY <1>2, <1>3, <1>4, StepKinds

-----------------------------------------------------------------------------
(* What a pass has passed.                                                 *)

\* No step but a loss takes a Secret away, and that one counts as kept.
LEMMA KeptStays ==
  ASSUME TypeOK, [Next]_vars, NEW t \in SecretNames, Kept(t)
  PROVE  Kept(t)'
<1>1. CASE StoredNone /\ lost' = lost
  BY <1>1 DEF Kept, StoredNone
<1>2. ASSUME NEW s \in SecretNames, Creatable(s), Store(s), lost' = lost PROVE Kept(t)'
  <2>1. StoredOne(s)
    BY <1>2, StoreStoresOne
  <2> QED
    BY <1>2, <2>1, GensAreNotAbsent DEF Kept, StoredOne
<1>3. ASSUME NEW s \in SecretNames, LoseSecret(s) PROVE Kept(t)'
  BY <1>3, LossLosesOne DEF Kept
<1> QED
  BY <1>1, <1>2, <1>3, StepKinds

\* The CAs of a tree of one level have none themselves.
LEMMA TreeCAs == \A c \in CAs(CertMap) : c \in Certs /\ CertMap[c] = NoCA
  BY CertMapAssumption DEF OneLevel, CAs, Certs

\* A pass that goes on from a Secret that is kept has passed what is kept.
LEMMA AdvancePast ==
  ASSUME TypeOK, Past, NEW s \in SecretNames, Due(s), NEW w \in BOOLEAN, Advance(s, w),
         Kept(s)', \A t \in SecretNames : Kept(t) => Kept(t)'
  PROVE  Past'
<1>1. CASE pc = "tree"
  <2>1. /\ s \in Certs
        /\ pass'.cas = After(CertMap, pass, s).cas
        /\ pass'.leaves = After(CertMap, pass, s).leaves
        /\ \/ pc' = "sa" /\ pass'.cas = {} /\ pass'.leaves = {}
           \/ pc' = "tree"
    BY <1>1, AdvanceFields
  <2>2. pass \in Pass
    BY DEF TypeOK
  <2>3. Todo \subseteq Todo' \cup {s}
    <3>1. CASE pass.leaves = {}
      <4>1. pass'.cas = pass.cas \ {s} /\ pass'.leaves = Leaves(CertMap, s)
        BY <2>1, <2>2, <3>1, AfterFields
      <4> QED
        BY <3>1, <4>1 DEF Todo, Leaves, Certs
    <3>2. CASE pass.leaves # {}
      <4>1. pass'.cas = pass.cas /\ pass'.leaves = pass.leaves \ {s}
        BY <2>1, <2>2, <3>2, AfterFields
      <4> QED
        BY <4>1 DEF Todo
    <3> QED
      BY <3>1, <3>2
  <2>4. \A c \in Certs \ Todo' : Kept(c)'
    <3> SUFFICES ASSUME NEW c \in Certs, c \notin Todo' PROVE Kept(c)'
      OBVIOUS
    <3>1. CASE c = s
      BY <3>1
    <3>2. CASE c # s
      <4>1. c \notin Todo
        BY <2>3, <3>2
      <4>2. Kept(c)
        BY <1>1, <4>1 DEF Past
      <4> QED
        BY <4>2 DEF SecretNames
    <3> QED
      BY <3>1, <3>2
  <2>5. pc' = "sa" => Todo' = {}
    BY <2>1 DEF Todo
  <2>6. pass'.cas \subseteq pass.cas
    BY <2>1, <2>2, AfterFields
  <2> QED
    BY <2>1, <2>4, <2>5, <2>6 DEF Past
<1>2. CASE pc # "tree"
  <2>1. /\ s = pc /\ pass'.cas = {}
        /\ \/ pc = "sa" /\ pc' = "kubeconfig"
           \/ pc = "kubeconfig" /\ pc' = "machines"
    BY <1>2, AdvanceFields
  <2>2. \A c \in Certs : Kept(c)
    BY <2>1 DEF Past
  <2>3. \A c \in Certs : Kept(c)'
    BY <2>2 DEF SecretNames
  <2>4. pc = "kubeconfig" => Kept("sa")'
    BY DEF Past, SecretNames
  <2> QED
    BY <2>1, <2>3, <2>4 DEF Past
<1> QED
  BY <1>1, <1>2

\* The tree holds every certificate.
LEMMA AllToCome == \A c \in Certs : c \in CAs(CertMap) \/ CertMap[c] \in CAs(CertMap)
  BY CertMapAssumption DEF AllKnown, CAs, Certs

LEMMA NextPast == TypeOK /\ Stays /\ Past /\ [Next]_vars => Past'
<1> SUFFICES ASSUME TypeOK, Stays, Past, [Next]_vars PROVE Past'
  OBVIOUS
<1>a. \A t \in SecretNames : Kept(t) => Kept(t)'
  BY KeptStays
<1>b. Certs \cup {"sa", "kubeconfig"} = SecretNames
  BY DEF SecretNames
<1>1. CASE Begin
  <2>1. PICK g \in Gens : pass' = [NoPass EXCEPT !.gen = g, !.cas = CAs(CertMap)]
    BY <1>1 DEF Begin
  <2>2. CAs(CertMap) \subseteq Certs
    BY DEF CAs, Certs
  <2>3. pass'.cas = CAs(CertMap)
    BY <2>1, <2>2 DEF NoPass
  <2>4. Certs \subseteq Todo'
    BY <2>3, AllToCome DEF Todo
  <2> QED
    BY <1>1, <2>3, <2>4 DEF Begin, Past
<1>2. ASSUME NEW s \in SecretNames, Found(s) PROVE Past'
  <2>1. Due(s) /\ Advance(s, FALSE) /\ Cached(secrets)[s] # Absent
    BY <1>2 DEF Found
  <2>2. Kept(s)
    BY <2>1, CachedIsStored DEF Kept
  <2> QED
    BY <1>a, <2>1, <2>2, AdvancePast
<1>3. ASSUME NEW s \in SecretNames, Created(s) PROVE Past'
  <2>1. Due(s) /\ Advance(s, TRUE) /\ Creatable(s) /\ Store(s)
    BY <1>3 DEF Created, Creatable
  <2>2. StoredOne(s)
    BY <2>1, StoreStoresOne
  <2>3. Kept(s)'
    BY <2>2, GensAreNotAbsent DEF Kept, StoredOne
  <2> QED
    BY <1>a, <2>1, <2>3, AdvancePast
<1>4. CASE pc' = "idle" /\ pass' = NoPass
  BY <1>4, PassTypes DEF Past
<1>5. CASE UNCHANGED <<pc, pass>>
  BY <1>5, <1>a, <1>b DEF Past, Todo
<1> QED
  BY <1>1, <1>2, <1>3, <1>4, <1>5
  DEF Next, Work, CreateFails, Refused, Finish, Crash, DeliverSecrets, Wake, LoseSecret,
      Abort, vars

-----------------------------------------------------------------------------
(* The chain.                                                              *)

\* While the pass does not move and no certificate changes, all is as it was.
LEMMA GrownStays ==
  ASSUME TypeOK, Grown, \A c \in Certs : Stored(secrets')[c] = Stored(secrets)[c],
         \/ UNCHANGED <<pc, pass>>
         \/ pc' # "tree" /\ (pc # "tree" \/ ~pass.wrote)
  PROVE  Grown'
<1>1. \A ca \in Certs : Leaves(CertMap, ca) \subseteq Certs
  BY DEF Leaves, Certs
<1>2. \A ca \in Certs : Whole(ca) => Whole(ca)'
  BY <1>1 DEF Whole
<1>3. Chain'
  <2>1. \A c \in Certs : CertMap[c] # NoCA => CertMap[c] \in Certs
    BY CertMapAssumption DEF AllKnown, Certs
  <2> QED
    BY <2>1 DEF Grown, Chain
<1>4. CASE pc' # "tree" /\ (pc # "tree" \/ ~pass.wrote)
  BY <1>2, <1>3, <1>4 DEF Grown
<1>5. CASE UNCHANGED <<pc, pass>>
  <2>1. pass.cas \subseteq Certs /\ pass.leaves \subseteq Certs
    BY DEF TypeOK, Pass
  <2>2. \A l \in pass.leaves : Stored(secrets')[l] = Stored(secrets)[l]
    BY <2>1
  <2>3. (pc # "tree" \/ ~pass.wrote => \A ca \in Certs : Whole(ca))'
    BY <1>2, <1>5 DEF Grown
  <2>4. (pc = "tree" =>
           \A ca \in pass.cas : Stored(secrets)[ca] # pass.gen => Whole(ca))'
    BY <1>2, <1>5, <2>1 DEF Grown
  <2>5. (pc = "tree" =>
           \A l \in pass.leaves : Stored(secrets)[l] = Absent =>
             CertMap[l] \in Certs /\ Stored(secrets)[CertMap[l]] = pass.gen)'
    BY <1>5, <2>2 DEF Grown
  <2> QED
    BY <1>3, <2>3, <2>4, <2>5 DEF Grown
<1> QED
  BY <1>4, <1>5

\* The tree goes on from a certificate that is stored, and the cache shows it.
LEMMA GrownFound ==
  ASSUME TypeOK, Stays, Past, Grown, lost \cap Certs = {}, pc = "tree", Past',
         NEW s \in SecretNames, Found(s)
  PROVE  Grown'
<1>1. /\ Due(s) /\ Advance(s, FALSE) /\ Cached(secrets)[s] # Absent
      /\ secrets' = secrets /\ lost' = lost
  BY DEF Found
<1>2. /\ s \in Certs /\ pass' \in Pass /\ pass'.gen = pass.gen /\ pass'.wrote = pass.wrote
      /\ pass'.cas = After(CertMap, pass, s).cas
      /\ pass'.leaves = After(CertMap, pass, s).leaves
      /\ (pc' = "sa" \/ pc' = "tree")
  <2>1. pass.wrote \in BOOLEAN
    BY DEF TypeOK, Pass
  <2> QED
    BY <1>1, <2>1, AdvanceFields
<1>3. pass \in Pass /\ pass.cas \subseteq Certs /\ pass.leaves \subseteq Certs
  BY DEF TypeOK, Pass
<1>4. Stored(secrets)[s] # Absent
  BY <1>1, <1>2, CachedIsStored
<1>5. \A ca \in Certs : Whole(ca)' <=> Whole(ca)
  BY <1>1 DEF Whole
<1>6. Chain'
  BY <1>1 DEF Grown, Chain
<1>7. (pc # "tree" \/ ~pass.wrote => \A ca \in Certs : Whole(ca))'
  <2>1. CASE pc' = "sa"
    <3>1. \A c \in Certs : Kept(c)'
      BY <2>1 DEF Past
    <3> QED
      BY <1>1, <3>1 DEF Whole, Kept, Leaves, Certs
  <2>2. CASE pc' = "tree"
    BY <1>2, <1>5, <2>2 DEF Grown
  <2> QED
    BY <1>2, <2>1, <2>2
<1>8. CASE pass.leaves = {}
  <2>1. pass'.cas = pass.cas \ {s} /\ pass'.leaves = Leaves(CertMap, s) /\ s \in pass.cas
    <3>1. s \in pass.cas
      BY <1>1, <1>8 DEF Due, Turn
    <3> QED
      BY <1>2, <1>3, <1>8, <3>1, AfterFields
  <2>2. \A l \in pass'.leaves : Stored(secrets)[l] = Absent =>
          CertMap[l] \in Certs /\ Stored(secrets)[CertMap[l]] = pass.gen
    BY <1>2, <1>4, <2>1 DEF Grown, Whole, Leaves
  <2>3. \A ca \in pass'.cas : ca \in pass.cas /\ ca \in Certs
    BY <1>3, <2>1
  <2>4. (pc = "tree" =>
           \A ca \in pass.cas : Stored(secrets)[ca] # pass.gen => Whole(ca))'
    BY <1>1, <1>2, <1>5, <2>3 DEF Grown
  <2> QED
    BY <1>1, <1>2, <1>6, <1>7, <2>2, <2>4 DEF Grown
<1>9. CASE pass.leaves # {}
  <2>1. pass'.cas = pass.cas /\ pass'.leaves = pass.leaves \ {s}
    BY <1>2, <1>3, <1>9, AfterFields
  <2>2. \A l \in pass'.leaves : Stored(secrets)[l] = Absent =>
          CertMap[l] \in Certs /\ Stored(secrets)[CertMap[l]] = pass.gen
    BY <2>1 DEF Grown
  <2>4. (pc = "tree" =>
           \A ca \in pass.cas : Stored(secrets)[ca] # pass.gen => Whole(ca))'
    BY <1>1, <1>2, <1>3, <1>5, <2>1 DEF Grown
  <2> QED
    BY <1>1, <1>2, <1>6, <1>7, <2>2, <2>4 DEF Grown
<1> QED
  BY <1>8, <1>9

\* The tree goes on from a certificate it created.
LEMMA GrownCreated ==
  ASSUME TypeOK, Past, Grown, lost \cap Certs = {}, pc = "tree", Past',
         NEW s \in SecretNames, Created(s)
  PROVE  Grown'
<1>1. Due(s) /\ Advance(s, TRUE) /\ Creatable(s) /\ Store(s) /\ lost' = lost
  BY DEF Created, Creatable
<1>2. /\ s \in Certs /\ pass' \in Pass /\ pass'.gen = pass.gen /\ pass'.wrote
      /\ pass'.cas = After(CertMap, pass, s).cas
      /\ pass'.leaves = After(CertMap, pass, s).leaves
      /\ (pc' = "sa" \/ pc' = "tree")
  BY <1>1, AdvanceFields
<1>3. pass \in Pass /\ pass.cas \subseteq Certs /\ pass.leaves \subseteq Certs
  BY DEF TypeOK, Pass
<1>4. /\ Stored(secrets)[s] = Absent /\ Stored(secrets')[s] = pass.gen
      /\ \A t \in Certs \ {s} : Stored(secrets')[t] = Stored(secrets)[t]
      /\ pass.gen # Absent
  <2>1. StoredOne(s)
    BY <1>1, StoreStoresOne
  <2>2. s # "kubeconfig"
    BY <1>2, CertMapAssumption
  <2>3. Generation(s) = pass.gen
    BY <2>2 DEF Generation
  <2> QED
    BY <2>1, <2>3, GensAreNotAbsent DEF StoredOne, SecretNames
<1>5. \A c \in Certs : CertMap[c] # NoCA => CertMap[c] \in Certs /\ CertMap[CertMap[c]] = NoCA
  BY CertMapAssumption DEF AllKnown, OneLevel, Certs
<1>6. \A c \in Certs : CertMap[c] # NoCA /\ Stored(secrets)[c] # Absent =>
        Stored(secrets)[c] = Stored(secrets)[CertMap[c]]
  BY DEF Grown, Chain
<1>7. \A ca \in Certs : ca # s /\ Whole(ca) => Whole(ca)'
  BY <1>4 DEF Whole, Leaves, Certs
<1>8. (pc # "tree" \/ ~pass.wrote => \A ca \in Certs : Whole(ca))'
  <2>1. CASE pc' = "sa"
    <3>1. \A c \in Certs : Kept(c)'
      BY <2>1 DEF Past
    <3> QED
      BY <1>1, <3>1 DEF Whole, Kept, Leaves, Certs
  <2> QED
    BY <1>2, <2>1
<1>9. CASE pass.leaves = {}
  <2>1. pass'.cas = pass.cas \ {s} /\ pass'.leaves = Leaves(CertMap, s) /\ s \in pass.cas
    <3>1. s \in pass.cas
      BY <1>1, <1>9 DEF Due, Turn
    <3> QED
      BY <1>2, <1>3, <1>9, <3>1, AfterFields
  <2>2. CertMap[s] = NoCA
    BY <1>3, <2>1, TreeCAs DEF Past
  <2>3. Chain'
    <3> SUFFICES ASSUME NEW c \in Certs, CertMap[c] # NoCA, Stored(secrets')[c] # Absent
                 PROVE  Stored(secrets')[c] = Stored(secrets')[CertMap[c]]
      BY DEF Chain
    <3>1. c # s
      BY <2>2
    <3>2. Stored(secrets)[c] # Absent /\ Stored(secrets)[c] = Stored(secrets)[CertMap[c]]
      BY <1>4, <1>6, <3>1
    <3>3. CertMap[c] # s
      BY <1>4, <3>2
    <3> QED
      BY <1>4, <1>5, <3>1, <3>2, <3>3
  <2>4. \A ca \in pass'.cas : ca \in pass.cas /\ ca \in Certs /\ ca # s
    BY <1>3, <2>1
  <2>5. (pc = "tree" =>
           \A ca \in pass.cas : Stored(secrets)[ca] # pass.gen => Whole(ca))'
    BY <1>2, <1>4, <1>7, <2>4 DEF Grown
  <2>6. \A l \in pass'.leaves : CertMap[l] = s
    BY <2>1 DEF Leaves
  <2> QED
    BY <1>2, <1>4, <1>8, <2>3, <2>5, <2>6 DEF Grown
<1>10. CASE pass.leaves # {}
  <2>1. pass'.cas = pass.cas /\ pass'.leaves = pass.leaves \ {s} /\ s \in pass.leaves
    <3>1. s \in pass.leaves
      BY <1>1, <1>10 DEF Due, Turn
    <3> QED
      BY <1>2, <1>3, <1>10, <3>1, AfterFields
  <2>2. CertMap[s] \in Certs /\ Stored(secrets)[CertMap[s]] = pass.gen
    BY <1>4, <2>1 DEF Grown
  <2>3. CertMap[s] # s /\ CertMap[s] # NoCA
    BY <1>4, <2>2, CertMapAssumption
  <2>4. \A c \in Certs : CertMap[c] # s
    BY <1>2, <1>5, <2>3, CertMapAssumption
  <2>5. Chain'
    <3> SUFFICES ASSUME NEW c \in Certs, CertMap[c] # NoCA, Stored(secrets')[c] # Absent
                 PROVE  Stored(secrets')[c] = Stored(secrets')[CertMap[c]]
      BY DEF Chain
    <3>1. CASE c = s
      BY <1>4, <2>2, <2>3, <3>1
    <3>2. CASE c # s
      BY <1>4, <1>5, <1>6, <2>4, <3>2
    <3> QED
      BY <3>1, <3>2
  <2>6. (pc = "tree" =>
           \A ca \in pass.cas : Stored(secrets)[ca] # pass.gen => Whole(ca))'
    BY <1>2, <1>3, <1>4, <1>7, <2>1 DEF Grown
  <2>7. \A l \in pass'.leaves : Stored(secrets')[l] = Absent =>
          CertMap[l] \in Certs /\ Stored(secrets')[CertMap[l]] = pass.gen
    BY <1>3, <1>4, <2>1, <2>4 DEF Grown
  <2> QED
    BY <1>2, <1>8, <2>5, <2>6, <2>7 DEF Grown
<1> QED
  BY <1>9, <1>10

\* A pass that ends without having been interrupted had created nothing in the tree.
LEMMA AbortGrown ==
  ASSUME TypeOK, NEW w \in BOOLEAN, Abort(w), ~interrupted'
  PROVE  /\ ~interrupted /\ pc' = "idle"
         /\ pc # "tree" \/ (~pass.wrote /\ ~w)
<1>1. pass.wrote \in BOOLEAN
  BY DEF TypeOK, Pass
<1> QED
  BY <1>1 DEF Abort, Interrupt

LEMMA NextGrowing == TypeOK /\ Stays /\ Past /\ Growing /\ [Next]_vars => Growing'
<1> SUFFICES ASSUME TypeOK, Stays, Past, Growing, [Next]_vars,
                    ~interrupted', lost' \cap Certs = {}
             PROVE  Grown'
  BY DEF Growing
<1>a. Past'
  BY NextPast
<1>b. lost \cap Certs = {}
  BY StepKinds, LossLosesOne
<1>c. ~interrupted => Grown
  BY <1>b DEF Growing
<1>1. CASE Begin
  <2>1. Grown /\ pc = "idle" /\ pc' = "tree" /\ secrets' = secrets
    BY <1>1, <1>c DEF Begin
  <2>2. PICK g \in Gens : pass' = [NoPass EXCEPT !.gen = g, !.cas = CAs(CertMap)]
    BY <1>1 DEF Begin
  <2>3. pass'.leaves = {}
    BY <2>2 DEF NoPass
  <2>4. \A ca \in Certs : Whole(ca)'
    BY <2>1 DEF Grown, Whole
  <2>5. pass'.cas \subseteq Certs
    BY <1>a, TreeCAs DEF Past
  <2>6. Chain'
    BY <2>1 DEF Grown, Chain
  <2> QED
    BY <2>1, <2>3, <2>4, <2>5, <2>6 DEF Grown
<1>2. ASSUME NEW s \in SecretNames, Found(s) PROVE Grown'
  <2>1. Grown /\ secrets' = secrets /\ Due(s) /\ Advance(s, FALSE)
    BY <1>2, <1>c DEF Found
  <2>2. CASE pc = "tree"
    BY <1>2, <1>a, <1>b, <2>1, <2>2, GrownFound
  <2>3. CASE pc # "tree"
    <3>1. pc' # "tree"
      BY <2>1, <2>3, AdvanceFields
    <3> QED
      BY <2>1, <2>3, <3>1, GrownStays
  <2> QED
    BY <2>2, <2>3
<1>3. ASSUME NEW s \in SecretNames, Created(s) PROVE Grown'
  <2>1. Grown /\ Creatable(s) /\ Store(s) /\ Due(s) /\ Advance(s, TRUE)
    BY <1>3, <1>c DEF Created, Creatable
  <2>2. CASE pc = "tree"
    BY <1>3, <1>a, <1>b, <2>1, <2>2, GrownCreated
  <2>3. CASE pc # "tree"
    <3>1. pc' # "tree" /\ s = pc
      BY <2>1, <2>3, AdvanceFields
    <3>2. s \notin Certs
      BY <2>1, <2>3, <3>1, CertMapAssumption DEF Due
    <3>3. \A c \in Certs : Stored(secrets')[c] = Stored(secrets)[c]
      <4>1. StoredOne(s)
        BY <2>1, StoreStoresOne
      <4> QED
        BY <3>2, <4>1 DEF StoredOne, SecretNames
    <3> QED
      BY <2>1, <2>3, <3>1, <3>3, GrownStays
  <2> QED
    BY <2>2, <2>3
<1>4. ASSUME NEW s \in SecretNames, CreateFails(s) PROVE Grown'
  <2>1. CASE Store(s) /\ Abort(TRUE)
    <3>1. ~interrupted /\ pc' = "idle" /\ pc # "tree"
      BY <2>1, AbortGrown
    <3>2. Creatable(s) /\ s \notin Certs
      BY <1>4, <3>1, CertMapAssumption DEF CreateFails, Creatable, Due
    <3>3. \A c \in Certs : Stored(secrets')[c] = Stored(secrets)[c]
      <4>1. StoredOne(s)
        BY <2>1, <3>2, StoreStoresOne
      <4> QED
        BY <3>2, <4>1 DEF StoredOne, SecretNames
    <3> QED
      BY <1>c, <3>1, <3>3, GrownStays
  <2>2. CASE UNCHANGED secrets /\ Abort(FALSE)
    BY <1>c, <2>2, AbortGrown, GrownStays
  <2> QED
    BY <1>4, <2>1, <2>2 DEF CreateFails
<1>5. ASSUME NEW s \in SecretNames, Refused(s) PROVE Grown'
  <2>1. Abort(FALSE) /\ secrets' = secrets
    BY <1>5 DEF Refused
  <2> QED
    BY <1>c, <2>1, AbortGrown, GrownStays
<1>6. CASE Finish
  <2>1. Grown /\ pc # "tree" /\ pc' # "tree" /\ secrets' = secrets
    BY <1>6, <1>c DEF Finish
  <2> QED
    BY <2>1, GrownStays
<1>7. CASE Crash
  <2>1. Abort(FALSE) /\ Stored(secrets') = Stored(secrets)
    <3>1. StoredNone
      BY <1>7, SameStored DEF StoredNone
    <3> QED
      BY <1>7, <3>1 DEF Crash, StoredNone
  <2> QED
    BY <1>c, <2>1, AbortGrown, GrownStays
<1>8. CASE DeliverSecrets
  <2>1. Stored(secrets') = Stored(secrets) /\ UNCHANGED <<pc, pass, interrupted>>
    <3>1. Stored(secrets') = Stored(secrets)
      BY <1>8, SameStored
    <3> QED
      BY <1>8, <3>1 DEF DeliverSecrets
  <2> QED
    BY <1>c, <2>1, GrownStays
<1>9. CASE Wake \/ UNCHANGED vars
  <2>1. UNCHANGED <<secrets, pc, pass, interrupted>>
    BY <1>9 DEF Wake, vars
  <2> QED
    BY <1>c, <2>1, GrownStays
<1>10. ASSUME NEW s \in SecretNames, LoseSecret(s) PROVE Grown'
  <2>1. UNCHANGED <<pc, pass, interrupted>>
    BY <1>10 DEF LoseSecret
  <2>2. \A c \in Certs : Stored(secrets')[c] = Stored(secrets)[c]
    BY <1>10, LossLosesOne DEF SecretNames
  <2> QED
    BY <1>c, <2>1, <2>2, GrownStays
<1> QED
  BY <1>1, <1>2, <1>3, <1>4, <1>5, <1>6, <1>7, <1>8, <1>9, <1>10 DEF Next, Work

-----------------------------------------------------------------------------
(* The theorems.                                                           *)

Inv == TypeOK /\ Stays /\ Past /\ KubeconfigTrusted /\ Growing

LEMMA InitInv == Init => Inv
<1> SUFFICES ASSUME Init PROVE Inv
  OBVIOUS
<1>1. secrets = <<[s \in SecretNames |-> Absent]>> /\ pc = "idle" /\ pass = NoPass
  BY DEF Init
<1>2. Stored(secrets) = [s \in SecretNames |-> Absent]
  BY <1>1 DEF Stored
<1>3. \A s \in SecretNames : Stored(secrets)[s] = Absent
  BY <1>2
<1>4. Along(secrets) = {Stored(secrets)}
  <2>1. Len(secrets) = 1 /\ 1..1 = {1} /\ secrets[1] = Stored(secrets)
    BY <1>1, <1>2
  <2> QED
    BY <2>1 DEF Along
<1>5. Stays
  BY <1>4 DEF Stays
<1>6. Past
  BY <1>1, PassTypes DEF Past
<1>7. KubeconfigTrusted
  BY <1>3 DEF KubeconfigTrusted, SecretNames
<1>8. Growing
  <2>1. \A c \in Certs : Stored(secrets)[c] = Absent
    BY <1>3 DEF SecretNames
  <2> QED
    BY <1>1, <2>1 DEF Growing, Grown, Chain, Whole
<1> QED
  BY <1>5, <1>6, <1>7, <1>8, InitType DEF Inv

LEMMA SpecInv == Spec => []Inv
<1>1. Init => Inv
  BY InitInv
<1>2. Inv /\ [Next]_vars => Inv'
  <2> SUFFICES ASSUME Inv, [Next]_vars PROVE Inv'
    OBVIOUS
  <2>1. TypeOK' /\ Stays' /\ Past' /\ KubeconfigTrusted' /\ Growing'
    BY NextType, NextStays, NextPast, NextTrusted, NextGrowing DEF Inv
  <2> QED
    BY <2>1 DEF Inv
<1> QED
  BY <1>1, <1>2, PTL DEF Spec

\* KubeconfigTrusted: the certificate of a stored kubeconfig was signed by the
\* stored CA, through stale passes, failures and restarts.
THEOREM KubeconfigIsTrusted == Spec => []KubeconfigTrusted
<1>1. Inv => KubeconfigTrusted
  BY DEF Inv
<1> QED
  BY <1>1, SpecInv, PTL

\* ReturnedComplete: a pass that goes on to the machines left every Secret stored
\* but those that someone deleted.
THEOREM ReturnedIsComplete == Spec => []ReturnedComplete
<1>1. Inv => ReturnedComplete
  BY DEF Inv, Past, Kept, ReturnedComplete, SecretNames
<1> QED
  BY <1>1, SpecInv, PTL

\* ChainIntact: as long as no pass is interrupted between two certificates and
\* nobody deletes one, the stored certificates form a chain.
THEOREM ChainIsIntact == Spec => []ChainIntact
<1>1. Inv => ChainIntact
  BY DEF Inv, Growing, Grown, ChainIntact
<1> QED
  BY <1>1, SpecInv, PTL
-----------------------------------------------------------------------------
(* Certificates implements TrustStore.                                     *)

\* The two modules mean the same by their words.
LEMMA TrustWords ==
  /\ Trust!Names = SecretNames /\ Trust!NoCA = NoCA
  /\ Trust!Complete <=> \A s \in SecretNames \ lost : Stored(secrets)[s] # Absent
  /\ Trust!Excused <=> interrupted \/ lost \cap Certs # {}
BY DEF Trust!Names, SecretNames, Certs, Trust!NoCA, NoCA, Trust!Complete, Trust!Excused

\* A pass that ends is interrupted only in the tree, where it has not gone on.
LEMMA InterruptedInTree ==
  ASSUME TypeOK, [Next]_vars
  PROVE  /\ interrupted' \in {interrupted, TRUE}
         /\ pc = "machines" \/ pc' = "machines" => interrupted' = interrupted
<1>1. ASSUME NEW w \in BOOLEAN, Abort(w)
      PROVE  /\ interrupted' \in {interrupted, TRUE} /\ pc' = "idle"
             /\ pc = "machines" => interrupted' = interrupted
  BY <1>1 DEF Abort, Interrupt, TypeOK
<1>2. ASSUME NEW s \in SecretNames, CreateFails(s) \/ Refused(s)
      PROVE  \E w \in BOOLEAN : Abort(w)
  BY <1>2 DEF CreateFails, Refused
<1>3. Crash => Abort(FALSE)
  BY DEF Crash
<1> QED
  BY <1>1, <1>2, <1>3
  DEF Next, Work, Begin, Found, Created, Finish, DeliverSecrets, Wake, LoseSecret, vars

\* What is created fits: a leaf is the CA's of the same pass, the kubeconfig the
\* cached CA's, which is the stored one.
LEMMA CreatedFits ==
  ASSUME Inv, NEW s \in SecretNames, Creatable(s)
  PROVE  Trust!Fits(s, Generation(s))
<1>1. ASSUME s \in Certs, CertMap[s] # NoCA, ~interrupted, lost \cap Certs = {}
      PROVE  Generation(s) = Stored(secrets)[CertMap[s]]
  <2>1. pc = "tree" /\ Turn(pass, s) /\ Stored(secrets)[s] = Absent
    BY <1>1, CertMapAssumption DEF Creatable, Due
  <2>2. s \notin pass.cas
    BY <1>1, TreeCAs DEF Inv, Past
  <2>3. s \in pass.leaves
    BY <2>1, <2>2 DEF Turn
  <2>4. Stored(secrets)[CertMap[s]] = pass.gen
    BY <1>1, <2>1, <2>3 DEF Inv, Growing, Grown
  <2> QED
    BY <1>1, <2>4, CertMapAssumption DEF Generation
<1>2. ASSUME s = "kubeconfig", "ca" \notin lost
      PROVE  Generation(s) = Stored(secrets)["ca"]
  <2>1. "ca" \in SecretNames \ lost
    BY <1>2, CertMapAssumption DEF SecretNames, Certs, CAs
  <2>2. Generation(s) = Cached(secrets)["ca"] /\ Cached(secrets)["ca"] # Absent
    BY <1>2 DEF Creatable, Generation
  <2> QED
    BY <2>1, <2>2, CachedIsStored DEF Inv
<1> QED
  BY <1>1, <1>2, TrustWords DEF Trust!Fits, Certs

LEMMA TrustStep ==
  ASSUME Inv, Inv', [Next]_vars
  PROVE  [Trust!Next]_(Trust!vars)
<1>a. TypeOK /\ Stored(secrets) \in Contents
  BY Reads DEF Inv
<1>b. /\ interrupted' \in {interrupted, TRUE}
      /\ pc = "machines" \/ pc' = "machines" => interrupted' = interrupted
  BY <1>a, InterruptedInTree
<1>c. pc' = "machines" => Trust!Complete'
  <2>1. pc' = "machines" =>
          \A s \in SecretNames \ lost' : Stored(secrets')[s] # Absent
    BY DEF Inv, Past, Kept, SecretNames
  <2> QED
    BY <2>1, TrustWords DEF Trust!Complete
<1>1. CASE StoredNone /\ lost' = lost
  <2>1. Stored(secrets') = Stored(secrets)
    BY <1>1 DEF StoredNone
  <2>2. Trust!Complete' => Trust!Complete
    BY <1>1, <2>1 DEF Trust!Complete
  <2>3. CASE pc = "machines" /\ pc' = "machines"
    BY <1>1, <1>b, <2>1, <2>3 DEF Trust!vars
  <2>4. CASE pc = "machines" /\ pc' # "machines"
    BY <1>1, <1>b, <2>1, <2>4 DEF Trust!Next, Trust!Finish
  <2>5. CASE pc # "machines" /\ pc' = "machines"
    BY <1>1, <1>b, <1>c, <2>1, <2>2, <2>5 DEF Trust!Next, Trust!GoOn
  <2>6. CASE pc # "machines" /\ pc' # "machines"
    BY <1>1, <1>b, <2>1, <2>6 DEF Trust!Next, Trust!Interrupt, Trust!vars
  <2> QED
    BY <2>3, <2>4, <2>5, <2>6
<1>2. ASSUME NEW s \in SecretNames, Creatable(s), Store(s), lost' = lost
      PROVE  [Trust!Next]_(Trust!vars)
  <2>1. /\ Generation(s) \in Gens
        /\ Stored(secrets') = [Stored(secrets) EXCEPT ![s] = Generation(s)]
    BY <1>2, <1>a, StoreWrites
  <2>2. pc # "machines" /\ Stored(secrets)[s] = Absent
    BY <1>2, CertMapAssumption DEF Creatable, Due
  <2>3. Trust!Fits(s, Generation(s))
    BY <1>2, CreatedFits
  <2>4. Trust!Store(s, Generation(s))
    BY <1>2, <1>b, <1>c, <2>1, <2>2, <2>3 DEF Trust!Store
  <2> QED
    BY <2>1, <2>4, TrustWords DEF Trust!Next
<1>3. ASSUME NEW s \in SecretNames, LoseSecret(s)
      PROVE  [Trust!Next]_(Trust!vars)
  <2>1. Stored(secrets') = [Stored(secrets) EXCEPT ![s] = Absent]
    BY <1>3, <1>a, LossWrites
  <2>2. Trust!Lose(s)
    BY <1>3, <2>1 DEF LoseSecret, Trust!Lose
  <2> QED
    BY <2>2, TrustWords DEF Trust!Next
<1> QED
  BY <1>1, <1>2, <1>3, <1>a, StepKinds

\* KeepsTrust: Certificates implements TrustStore, for any certificate map whose
\* tree is one level deep, and however many passes, failures and losses.
THEOREM CertificatesKeepTrust == Spec => KeepsTrust
<1>1. Init => Trust!Init
  <2> SUFFICES ASSUME Init PROVE Trust!Init
    OBVIOUS
  <2>1. Stored(secrets) = [s \in SecretNames |-> Absent]
    BY DEF Init, Stored
  <2> QED
    BY <2>1, TrustWords DEF Init, Trust!Init
<1>2. Inv /\ Inv' /\ [Next]_vars => [Trust!Next]_(Trust!vars)
  BY TrustStep
<1> QED
  BY <1>1, <1>2, SpecInv, PTL DEF Spec, KeepsTrust, Trust!Spec

\* The invariant of TrustStore: what is relied on, and the shape of the variables.
TrustInv ==
  /\ lost \subseteq SecretNames
  /\ DOMAIN Stored(secrets) = SecretNames
  /\ Trust!Trusted

LEMMA TrustInvStep == TrustInv /\ [Trust!Next]_(Trust!vars) => TrustInv'
<1> SUFFICES ASSUME TrustInv, [Trust!Next]_(Trust!vars) PROVE TrustInv'
  OBVIOUS
<1> DEFINE old == Stored(secrets)
           new == Stored(secrets')
<1> HIDE DEF old, new
<1>a. /\ DOMAIN old = SecretNames /\ lost \subseteq SecretNames
      /\ lost \cap Certs = {} /\ ~interrupted =>
           \A l \in Certs : CertMap[l] # NoCA /\ old[l] # Absent => old[l] = old[CertMap[l]]
      /\ "ca" \notin lost /\ old["kubeconfig"] # Absent => old["kubeconfig"] = old["ca"]
      /\ pc = "machines" => \A s \in SecretNames \ lost : old[s] # Absent
  BY TrustWords DEF TrustInv, Trust!Trusted, Certs, old
<1>b. /\ DOMAIN new = SecretNames /\ lost' \subseteq SecretNames
      /\ lost' \cap Certs = {} /\ ~interrupted' =>
           \A l \in Certs : CertMap[l] # NoCA /\ new[l] # Absent => new[l] = new[CertMap[l]]
      /\ "ca" \notin lost' /\ new["kubeconfig"] # Absent => new["kubeconfig"] = new["ca"]
      /\ pc' = "machines" => \A s \in SecretNames \ lost' : new[s] # Absent
      => TrustInv'
  BY TrustWords
  DEF TrustInv, Trust!Trusted, Trust!Excused, Trust!Complete, Trust!NoCA, NoCA, Trust!Names,
      SecretNames, Certs, new
<1>c. /\ \A c \in Certs : CertMap[c] # NoCA => CertMap[c] \in Certs /\ CertMap[CertMap[c]] = NoCA
      /\ "ca" \in Certs /\ "kubeconfig" \notin Certs
      /\ Certs \subseteq SecretNames /\ "kubeconfig" \in SecretNames
  BY CertMapAssumption DEF AllKnown, OneLevel, CAs, Leaves, Certs, SecretNames
<1>1. ASSUME NEW s \in SecretNames, NEW key, Trust!Store(s, key)
      PROVE  TrustInv'
  <2>1. /\ old[s] = Absent /\ new = [old EXCEPT ![s] = key] /\ lost' = lost
        /\ interrupted => interrupted'
        /\ pc' = "machines" => Trust!Complete'
    <3>1. old[s] = Absent /\ new = [old EXCEPT ![s] = key] /\ lost' = lost
      BY <1>1 DEF Trust!Store, old, new
    <3>2. interrupted => interrupted'
      <4>1. interrupted' = interrupted \/ interrupted' = TRUE
        BY <1>1 DEF Trust!Store
      <4> QED
        BY <4>1, Zenon
    <3>3. pc' = "machines" => Trust!Complete'
      BY <1>1 DEF Trust!Store
    <3> QED
      BY <3>1, <3>2, <3>3
  <2>2. /\ s \in Certs /\ CertMap[s] # NoCA /\ lost \cap Certs = {} /\ ~interrupted =>
             key = old[CertMap[s]]
        /\ s = "kubeconfig" /\ "ca" \notin lost => key = old["ca"]
    BY <1>1, TrustWords DEF Trust!Store, Trust!Fits, Certs, old
  <2>3. new[s] = key /\ \A t \in SecretNames \ {s} : new[t] = old[t]
    BY <1>a, <2>1
  <2>4. pc' = "machines" => \A t \in SecretNames \ lost' : new[t] # Absent
    BY <2>1 DEF Trust!Complete, Trust!Names, SecretNames, Certs, new
  <2>5. ASSUME lost' \cap Certs = {}, ~interrupted',
               NEW l \in Certs, CertMap[l] # NoCA, new[l] # Absent
        PROVE  new[l] = new[CertMap[l]]
    <3>1. CASE l = s
      BY <1>c, <2>1, <2>2, <2>3, <2>5, <3>1
    <3>2. CASE l # s
      <4>1. old[l] # Absent /\ old[l] = old[CertMap[l]]
        BY <1>a, <1>c, <2>1, <2>3, <2>5, <3>2
      <4> QED
        BY <1>c, <2>1, <2>3, <2>5, <3>2, <4>1
    <3> QED
      BY <3>1, <3>2
  <2>6. "ca" \notin lost' /\ new["kubeconfig"] # Absent => new["kubeconfig"] = new["ca"]
    BY <1>a, <1>c, <2>1, <2>2, <2>3
  <2>7. DOMAIN new = SecretNames
    BY <1>a, <2>1
  <2> QED
    BY <1>a, <1>b, <2>1, <2>4, <2>5, <2>6, <2>7
<1>2. ASSUME NEW s \in SecretNames, Trust!Lose(s)
      PROVE  TrustInv'
  <2>1. /\ new = [old EXCEPT ![s] = Absent] /\ lost' = lost \cup {s}
        /\ interrupted' = interrupted /\ (pc' = "machines") = (pc = "machines")
    BY <1>2 DEF Trust!Lose, old, new
  <2>2. new[s] = Absent /\ \A t \in SecretNames \ {s} : new[t] = old[t]
    BY <1>a, <2>1
  <2>3. DOMAIN new = SecretNames
    BY <1>a, <2>1
  <2>4. ASSUME lost' \cap Certs = {}, ~interrupted',
               NEW l \in Certs, CertMap[l] # NoCA, new[l] # Absent
        PROVE  new[l] = new[CertMap[l]]
    <3>1. s \notin Certs /\ lost \cap Certs = {}
      BY <2>1, <2>4
    <3>2. new[l] = old[l] /\ new[CertMap[l]] = old[CertMap[l]]
      BY <1>c, <2>2, <2>4, <3>1
    <3> QED
      BY <1>a, <2>1, <2>4, <3>1, <3>2
  <2>5. "ca" \notin lost' /\ new["kubeconfig"] # Absent => new["kubeconfig"] = new["ca"]
    BY <1>a, <1>c, <2>1, <2>2
  <2>6. pc' = "machines" => \A t \in SecretNames \ lost' : new[t] # Absent
    BY <1>a, <2>1, <2>2
  <2> QED
    BY <1>a, <1>b, <2>1, <2>3, <2>4, <2>5, <2>6
<1>3. CASE Trust!GoOn \/ Trust!Finish \/ Trust!Interrupt \/ UNCHANGED Trust!vars
  <2>1. /\ new = old /\ lost' = lost
        /\ interrupted => interrupted'
    BY <1>3 DEF Trust!GoOn, Trust!Finish, Trust!Interrupt, Trust!vars, old, new
  <2>2. pc' = "machines" => pc = "machines" \/ Trust!Complete
    BY <1>3 DEF Trust!GoOn, Trust!Finish, Trust!Interrupt, Trust!vars
  <2>3. pc' = "machines" => \A s \in SecretNames \ lost : old[s] # Absent
    BY <1>a, <2>2, TrustWords DEF old
  <2> QED
    BY <1>a, <1>b, <2>1, <2>3
<1> QED
  BY <1>1, <1>2, <1>3, TrustWords DEF Trust!Next

\* What is relied on follows from TrustStore alone: what fits what is stored keeps
\* verifying, since nothing that is stored changes.
THEOREM TrustIsKept == KeepsTrust => []Trust!Trusted
<1>1. Trust!Init => TrustInv
  BY TrustWords
  DEF Trust!Init, Trust!Trusted, TrustInv, SecretNames, Certs, Trust!Names, Trust!Complete
<1>2. TrustInv /\ [Trust!Next]_(Trust!vars) => TrustInv'
  BY TrustInvStep
<1>3. TrustInv => Trust!Trusted
  BY DEF TrustInv
<1> QED
  BY <1>1, <1>2, <1>3, PTL DEF KeepsTrust, Trust!Spec
=============================================================================
