------------------------------ MODULE CertTree ------------------------------
(***************************************************************************)
(* CertificateMap.CertTree: one loop over a Go map, whose order is         *)
(* unspecified, that builds the tree of CAs and leaves, or stops at the    *)
(* first certificate whose CA it does not know.                            *)
(*                                                                         *)
(* Source: src/controllers/controlplane/secrets/cert.go.                   *)
(***************************************************************************)
EXTENDS KinkCerts

CONSTANTS
  Names,     \* the names of the certificates in the map
  CANames    \* the values of CAName: names, known or not, and NoCA

ASSUME NamesAssumption == NoCA \notin Names

VARIABLES
  certMap,   \* the map that is read
  todo,      \* the certificates the loop has not come to
  caMap,     \* the tree so far: a function from CAs to sets of leaves
  outcome    \* "running", "tree" or "error"

vars == <<certMap, todo, caMap, outcome>>

Init ==
  /\ certMap \in [Names -> CANames]
  /\ todo = Names
  /\ caMap = [c \in {} |-> {}]
  /\ outcome = "running"

\* The leaves a CA has so far: an entry that is missing reads as the empty slice.
LeavesSoFar(ca) == IF ca \in DOMAIN caMap THEN caMap[ca] ELSE {}

\* The tree with one entry set.
Entry(ca, leaves) ==
  [c \in DOMAIN caMap \cup {ca} |-> IF c = ca THEN leaves ELSE caMap[c]]

\* A certificate without a CA gets an entry, unless a leaf made it already.
\* (Bug: the entry is set anew, and the leaves that came first are lost.)
VisitCAForgets(c) ==
  /\ outcome = "running" /\ c \in todo /\ certMap[c] = NoCA
  /\ caMap' = Entry(c, {})
  /\ todo' = todo \ {c}
  /\ UNCHANGED <<certMap, outcome>>

VisitCA(c) ==
  /\ outcome = "running" /\ c \in todo /\ certMap[c] = NoCA
  /\ caMap' = Entry(c, LeavesSoFar(c))
  /\ todo' = todo \ {c}
  /\ UNCHANGED <<certMap, outcome>>

\* (Bug: the CA is not looked up, and one that is unknown gets an entry.)
VisitLeafUnchecked(c) ==
  /\ outcome = "running" /\ c \in todo /\ certMap[c] # NoCA
  /\ caMap' = Entry(certMap[c], LeavesSoFar(certMap[c]) \cup {c})
  /\ todo' = todo \ {c}
  /\ UNCHANGED <<certMap, outcome>>

\* A leaf is appended to the entry of its CA, wherever that one is in the order.
VisitLeaf(c) ==
  /\ outcome = "running" /\ c \in todo
  /\ certMap[c] # NoCA /\ certMap[c] \in Names
  /\ caMap' = Entry(certMap[c], LeavesSoFar(certMap[c]) \cup {c})
  /\ todo' = todo \ {c}
  /\ UNCHANGED <<certMap, outcome>>

\* A certificate that references an unknown CA ends the loop.
\* (Bug: it is skipped.)
VisitUnknownSkips(c) ==
  /\ outcome = "running" /\ c \in todo
  /\ certMap[c] # NoCA /\ certMap[c] \notin Names
  /\ todo' = todo \ {c}
  /\ UNCHANGED <<certMap, caMap, outcome>>

VisitUnknown(c) ==
  /\ outcome = "running" /\ c \in todo
  /\ certMap[c] # NoCA /\ certMap[c] \notin Names
  /\ outcome' = "error"
  /\ UNCHANGED <<certMap, todo, caMap>>

Return ==
  /\ outcome = "running" /\ todo = {}
  /\ outcome' = "tree"
  /\ UNCHANGED <<certMap, todo, caMap>>

Next ==
  \/ \E c \in Names : VisitCA(c) \/ VisitLeaf(c) \/ VisitUnknown(c)
  \/ Return

Spec == Init /\ [][Next]_vars

-----------------------------------------------------------------------------
\* The types of the variables.
TypeOK ==
  /\ certMap \in [Names -> CANames]
  /\ todo \subseteq Names
  /\ DOMAIN caMap \subseteq Names
  /\ \A ca \in DOMAIN caMap : caMap[ca] \subseteq Names
  /\ outcome \in {"running", "tree", "error"}

\* OrderIndependent: the tree that is returned is the map's, every leaf under its
\* CA and no certificate lost, in whatever order the loop came to CA and leaves.
OrderIndependent == outcome = "tree" => caMap = Tree(certMap)

\* ErrorIffUnknown: the loop fails if, and only if, some CA is unknown.
ErrorIffUnknown ==
  /\ outcome = "error" => ~AllKnown(certMap)
  /\ outcome = "tree" => AllKnown(certMap)
=============================================================================
