----------------------------- MODULE KinkCerts -----------------------------
(***************************************************************************)
(* The certificates of a control plane, and the tree of who signs whom.    *)
(*                                                                         *)
(* Source: src/controllers/controlplane/secrets/cert.go.  A certificate is *)
(* its name; a certificate map gives every name the name of its CA.        *)
(***************************************************************************)

\* The CAName of a certificate that signs itself.
NoCA == ""

\* The CA each certificate names.
CAName(cert) ==
  CASE cert \in {"apiserver", "kubelet-client"} -> "ca"
    [] cert = "front-proxy-client" -> "front-proxy-ca"
    [] OTHER -> NoCA

\* The certificates of a control plane, as a map.
GetCerts ==
  [cert \in {"ca", "apiserver", "kubelet-client", "front-proxy-ca",
             "front-proxy-client"} |-> CAName(cert)]

\* The one-level-deep tree of a certificate map: the CAs, and the leaves of each.
\* A CA is a certificate without a CA, or one that another names as its CA.
CAs(certMap) ==
  {c \in DOMAIN certMap :
     certMap[c] = NoCA \/ \E leaf \in DOMAIN certMap : certMap[leaf] = c}

Leaves(certMap, ca) == {c \in DOMAIN certMap : certMap[c] = ca}

Tree(certMap) == [ca \in CAs(certMap) |-> Leaves(certMap, ca)]

\* Every CA a certificate names is in the map.
AllKnown(certMap) == \A c \in DOMAIN certMap : certMap[c] \in DOMAIN certMap \cup {NoCA}

\* The tree is one level deep: a certificate that has a CA is not one itself.
OneLevel(certMap) == \A c, leaf \in DOMAIN certMap : certMap[leaf] = c => certMap[c] = NoCA

\* Where CreateTree is in its tree: the CAs still to come, and the leaves still to
\* come of the one before them.  The certificate whose turn it is: a CA, in any
\* order, when the leaves of the one before are done, or a leaf.
Turn(at, c) == IF at.leaves = {} THEN c \in at.cas ELSE c \in at.leaves

\* What is left after that certificate: the leaves of a CA follow it.
After(certMap, at, c) ==
  IF at.leaves = {}
  THEN [at EXCEPT !.cas = @ \ {c}, !.leaves = Leaves(certMap, c)]
  ELSE [at EXCEPT !.leaves = @ \ {c}]
=============================================================================
