--------------------------- MODULE CertTreeProofs ---------------------------
(***************************************************************************)
(* What CertTree returns, for every certificate map and every order.       *)
(***************************************************************************)
EXTENDS CertTree, TLAPS

\* The certificates the loop has come to.
Visited == Names \ todo

\* The CAs among them, and those they name.
SeenCAs ==
  {ca \in Names : (ca \in Visited /\ certMap[ca] = NoCA)
                    \/ (\E c \in Visited : certMap[c] = ca)}

SeenLeaves(ca) == {c \in Visited : certMap[c] = ca}

\* The tree so far is the map's tree, as far as the loop has come; it has met no
\* unknown CA, and has met all certificates when it returns.
Progress ==
  /\ \A c \in Visited : certMap[c] \in Names \cup {NoCA}
  /\ caMap = [ca \in SeenCAs |-> SeenLeaves(ca)]
  /\ outcome = "tree" => todo = {}
  /\ outcome = "error" => ~AllKnown(certMap)

Inv == TypeOK /\ Progress

LEMMA InitInv == Init => Inv
<1> SUFFICES ASSUME Init PROVE Inv
  OBVIOUS
<1>1. Visited = {} /\ SeenCAs = {}
  BY DEF Init, Visited, SeenCAs
<1>2. caMap = [ca \in SeenCAs |-> SeenLeaves(ca)]
  BY <1>1 DEF Init
<1>3. Progress
  BY <1>1, <1>2 DEF Init, Progress
<1>4. TypeOK
  BY DEF Init, TypeOK
<1> QED
  BY <1>3, <1>4 DEF Inv

\* A step that comes to certificate c, whose CA is known or none, and adds it under
\* the entry of ca.
LEMMA VisitKeepsInv ==
  ASSUME Inv, NEW c \in todo, NEW ca \in Names, NEW leaves \in SUBSET Names,
         outcome = "running", certMap' = certMap, outcome' = outcome,
         todo' = todo \ {c}, caMap' = Entry(ca, leaves),
         \/ certMap[c] = NoCA /\ ca = c /\ leaves = LeavesSoFar(c)
         \/ certMap[c] = ca /\ leaves = LeavesSoFar(ca) \cup {c}
  PROVE  Inv'
<1>1. c \in Names /\ Visited' = Visited \cup {c} /\ c \notin Visited
  BY DEF Inv, TypeOK, Visited
<1>2. certMap[c] \in Names \cup {NoCA}
  OBVIOUS
<1>3. SeenCAs' = SeenCAs \cup {ca}
  BY <1>1, NamesAssumption DEF SeenCAs
<1>4. DOMAIN caMap = SeenCAs
  BY DEF Inv, Progress
<1>5. LeavesSoFar(ca) = SeenLeaves(ca)
  <2>1. CASE ca \in SeenCAs
    BY <2>1, <1>4 DEF Inv, Progress, LeavesSoFar
  <2>2. CASE ca \notin SeenCAs
    BY <2>2, <1>4 DEF LeavesSoFar, SeenCAs, SeenLeaves
  <2> QED
    BY <2>1, <2>2
<1>6. leaves = SeenLeaves(ca)'
  BY <1>1, <1>5, NamesAssumption DEF SeenLeaves
<1>7. ASSUME NEW other \in Names, other # ca
      PROVE  SeenLeaves(other)' = SeenLeaves(other)
  BY <1>1, <1>7, NamesAssumption DEF SeenLeaves
<1>8. ASSUME NEW other \in SeenCAs'
      PROVE  (IF other = ca THEN leaves ELSE caMap[other]) = SeenLeaves(other)'
  <2>1. CASE other = ca
    BY <2>1, <1>6
  <2>2. CASE other # ca
    <3>1. other \in SeenCAs /\ other \in Names
      BY <1>3, <1>8, <2>2 DEF SeenCAs
    <3>2. caMap[other] = SeenLeaves(other)
      BY <3>1 DEF Inv, Progress
    <3> QED
      BY <3>1, <3>2, <2>2, <1>7
  <2> QED
    BY <2>1, <2>2
<1>9. caMap' = [other \in SeenCAs' |-> SeenLeaves(other)']
  BY <1>3, <1>4, <1>8 DEF Entry
<1>10. Progress'
  BY <1>1, <1>2, <1>9 DEF Inv, Progress
<1>11. TypeOK'
  <2>1. SeenCAs' \subseteq Names /\ \A x \in SeenCAs' : SeenLeaves(x)' \subseteq Names
    BY DEF SeenCAs, SeenLeaves, Visited
  <2>2. DOMAIN caMap' \subseteq Names /\ \A x \in DOMAIN caMap' : caMap'[x] \subseteq Names
    BY <1>9, <2>1
  <2> QED
    BY <2>2 DEF Inv, TypeOK
<1> QED
  BY <1>10, <1>11 DEF Inv

LEMMA NextInv == Inv /\ [Next]_vars => Inv'
<1> SUFFICES ASSUME Inv, [Next]_vars PROVE Inv'
  OBVIOUS
<1>1. ASSUME NEW c \in Names, VisitCA(c) PROVE Inv'
  <2>1. LeavesSoFar(c) \in SUBSET Names
    BY DEF LeavesSoFar, Inv, TypeOK
  <2> QED
    BY <1>1, <2>1, VisitKeepsInv DEF VisitCA
<1>2. ASSUME NEW c \in Names, VisitLeaf(c) PROVE Inv'
  <2>1. LeavesSoFar(certMap[c]) \cup {c} \in SUBSET Names
    BY <1>2 DEF LeavesSoFar, Inv, TypeOK
  <2> QED
    BY <1>2, <2>1, VisitKeepsInv DEF VisitLeaf
<1>3. ASSUME NEW c \in Names, VisitUnknown(c) PROVE Inv'
  <2>1. DOMAIN certMap = Names
    BY DEF Inv, TypeOK
  <2>2. ~AllKnown(certMap)
    BY <1>3, <2>1 DEF VisitUnknown, AllKnown
  <2> QED
    BY <1>3, <2>2
    DEF VisitUnknown, Inv, TypeOK, Progress, Visited, SeenCAs, SeenLeaves
<1>4. CASE Return
  BY <1>4 DEF Return, Inv, TypeOK, Progress, Visited, SeenCAs, SeenLeaves
<1>5. CASE UNCHANGED vars
  BY <1>5 DEF vars, Inv, TypeOK, Progress, Visited, SeenCAs, SeenLeaves
<1> QED
  BY <1>1, <1>2, <1>3, <1>4, <1>5 DEF Next

LEMMA Invariance == Spec => []Inv
  BY InitInv, NextInv, PTL DEF Spec

-----------------------------------------------------------------------------
\* TypeCorrect: the types of the loop's variables, for every set of names.
THEOREM TypeCorrect == Spec => []TypeOK
<1>1. Inv => TypeOK
  BY DEF Inv
<1> QED
  BY <1>1, Invariance, PTL

\* TreeIsTheMaps: CertTree returns the tree of the map it is given, however the
\* map is ordered.
THEOREM TreeIsTheMaps == Spec => []OrderIndependent
<1>1. Inv => OrderIndependent
  <2> SUFFICES ASSUME Inv, outcome = "tree" PROVE caMap = Tree(certMap)
    BY DEF OrderIndependent
  <2>1. DOMAIN certMap = Names /\ Visited = Names
    BY DEF Inv, TypeOK, Progress, Visited
  <2>2. SeenCAs = CAs(certMap)
    BY <2>1 DEF SeenCAs, CAs
  <2>3. \A ca : SeenLeaves(ca) = Leaves(certMap, ca)
    BY <2>1 DEF SeenLeaves, Leaves
  <2> QED
    BY <2>2, <2>3 DEF Inv, Progress, Tree
<1> QED
  BY <1>1, Invariance, PTL

\* UnknownIsAnError: CertTree fails if, and only if, a certificate names a CA that
\* is not in the map.
THEOREM UnknownIsAnError == Spec => []ErrorIffUnknown
<1>1. Inv => ErrorIffUnknown
  BY DEF Inv, TypeOK, Progress, Visited, ErrorIffUnknown, AllKnown
<1> QED
  BY <1>1, Invariance, PTL
=============================================================================
