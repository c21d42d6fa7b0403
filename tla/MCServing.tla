----------------------------- MODULE MCServing -----------------------------
(***************************************************************************)
(* Serving for TLC: two Clusters whose Secrets' names meet.                *)
(***************************************************************************)
EXTENDS Serving

KinkCertMap == GetCerts

\* "c" and "c-front-proxy": the CA of the one is the front proxy CA of the other.
Namesakes == {<<"c">>, <<"c", "front", "proxy">>}

\* No block, two of them, and one that cannot be parsed.
SomeSettings == {[blocks |-> <<>>, host |-> "h1"],
                 [blocks |-> <<"a", "b">>, host |-> "h2"],
                 [blocks |-> <<"malformed">>, host |-> "h2"]}
=============================================================================
