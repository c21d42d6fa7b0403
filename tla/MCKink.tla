------------------------------- MODULE MCKink -------------------------------
\* Instances of the composition Kink.
EXTENDS Kink

\* One replica, or fewer than there can be.
OneOrNegative == {-1, 1}

\* New, with the endpoint given by its author or left to its KinkCluster.
NewCluster == [infra : {FALSE}, endpoint : BOOLEAN, ref : {TRUE}]
=============================================================================
