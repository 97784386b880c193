------------------------- MODULE MCLocalProcesses -------------------------
EXTENDS LocalProcesses

\* kates ports beside another one, a deploy or a watch, with the user's own command; and three pulls.
MCScenes ==
    {[p \in Procs |-> IF p = "p1" THEN {"ports"}
                      ELSE IF p = "p2" THEN {"ports", "deploy ports", "deploy", "watch"}
                      ELSE {"ctx set", "ctx use", "ctx delete", "ctx import"}],
     [p \in Procs |-> {"charts"}]}
MCAccepts == [u \in {"local", "remote"} |-> IF u = "local" THEN {"s1", "s2", "u"} ELSE {"s1", "u"}]
=============================================================================
