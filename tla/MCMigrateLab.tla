---------------------------- MODULE MCMigrateLab ----------------------------
EXTENDS MigrateLab
\* Two labs on different topics of one target; every command on the first lab, and a second
\* lab that may stand beside it and lose its mirror at any time.
MCTopicOf == [l \in Labs |-> IF l = "a" THEN "orders" ELSE "payments"]
MCCommands == [l \in Labs |->
    IF l = "a" THEN {"up", "run", "verify", "cutover", "rollback", "down", "mirror deploy", "mirror cutover",
                     "mirror rollback", "mirror remove", "source deploy", "source remove"}
    ELSE {"mirror remove"}]
=============================================================================
