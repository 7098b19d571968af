--------------------------- MODULE SelectServersMC ---------------------------
\* An instance for TLC: three clients where what one does to another matters
\* most, three lines where an answer depends on several commands.
EXTENDS SelectServers

MCClients == [p \in Program |-> CASE p \in {"lab8cpp", "multi_chat"} -> 3
                                   [] p \in Outside -> 1
                                   [] OTHER -> 2]
MCLines   == [p \in Program |-> CASE p = "lab7" -> 5
                                   [] p \in NameServers \cup {"hangman"} -> 3
                                   [] OTHER -> 2]
MCWord    == {{"a"}, {"a", "b"}}

=============================================================================
