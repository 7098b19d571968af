\* The instance of SelectServers.cfg.
SPECIFICATION FairSpec
CONSTANTS
    Clients <- MCClients
    Lines <- MCLines
    Host = {"h"}
    Value = {"v"}
    Letter = {"a", "b"}
    Word <- MCWord
    VIETI = 2
    Header = 3
    Body = {0, 2}
\* Once the server is down and the clients have ended nothing happens.
CHECK_DEADLOCK FALSE
INVARIANT OnlyConnectedListed

