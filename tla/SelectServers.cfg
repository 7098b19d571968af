\* Three clients and two lines for lab8 and the chat, two clients and three
\* lines for the name server; one host with one value.
SPECIFICATION FairSpec
CONSTANTS
    Clients <- MCClients
    Lines <- MCLines
    Host = {"h"}
    Value = {"v"}
    Letter = {"a", "b"}
    Word <- MCWord
    VIETI = 2
    Header = 3
    Body = {0, 2}
\* Once the server is down and the clients have ended nothing happens.
CHECK_DEADLOCK FALSE
INVARIANTS NobodyLeftServerUp DeliveredOnce InStep LettersTold OutsideUnderstood EverybodyListed AnswersRight
PROPERTIES RequestsAnswered EndReachesAll
