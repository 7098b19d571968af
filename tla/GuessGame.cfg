\* Three players, two numbers (0 is special, 1 is tried), two lives, three commands.
SPECIFICATION FairSpec
CONSTANTS
    N = 3
    Digit = {0, 1}
    Tried = {1}
    Lives = 2
    MaxTyped = 3
\* Once the server is down and the clients have ended nothing happens.
CHECK_DEADLOCK FALSE
INVARIANTS EverybodyTold RightMeansFound
PROPERTY GameOverReachesAll
