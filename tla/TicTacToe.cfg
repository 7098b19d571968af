\* Four clients, so that two games run side by side and descriptors come
\* back; a board of three squares, so that both players get to move.
SPECIFICATION Spec
CONSTANTS
    N = 4
    s1 = s1
    s2 = s2
    s3 = s3
    Cell <- Squares
SYMMETRY Symmetric
\* The clients run out: the program itself would wait for the next one.
CHECK_DEADLOCK FALSE
INVARIANTS MovesReachThePartner OneOnMove StandstillOnlyAtStart BoardsAgree
    DownAfterAbandonedGame PartnerReleased
