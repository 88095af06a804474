SPECIFICATION MCSpec
CONSTANTS
    u1 = u1  u2 = u2
    User = {u1, u2}
    Nobody = Nobody
    Moves <- MCMoves
    LastVersion = 4
    rose = rose  fern = fern
    Taken = {"o1"}
    Stem = {rose, fern}
    Bouquet = {"bouquet"}
    Heading = {"typed", "other"}
    Content <- MCContent
    Unsaved = "unsaved"
INVARIANTS BothTypeOK NothingLeavesUnassembled ActsOnWhatItSees ScreensAreTrue NoStrayAssignment
PROPERTIES MovesEnd
CHECK_DEADLOCK FALSE
