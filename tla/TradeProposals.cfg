\* Two proposals, and a cron that expires one at a time.
CONSTANTS
    Proposals = {p1, p2}
    PROPOSAL_EXPIRY_BATCH = 1
    BrokerMode = "mock"
SPECIFICATION FairSpec
INVARIANTS RecordsAreTrue
PROPERTIES TurnedDownForGood StaleProposalsClose
