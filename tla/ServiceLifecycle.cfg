SPECIFICATION FairSpec
INVARIANTS TypeOK NoUseAfterDelete
PROPERTIES OthersEnd StopsWhenAsked
