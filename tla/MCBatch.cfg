CONSTANT Members = {m1, m2}
SPECIFICATION FairSpec
INVARIANTS CompletedMeansCommitted
PROPERTIES AnnouncedIsVerified OnlyOverwriteReplaces IntactIsNotRebuilt Completes
