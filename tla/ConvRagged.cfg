CONSTANT Launches = {"conv_ragged"}
CONSTANT Kernels <- Launched
SPECIFICATION FairSpec
INVARIANT AnswerIsWhole
