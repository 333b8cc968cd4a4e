SPECIFICATION FairSpec
CONSTANTS
  Nodes = {n1, n2}
  Usages = {65, 79, 80}
  PausePct = 80
  ResumePct = 65
  MaxFaults = 2
  MaxOps = 2
INVARIANTS TypeOK PauseIsClaimed
PROPERTIES ResumeAfterRelief FullDiskPauses LowDiskResumes
