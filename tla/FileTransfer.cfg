SPECIFICATION AllFairSpec
CONSTANTS
  Programs = {"2.3", "3.2", "old 2.3", "old 3.1", "old thread", "old 3.2", "old pipe", "old 3.3"}
  Timed = TRUE
  f = f
  g = g
  Files = {f, g}
  Versions <- OneAndThree
  Absent = Absent
  ChunkSize = 2
  MaxTyped = 2
  Garbage <- Wrong
INVARIANTS OldTypeOK
PROPERTIES DownloadComplete OthersKept GetAnswered QuitEnds TaskEnds
CHECK_DEADLOCK FALSE
