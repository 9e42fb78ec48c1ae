\* A KD11-EA with an odd stack pointer; no switches or power events.
SPECIFICATION CpuSpec
CONSTANTS
  CpuModels = {"KD11EA"}
  CpuTop = 8
  CpuLimit = 2
  CpuMemory = {0, 2, 4}
  CpuStacks = {4}
  CpuOdd = {"KD11EA"}
  CpuTraced = {}
  CpuMaxEvents = 0
PROPERTY
  StepEnds
