SPECIFICATION Spec
CONSTANTS
  Unit = 4
  Waves = {"CONSTANT", "SQUARE", "SAWTOOTH", "STAIRSTEP", "SINE", "TRIANGLE"}
  Periods = {8, 9, 11, 40, 42, 47}
  Phases = {0, 1, 3, 6, 50}
  Duty = 3
  MaxSamples = 30
  Firmwares = {"023314a*", "2.17"}
  SampleRates = {1, 2, 62, 100, 125, 170, 171, 256, 257, 300, 999, 1000, 1005, 4583, 6250, 6251, 7016, 44100, 62500, 99790, 100000, 100001, 150000}
  Captures = {1, 255, 256, 257, 1000, 40000, 40960}
  SamplesMod = 40960
  Sizes = {1, 4, 255, 256, 257, 511, 512, 2047, 2048}
INVARIANTS FollowsPhase WithinPeak RateWithinHalfTick  PagesCoverFile
CHECK_DEADLOCK FALSE
