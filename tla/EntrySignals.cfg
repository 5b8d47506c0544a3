\* One thread, the main one or a cloned one, with up to two nested signals.
\* Interruptible: a representative label for each kind of instruction that
\* tolerates a signal (README, "Where a signal may arrive").
SPECIFICATION Spec
CONSTANTS
  Interruptible = {"app", "mon", "hook0", "meta1", "exit4", "clone2", "cah1",
                   "cah7", "cah12", "back0", "back6", "wrap1", "push2", "tr1",
                   "hs0", "boot2", "child5"}
  MaxSignals = 2
  Requests <- Handlers
  Starts = {"boot", "child"}
INVARIANTS TypeOK AppConfined MonitorReady FrameIsFree NoCheckFails TablesAgree
PROPERTIES Resumes
