SPECIFICATION Spec
CONSTANTS
  StepCount = 3
  Requires <- Requires3
  Passes <- Pass1
  Files <- File2
  Refusing <- Pass1
  Unavailable <- NoSteps
  Runs = {r1, r2}
  NoRun = NoRun
  Requests <- Requests3
  RestartLimit = 0
  InterruptLimit = 1
INVARIANTS
  OneRunActs
  OneProcessPerStep
  NoLockOutlivesItsHolder
  EmptyingComesFirst
  AccountNamesEveryStep
  LockedOrphansAreSeen
  WhatARunSettledStands
PROPERTY KeepsThePromise
