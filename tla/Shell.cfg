CONSTANTS
  Lines <- MCLines
  MaxChildren = 3
  MaxPipeFailures = 1
  Garbage <- MCUninitialized
SPECIFICATION FairSpec
INVARIANTS
  TypeOK
  NoForgottenZombie
  ForegroundDone
  ShellKeepsNoPipe
  SoleWriter
  Wired
  ParsesWhatWasAsked
  TokensSpellTheLine
PROPERTIES
  PromptReturns
  ZombiesReaped
