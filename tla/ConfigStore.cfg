SPECIFICATION Spec
CONSTANTS
  Pids = {1, 2}
  Containers = {"k1", "k2"}
  ContOf <- MCContOf
  NameOf <- MCNameOf
  ImageOf <- MCImageOf
  Cmds = {"a", "b"}
  CmdOf <- MCCmdOf
  Execs = {1}
  NoCmd = "null"
  Freed = "freed"
  Inputs <- MCInputs
  Modes = {"CGRP", "CMDLINE"}
  MaxParams = 4
INVARIANTS TypeOK LinksAgree BlocksOwned RightContainer
PROPERTIES OnlyMoreSpecific SettingsWritten
CHECK_DEADLOCK FALSE
