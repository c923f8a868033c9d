CONSTANTS
  Agenda <- MCAgenda
  MaxItems = 2
  Hooks <- MCHooks
  Words <- MCWordsOrNone
SPECIFICATION Spec
INVARIANT OnlyCommandsQueued
