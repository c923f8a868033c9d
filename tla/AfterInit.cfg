CONSTANTS
  Agenda <- MCAgenda
  MaxItems = 4
  Hooks <- MCHooks
  Words <- MCWords
SPECIFICATION Spec
INVARIANTS TypeOK ListInv WalkInv RunInOrder NoneLeftOut
PROPERTIES QueuesSpec
