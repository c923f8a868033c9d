CONSTANTS
  Agenda <- MCAgenda
  InitialRates <- MCInitialRates
  Args <- MCArgs
  MaxChoices = 7
  InitialConvert <- MCConvert
  Tables = {"typeA", "typeB"}
  Records = {r1}
  Arrays <- MCArrays
  CtrlSize <- MCCtrlSize
  ValueSize <- MCValueSize
  InitialLimits = {40, 200}
SPECIFICATION Spec
INVARIANTS TypeOK SortedDescending StringsOwned RecordsKeepTable ArraysServed TablesSelectable
PROPERTIES FixedChoicesKept RatesSpec
