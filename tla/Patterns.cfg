CONSTANTS
  Arguments <- MCArguments
  Conditions <- MCConditions
  Variables <- MCVariables
  MaxLong = 20
  Database <- MCDatabase
  Queries <- MCQueries
  Listings <- MCListings
SPECIFICATION ShellSpec
INVARIANTS TypeOK MatchIsGlob VariableAsAsked LinksListed LaterInfosListed ListedFilesFirst
PROPERTIES Returns
