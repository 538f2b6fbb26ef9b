SPECIFICATION QueriesSpec
CONSTANTS
  Columns <- MCColumns
  IsoDate <- MCIsoDate
  LongText <- MCLongText
  Statements <- MCStatements
  Catalogs <- MCCatalogs
  RowsOf <- MCRowsOf
  Relevance <- MCRelevance
  RowLimit = 2
INVARIANT QueriesAnswer
CHECK_DEADLOCK FALSE
