SPECIFICATION Spec
CONSTANTS Letters = {"a", "b"}
          Digits = {"1"}
          Qualifier <- MCQualifier
          Values = {"v1", "v2"}
          quote <- MCquote
          ParamLists <- MCParamLists
          Statements <- MCStatements
          Renamings <- MCRenamings
          MaxUnits = 3
INVARIANTS TypeOK OnlySuffixEndsLost ParametersInOrder SaysWhatIsAsked PreparedSaysTheSame RefusedForAReason
PROPERTY CallsAnswered
