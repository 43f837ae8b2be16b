CONSTANTS a = a b = b c = c d = d
          Events <- MCEvents
          Priority <- MCPriority
          MaxWhen = 1
          NULL = NULL
SPECIFICATION Spec
SYMMETRY MCSymmetry
PROPERTY ImplementsAgenda
