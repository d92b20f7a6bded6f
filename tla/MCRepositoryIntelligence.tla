---------------------- MODULE MCRepositoryIntelligence ----------------------
EXTENDS RepositoryIntelligence

\* A file two directories deep, a file at the top, and a submodule.
SmallTree ==
  <<[size |-> 2, depth |-> 3, dirs |-> {"d", "d/e"}, link |-> FALSE, included |-> TRUE],
    [size |-> 1, depth |-> 1, dirs |-> {}, link |-> FALSE, included |-> FALSE],
    [size |-> 0, depth |-> 1, dirs |-> {}, link |-> TRUE, included |-> FALSE]>>

With(adapters) ==
  [commands |-> 9, files |-> 9, treeRecords |-> 9, depth |-> 9, dirs |-> 9,
   fileBytes |-> 9, total |-> 9, scope |-> FALSE, adapters |-> adapters]
Ample == With(<<IntegrationDeclarations, Containers>>)
\* Every adapter without limits, and each limit reached on its own.
OneTight ==
  {Ample, With(<<CiWorkflows, Interfaces>>), With(<<Node, Pmpe>>), With(<<Python, Topology>>),
   [Ample EXCEPT !.commands = 1], [Ample EXCEPT !.commands = 3],
   [Ample EXCEPT !.commands = 4], [Ample EXCEPT !.commands = 5],
   [Ample EXCEPT !.files = 1], [Ample EXCEPT !.treeRecords = 1],
   [Ample EXCEPT !.files = 2, !.scope = TRUE], [Ample EXCEPT !.depth = 2],
   [Ample EXCEPT !.dirs = 1], [Ample EXCEPT !.fileBytes = 1], [Ample EXCEPT !.total = 1]}
=============================================================================
