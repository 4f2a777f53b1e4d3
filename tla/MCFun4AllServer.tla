-------------------------- MODULE MCFun4AllServer --------------------------
EXTENDS Fun4AllServer

MCInputs == 1..2
MCFiles == {"r1", "r2", "none", "bg"}
\* an event of run 1, one of run 2, an empty file, and two events of a file
\* without run header
MCFileEvents == [r1 |-> 1, r2 |-> 1, none |-> 0, bg |-> 2]
MCFileRun == [r1 |-> 1, r2 |-> 2, none |-> 2, bg |-> 0]

\* The second input has as many events in one file (which fits the change of run
\* if its run tree is not read), fewer events and the only run number, or no list,
\* so that the macro opens a file of any run.
MCFileLists == {<<<<"r1", "none", "r2">>, <<"bg">>>>,
                <<<<"bg", "bg">>, <<"r1">>>>,
                <<<<"r2">>, <<>>>>}
MCNoRunTTrees == {{}, {2}}

MCModules == <<"m1", "m2">>
\* one selects by no module, one by the second
MCEventSelectors == [all |-> {}, some |-> {"m2"}]

MCRequests == {[nevnts |-> 0, require_nevents |-> FALSE],
               [nevnts |-> 1, require_nevents |-> TRUE],
               [nevnts |-> 2, require_nevents |-> FALSE]}
MCRepeats == {0, 1}
MCForcedRuns == {0, 7}
=============================================================================
