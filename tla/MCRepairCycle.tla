---------------------------- MODULE MCRepairCycle ----------------------------
\* NZBs: a set with an index and two par2 files with recovery blocks, one whose first
\* file is a par2 file under another name, and those that have no par2 file, only
\* par2 files, a file without segments, or no file.
EXTENDS RepairCycle

Plain(n) == [type |-> "rar", header |-> "rar", segments |-> n, blocks |-> 0]
Par2(n, blocks) == [type |-> "par2", header |-> "par2", segments |-> n, blocks |-> blocks]
Disguised == [type |-> "other", header |-> "par2", segments |-> 1, blocks |-> 0]

MCNzbs ==
    {<<Plain(2), Par2(1, 0), Par2(1, 1), Par2(2, 2)>>,
     <<Disguised, Plain(1), Par2(1, 1)>>,
     <<Plain(1), Plain(2)>>, <<Par2(1, 0), Par2(2, 2)>>,
     <<Plain(1), Plain(0)>>, <<>>}
=============================================================================
