-------------------------- MODULE FilesystemSyncMC --------------------------
(* A folder h with a file a, in a folder f that has records as well, or beside a *)
(* folder f that another program made.                                            *)
EXTENDS FilesystemSync, TLC

CONSTANT c1

F  == <<"f">>
FH == <<"f", "h">>
H  == <<"h">>
File(d) == Append(d, "a")

TheFolders == {Root, F, FH, H}
TheFiles   == {File(FH), File(F), File(H)}
Row(p, up)  == [path |-> p, parent |-> up, status |-> "active"]
AtFirst(D, d, folders) ==
    [dirs  |-> D,
     files |-> [p \in {File(d)} |-> c1],
     db    |-> [images  |-> <<[src |-> File(d), folder |-> Len(folders), status |-> "active"]>>,
                folders |-> folders]]
TheStarts  == {AtFirst({Root, F, FH}, FH, <<Row(Root, NoId), Row(F, 1), Row(FH, 2)>>),
               AtFirst({Root, F, H}, H, <<Row(Root, NoId), Row(H, 1)>>)}
ASSUME StartsInStep

TheWalk    == <<F, FH, H, File(FH), File(F), File(H)>>
TwoThreads == Permutations(Threads)
=============================================================================
