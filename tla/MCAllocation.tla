---------------------------- MODULE MCAllocation ----------------------------
(* Small entries of each kind for TLC.                                     *)
EXTENDS Allocation, TLC

CONSTANTS
    d1, d2,
    x, y,       \* PARTNAMEs that match, or INTERFACEs
    z,          \* one that does not
    lx, ly,     \* what the group of the expression captures of x and of y
    pre,        \* the part of both that an expression without a group finds
    ex, ey      \* names of variables

Plain(n)        == [name |-> n, speed |-> Unreadable, up |-> TRUE, rdma |-> FALSE]
Partitions      == {Plain(n) : n \in {x, y, z}}
Nics(n, speeds) == [name : {n}, speed : speeds, up : BOOLEAN, rdma : {FALSE}]
RdmaNics(n)     == [name : {n}, speed : {Unreadable}, up : {TRUE}, rdma : BOOLEAN]

Entry(kind, groups, match, num, attrs) ==
    [kind |-> kind, groups |-> groups, match |-> match, num |-> num, attrs |-> attrs]

Captured   == x :> <<x, lx>> @@ y :> <<y, ly>>
Same       == x :> <<x, lx>> @@ y :> <<y, lx>>
Groupless  == x :> <<x>> @@ y :> <<y>>
Unanchored == x :> <<pre>> @@ y :> <<pre>>
TwoGroups  == x :> <<x, lx, ly>>

SmallEntries ==
    {Entry("part", 1, m, 0, Partitions) : m \in {Captured, Same}}
    \union {Entry("part", 0, Groupless, 0, Partitions), Entry("part", 2, TwoGroups, 0, Partitions)}
    \union {Entry("batch", 1, Captured, 0, Partitions), Entry("batch", 0, Unanchored, 2, Partitions)}
    \union {Entry("netbw", 0, Groupless, n, Nics(x, {Unreadable, -1, 1, 2}) \union Nics(y, {2})) :
                n \in {0, 1, 2, 7}}
    \union {Entry("netrdma", 0, Groupless, n, RdmaNics(x) \union RdmaNics(y)) : n \in {0, 2, 7}}

(* The variables of two labels may be one.                                 *)
SmallFold ==
    x :> ex @@ y :> ex @@ lx :> ex @@ ly :> ey @@ pre :> ey
=============================================================================
