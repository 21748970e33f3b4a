--------------------------- MODULE MCStoragePlan ---------------------------
(* Instances of StoragePlan: one node group of two hosts. The sizes sit on the *)
(* planner's boundaries: 30 is an OS share and a pool share and nothing more,   *)
(* 29 has room for one of them, 35 leaves exactly what Ceph asks for (of the    *)
(* default 22; an edit asks for 25).                                            *)
EXTENDS StoragePlan

Disk(kind, size) == [kind |-> kind, size |-> size]

Uneven == <<Disk("NVMe", 30), Disk("NVMe", 35), Disk("NVMe", 51)>>
Mixed  == <<Disk("SSD", 34), Disk("HDD", 51), Disk("HDD", 51), Disk("NVMe", 35)>>
Small  == <<Disk("SSD", 29), Disk("SSD", 30), Disk("Unknown", 51)>>
Equal  == <<Disk("NVMe", 51), Disk("NVMe", 51), Disk("NVMe", 51)>>

\* On Uneven every place is a tie between equal kinds; on Mixed none is.
SomeBoxes == {Uneven, Mixed, Small}
EqualBoxes == {Mixed, Equal}

SomeOrders == {<<1, 2, 3, 4>>, <<4, 3, 2, 1>>}
AllOrders == {<<1, 2, 3, 4>>, <<3, 1, 2, 4>>, <<2, 3, 1, 4>>}

TwoHosts == <<"h1", "h2">>
OneGroup == [h \in {"h1", "h2"} |-> "workers"]

File(top, own) == [top |-> top, own |-> [g \in {"workers"} |-> own]]

\* Nothing said, and an edit of the top-level key alone.
AllFiles == {File(0, 0), File(25, 0)}
TopEdited == {File(25, 0)}

SecondHost == {"h2"}
BothHosts == {"h1", "h2"}
=============================================================================
