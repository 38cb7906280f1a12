------------------------------ MODULE MCAasFiles ------------------------------
EXTENDS AasFiles
Sizes == <<2, 3>>
TwoTables == << <<[number |-> 1, port |-> 1]>>, <<[number |-> 2, port |-> 1], [number |-> 3, port |-> 1]>> >>
=============================================================================
