---------------------------- MODULE Fat12Table ----------------------------
(***************************************************************************)
(* The FAT12 table of fat12.c as bytes: entries of 12 bits, two of them in *)
(* three bytes.                                                            *)
(***************************************************************************)
EXTENDS Integers

FAT12_CLUSTER_FREE == 0

FAT12_CLUSTER_BAD == 4087

FAT12_CLUSTER_END_MIN == 4088

Byte == 0..255

Entry == 0..4095

Offset(c) == c + (c \div 2)

fat12_get_next_cluster(t, c) ==
    IF c % 2 = 1
    THEN (t[Offset(c)] \div 16) + t[Offset(c) + 1] * 16
    ELSE t[Offset(c)] + (t[Offset(c) + 1] % 16) * 256

set_NoMask(t, c, v) ==
    IF c % 2 = 1
    THEN [t EXCEPT ![Offset(c)] = (@ % 16) + ((v * 16) % 256), ![Offset(c) + 1] = v \div 16]
    ELSE [t EXCEPT ![Offset(c)] = v % 256, ![Offset(c) + 1] = v \div 256]

fat12_set_next_cluster(t, c, v) ==
    IF c % 2 = 1
    THEN [t EXCEPT ![Offset(c)] = (@ % 16) + ((v * 16) % 256), ![Offset(c) + 1] = v \div 16]
    ELSE [t EXCEPT ![Offset(c)] = v % 256, ![Offset(c) + 1] = (@ - (@ % 16)) + (v \div 256)]

============================================================================
