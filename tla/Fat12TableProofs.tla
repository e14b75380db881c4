------------------------- MODULE Fat12TableProofs -------------------------
(***************************************************************************)
(* The packed FAT behaves as an array of 12-bit entries: writing an entry  *)
(* changes that entry and no other, in a table of any size.                *)
(***************************************************************************)
EXTENDS Fat12Table, TLAPS

\* The two bytes of an entry lie in the table.
Fits(t, c) == {Offset(c), Offset(c) + 1} \subseteq DOMAIN t

\* fat12_set_next_cluster leaves a table of bytes.
THEOREM SetKeepsBytes ==
    ASSUME NEW D \in SUBSET Nat, NEW t \in [D -> Byte], NEW c \in Nat, NEW v \in Entry, Fits(t, c)
    PROVE  fat12_set_next_cluster(t, c, v) \in [D -> Byte]
<1>1. Offset(c) \in D /\ Offset(c) + 1 \in D /\ Offset(c) # Offset(c) + 1
  BY DEF Fits, Offset
<1>2. t[Offset(c)] \in Byte /\ t[Offset(c) + 1] \in Byte
  BY <1>1, Zenon
<1>3. v \div 16 \in Byte /\ v % 256 \in Byte
  <2>1. v \in Int /\ 0 <= v /\ v <= 4095
    BY DEF Entry
  <2>2. v \div 16 \in Int /\ 0 <= v \div 16 /\ v \div 16 <= 255
    BY <2>1, SMT
  <2>3. v % 256 \in Int /\ 0 <= v % 256 /\ v % 256 <= 255
    BY <2>1, SMT
  <2>4. \A x \in Int : 0 <= x /\ x <= 255 => x \in Byte
    BY DEF Byte
  <2>5. QED
    BY <2>1, <2>2, <2>3, <2>4
<1>4. \A b \in Byte : (b % 16) + ((v * 16) % 256) \in Byte
  <2>1. (v * 16) % 256 = (v % 16) * 16
    BY SMT DEF Entry
  <2>2. v % 16 \in 0..15 /\ \A b \in Byte : b % 16 \in 0..15
    BY SMT DEF Byte, Entry
  <2>3. \A x, y \in 0..15 : x + y * 16 \in Byte
    BY SMT DEF Byte
  <2>4. QED
    BY <2>1, <2>2, <2>3, Zenon
<1>5. \A b \in Byte : (b - (b % 16)) + (v \div 256) \in Byte
  BY SMT DEF Byte, Entry
<1>6. QED
  BY <1>1, <1>2, <1>3, <1>4, <1>5 DEF fat12_set_next_cluster

\* fat12_get_next_cluster returns what fat12_set_next_cluster stored.
THEOREM GetAfterSet ==
    ASSUME NEW D \in SUBSET Nat, NEW t \in [D -> Byte], NEW c \in Nat, NEW v \in Entry, Fits(t, c)
    PROVE  fat12_get_next_cluster(fat12_set_next_cluster(t, c, v), c) = v
<1> DEFINE o == Offset(c)
           s == fat12_set_next_cluster(t, c, v)
<1>1. o \in D /\ o + 1 \in D /\ o # o + 1 /\ o \in Nat
  BY DEF Fits, Offset
<1>2. t[o] \in Byte /\ t[o + 1] \in Byte
  BY <1>1
<1>3. CASE c % 2 = 1
  <2>1. s[o] = (t[o] % 16) + ((v * 16) % 256) /\ s[o + 1] = v \div 16
    BY <1>1, <1>3 DEF fat12_set_next_cluster
  <2>2. \A b \in Byte : (((b % 16) + ((v * 16) % 256)) \div 16) + (v \div 16) * 16 = v
    BY SMT DEF Byte, Entry
  <2>3. QED
    BY <1>2, <1>3, <2>1, <2>2 DEF fat12_get_next_cluster
<1>4. CASE c % 2 # 1
  <2>1. s[o] = v % 256 /\ s[o + 1] = (t[o + 1] - (t[o + 1] % 16)) + (v \div 256)
    BY <1>1, <1>4 DEF fat12_set_next_cluster
  <2>2. \A b \in Byte : (v % 256) + (((b - (b % 16)) + (v \div 256)) % 16) * 256 = v
    BY SMT DEF Byte, Entry
  <2>3. QED
    BY <1>2, <1>4, <2>1, <2>2 DEF fat12_get_next_cluster
<1>5. QED
  BY <1>3, <1>4

\* fat12_set_next_cluster changes no other entry, although neighbours share a
\* byte.
THEOREM SetKeepsOthers ==
    ASSUME NEW D \in SUBSET Nat, NEW t \in [D -> Byte], NEW c \in Nat, NEW v \in Entry, Fits(t, c),
           NEW d \in Nat, d # c, Fits(t, d)
    PROVE  fat12_get_next_cluster(fat12_set_next_cluster(t, c, v), d) = fat12_get_next_cluster(t, d)
<1> DEFINE o == Offset(c)
           p == Offset(d)
           s == fat12_set_next_cluster(t, c, v)
<1>1. /\ o \in D /\ o + 1 \in D /\ o \in Nat /\ t[o] \in Byte /\ t[o + 1] \in Byte
      /\ p \in D /\ p + 1 \in D /\ p \in Nat
  BY DEF Fits, Offset
<1>2. CASE c % 2 = 1
  <2>1. /\ s[o] = (t[o] % 16) + ((v * 16) % 256)
        /\ \A i \in D : i # o /\ i # o + 1 => s[i] = t[i]
    BY <1>1, <1>2 DEF fat12_set_next_cluster
  <2>2. p # o /\ p # o + 1 /\ (p + 1 = o => d % 2 # 1) /\ p + 1 # o + 1
    BY <1>2, SMT DEF Offset
  <2>3. s[p] = t[p]
    BY <1>1, <2>1, <2>2
  <2>4. \A b \in Byte : ((b % 16) + ((v * 16) % 256)) % 16 = b % 16
    BY SMT DEF Byte, Entry
  <2>5. CASE p + 1 = o
    BY <1>1, <2>1, <2>2, <2>3, <2>4, <2>5 DEF fat12_get_next_cluster
  <2>6. CASE p + 1 # o
    BY <1>1, <2>1, <2>2, <2>3, <2>6 DEF fat12_get_next_cluster
  <2>7. QED
    BY <2>5, <2>6
<1>3. CASE c % 2 # 1
  <2>1. /\ s[o + 1] = (t[o + 1] - (t[o + 1] % 16)) + (v \div 256)
        /\ \A i \in D : i # o /\ i # o + 1 => s[i] = t[i]
    BY <1>1, <1>3 DEF fat12_set_next_cluster
  <2>2. p # o /\ (p = o + 1 => d % 2 = 1) /\ p + 1 # o /\ p + 1 # o + 1
    BY <1>3, SMT DEF Offset
  <2>3. s[p + 1] = t[p + 1]
    BY <1>1, <2>1, <2>2
  <2>4. \A b \in Byte : ((b - (b % 16)) + (v \div 256)) \div 16 = b \div 16
    BY SMT DEF Byte, Entry
  <2>5. CASE p = o + 1
    BY <1>1, <2>1, <2>2, <2>3, <2>4, <2>5 DEF fat12_get_next_cluster
  <2>6. CASE p # o + 1
    BY <1>1, <2>1, <2>2, <2>3, <2>6 DEF fat12_get_next_cluster
  <2>7. QED
    BY <2>5, <2>6
<1>4. QED
  BY <1>2, <1>3

============================================================================
