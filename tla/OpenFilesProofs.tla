-------------------------- MODULE OpenFilesProofs --------------------------
(***************************************************************************)
(* Theorems about the tables behind open files, for any number of          *)
(* processes, files, slots and descriptors, with closes and forks while    *)
(* another process sleeps in a call.                                       *)
(***************************************************************************)
EXTENDS OpenFiles, FiniteSetTheorems, SequenceTheorems, TLAPS

Listed(o) == \E k \in DOMAIN open_inodes : open_inodes[k] = o
Named(i)  == \E n \in Name : <<n, i>> \in dir
Unused(i) == \A o \in Obj : SlotsOf(o) # {} => mem[o].i_no # i

Inodes == [i_no : Ino \cup {None}, i_open_cnts : Nat, write_deny : BOOLEAN,
           heap : Proc \cup {"kernel", "none"}]

Calls == [name : Name \cup {None}, ino : Ino \cup {None}, write : BOOLEAN,
          slot : Slot \cup {None}, obj : Obj \cup {None}]

FilesType ==
  /\ dir \subseteq Name \X Ino
  /\ inode_bitmap \subseteq Ino
  /\ file_table \in [Slot -> Obj \cup {None}]
  /\ mem \in [Obj -> Inodes]
  /\ open_inodes \in Seq(Obj)
  /\ fd_table \in [Proc -> [Fd -> Slot \cup {None}]]
  /\ pc = [t \in Proc |-> pc[t]]
  /\ call \in [Proc -> Calls]

OneInside == \A t, u \in Proc : pc[t] # "user" /\ pc[u] # "user" => t = u

(* An inode on open_inodes is there once, and is counted for every slot.   *)
ListOK ==
  /\ \A j, k \in DOMAIN open_inodes : open_inodes[j] = open_inodes[k] => j = k
  /\ \A o \in Obj : Listed(o) =>
       /\ mem[o].i_no \in Ino
       /\ mem[o].i_open_cnts >= 1
       /\ mem[o].i_open_cnts >= Cardinality(SlotsOf(o))

(* What is in file_table is the first one on the list with its number: an  *)
(* inode that was deleted while a count was left over stays on the list,   *)
(* behind the new one that got its number.                                 *)
OpenOK ==
  \A k \in DOMAIN open_inodes : SlotsOf(open_inodes[k]) # {} =>
    /\ mem[open_inodes[k]].i_no \in inode_bitmap /\ Named(mem[open_inodes[k]].i_no)
    /\ \A j \in DOMAIN open_inodes : mem[open_inodes[j]].i_no = mem[open_inodes[k]].i_no => k <= j

DirOK == \A e \in dir : e[2] \in inode_bitmap

Making(t) == pc[t] \in {"creating", "created"}

SlotsOK ==
  \A o \in Obj : SlotsOf(o) # {} => Listed(o) \/ \E t \in Proc : Making(t) /\ call[t].obj = o

(* What a process in the middle of a call relies on.                       *)
InCall(t) ==
  LET c == call[t] IN
  /\ pc[t] = "reading" =>
       c.slot \in Slot /\ file_table[c.slot] = None /\ c.ino \in Ino /\ Cached(c.ino) = {} /\ Named(c.ino)
       /\ c.write \in BOOLEAN
  /\ Making(t) =>
       /\ c.slot \in Slot /\ c.obj \in Obj /\ c.ino \in inode_bitmap /\ c.name \in Name
       /\ ~Listed(c.obj) /\ SlotsOf(c.obj) = {c.slot} /\ mem[c.obj].i_no = c.ino /\ mem[c.obj].heap = t
       /\ \A p \in Obj \ {c.obj} : SlotsOf(p) # {} => mem[p].i_no # c.ino
       /\ IF pc[t] = "created" THEN <<c.name, c.ino>> \in dir ELSE ~Named(c.ino)
  /\ pc[t] \in {"unlinking", "fetching", "releasing", "deleting"} =>
       /\ c.ino \in Ino /\ Unused(c.ino)
       /\ pc[t] # "unlinking" => ~Named(c.ino)
       /\ pc[t] \in {"releasing", "deleting"} =>
            c.obj \in Obj /\ Listed(c.obj) /\ mem[c.obj].i_no = c.ino

CallOK == OneInside /\ \A t \in Proc : InCall(t)

FilesInv == FilesType /\ ListOK /\ OpenOK /\ DirOK /\ SlotsOK /\ CallOK
-----------------------------------------------------------------------------
(* Every scan of the code takes the first that fits: there is one.         *)
LEMMA LeastOK ==
  ASSUME NEW S \in SUBSET Nat, S # {}
  PROVE  Least(S) \in S /\ \A y \in S : Least(S) <= y
<1> DEFINE Below(x) == 0 .. (x - 1)
           T == {Below(x) : x \in S}
           R == StrictSubsetOrdering(Nat)
<1>1. T # {} /\ T \subseteq FiniteSubsetsOf(Nat)
  <2>1. ASSUME NEW x \in S PROVE Below(x) \subseteq Nat /\ IsFiniteSet(Below(x))
    <3>1. x - 1 \in Int /\ 0 \in Int
      OBVIOUS
    <3> QED
      BY <3>1, FS_Interval
  <2> HIDE DEF Below
  <2> QED
    BY <2>1 DEF FiniteSubsetsOf
<1>2. PICK m \in T : \A n \in T : ~(<<n, m>> \in R)
  <2> HIDE DEF T, R
  <2> QED
    BY <1>1, FS_StrictSubsetOrderingWellFounded, WFMin DEF R
<1>3. PICK x \in S : m = Below(x)
  BY <1>2
<1>4. \A y \in S : x <= y
  <2> SUFFICES ASSUME NEW y \in S, y < x PROVE FALSE
    OBVIOUS
  <2>1. Below(y) \subseteq Below(x) /\ y \in Below(x) /\ y \notin Below(y) /\ Below(x) \subseteq Nat
    OBVIOUS
  <2> HIDE DEF Below
  <2>2. <<Below(y), Below(x)>> \in StrictSubsetOrdering(Nat)
    BY <2>1 DEF StrictSubsetOrdering
  <2> QED
    BY <1>2, <1>3, <2>2
<1> QED
  BY <1>4 DEF Least

(* list_remove takes one element out and leaves the others in their order. *)
LEMMA RemoveOK ==
  ASSUME NEW S, NEW q \in Seq(S), NEW k \in DOMAIN q
  PROVE  /\ RemoveAt(q, k) \in Seq(S)
         /\ DOMAIN RemoveAt(q, k) = 1 .. (Len(q) - 1)
         /\ \A i \in 1 .. (Len(q) - 1) : RemoveAt(q, k)[i] = q[IF i < k THEN i ELSE i + 1]
<1> DEFINE a == SubSeq(q, 1, k - 1)
           b == SubSeq(q, k + 1, Len(q))
<1>1. /\ Len(q) \in Nat /\ DOMAIN q = 1 .. Len(q) /\ k \in 1 .. Len(q) /\ k \in Int /\ Len(q) \in Int
      /\ \A i \in 1 .. Len(q) : q[i] \in S
  OBVIOUS
<1>2. a \in Seq(S) /\ Len(a) = k - 1 /\ \A i \in 1 .. (k - 1) : a[i] = q[i]
  <2>1. 1 \in Int /\ k - 1 \in Int /\ \A i \in 1 .. (k - 1) : q[i] \in S
    BY <1>1
  <2> QED
    BY <1>1, <2>1, SubSeqProperties
<1>3. b \in Seq(S) /\ Len(b) = Len(q) - k /\ \A i \in 1 .. (Len(q) - k) : b[i] = q[k + i]
  <2>1. k + 1 \in Int /\ \A i \in (k + 1) .. Len(q) : q[i] \in S
    BY <1>1
  <2>2. /\ b \in Seq(S) /\ Len(b) = IF k + 1 <= Len(q) THEN Len(q) - (k + 1) + 1 ELSE 0
        /\ \A i \in 1 .. Len(q) - (k + 1) + 1 : b[i] = q[(k + 1) + i - 1]
    BY <1>1, <2>1, SubSeqProperties
  <2> HIDE DEF b
  <2>3. Len(q) - (k + 1) + 1 = Len(q) - k /\ \A i \in Int : (k + 1) + i - 1 = k + i
    BY <1>1
  <2>4. k <= Len(q) /\ ~(k + 1 <= Len(q)) => Len(q) - k = 0
    BY <1>1
  <2>5. Len(b) = Len(q) - k
    <3>1. CASE k + 1 <= Len(q)
      BY <2>2, <2>3, <3>1
    <3>2. CASE ~(k + 1 <= Len(q))
      BY <1>1, <2>2, <2>4, <3>2
    <3> QED
      BY <3>1, <3>2
  <2>6. ASSUME NEW i \in 1 .. (Len(q) - k) PROVE b[i] = q[k + i]
    <3>1. i \in 1 .. Len(q) - (k + 1) + 1
      BY <2>3
    <3>2. (k + 1) + i - 1 = k + i
      BY <1>1
    <3> QED
      BY <2>2, <3>1, <3>2
  <2> QED
    BY <2>2, <2>5, <2>6
<1> HIDE DEF a, b
<1>4. /\ a \o b \in Seq(S) /\ Len(a \o b) = Len(a) + Len(b)
      /\ \A i \in 1 .. Len(a) + Len(b) : (a \o b)[i] = IF i <= Len(a) THEN a[i] ELSE b[i - Len(a)]
  BY <1>2, <1>3, ConcatProperties
<1>5. RemoveAt(q, k) = a \o b
  BY DEF RemoveAt, a, b
<1>6. Len(a) + Len(b) = Len(q) - 1
  BY <1>1, <1>2, <1>3
<1>7. ASSUME NEW i \in 1 .. (Len(q) - 1) PROVE (a \o b)[i] = q[IF i < k THEN i ELSE i + 1]
  <2>1. (a \o b)[i] = IF i <= k - 1 THEN a[i] ELSE b[i - (k - 1)]
    BY <1>2, <1>4, <1>6
  <2>2. CASE i < k
    <3>1. i <= k - 1 /\ i \in 1 .. (k - 1)
      BY <1>1, <2>2
    <3> QED
      BY <1>2, <2>1, <2>2, <3>1
  <2>3. CASE ~(i < k)
    <3>1. ~(i <= k - 1) /\ i - (k - 1) \in 1 .. (Len(q) - k) /\ k + (i - (k - 1)) = i + 1
      BY <1>1, <2>3
    <3> QED
      BY <1>3, <2>1, <2>3, <3>1
  <2> QED
    BY <2>2, <2>3
<1>8. DOMAIN (a \o b) = 1 .. (Len(q) - 1)
  BY <1>4, <1>6
<1> QED
  BY <1>4, <1>5, <1>7, <1>8

LEMMA WithoutOK ==
  ASSUME NEW S, NEW q \in Seq(S), NEW o, \E j \in DOMAIN q : q[j] = o,
         \A i, j \in DOMAIN q : q[i] = q[j] => i = j,
         NEW w, w = Without(q, o)
  PROVE  /\ w \in Seq(S)
         /\ \A j \in DOMAIN w : w[j] # o
         /\ \A j \in DOMAIN q : q[j] # o => \E i \in DOMAIN w : w[i] = q[j]
         /\ \A i, j \in DOMAIN w : w[i] = w[j] => i = j
         /\ \E f \in [DOMAIN w -> DOMAIN q] :
              /\ \A i \in DOMAIN w : w[i] = q[f[i]]
              /\ \A i, j \in DOMAIN w : i <= j <=> f[i] <= f[j]
<1> DEFINE k == Least({j \in DOMAIN q : q[j] = o})
           f == [i \in DOMAIN w |-> IF i < k THEN i ELSE i + 1]
<1>1. k \in DOMAIN q /\ q[k] = o
  <2>1. {j \in DOMAIN q : q[j] = o} \in SUBSET Nat /\ {j \in DOMAIN q : q[j] = o} # {}
    OBVIOUS
  <2> QED
    BY <2>1, LeastOK
<1>2. w = RemoveAt(q, k)
  BY DEF Without
<1> HIDE DEF k
<1>3. /\ Len(q) \in Nat /\ DOMAIN q = 1 .. Len(q) /\ k \in 1 .. Len(q)
      /\ w \in Seq(S) /\ DOMAIN w = 1 .. (Len(q) - 1)
      /\ \A i \in 1 .. (Len(q) - 1) : w[i] = q[IF i < k THEN i ELSE i + 1]
  BY <1>1, <1>2, RemoveOK
<1>4. \A i \in DOMAIN w : f[i] \in DOMAIN q /\ w[i] = q[f[i]] /\ f[i] # k
  BY <1>3
<1>5. ASSUME NEW i \in DOMAIN w, NEW j \in DOMAIN w
      PROVE  (i <= j <=> f[i] <= f[j]) /\ (f[i] = f[j] => i = j)
  <2>1. i \in Int /\ j \in Int /\ k \in Int
    BY <1>3
  <2>2. f[i] = (IF i < k THEN i ELSE i + 1) /\ f[j] = (IF j < k THEN j ELSE j + 1)
    OBVIOUS
  <2> HIDE DEF f
  <2> QED
    BY <2>1, <2>2
<1>6. ASSUME NEW j \in DOMAIN q, q[j] # o PROVE \E i \in DOMAIN w : w[i] = q[j]
  <2>1. CASE j < k
    <3>1. j \in 1 .. (Len(q) - 1)
      BY <1>3, <2>1
    <3> QED
      BY <1>3, <2>1, <3>1
  <2>2. CASE ~(j < k)
    <3>1. j > k /\ j - 1 \in DOMAIN w /\ ~(j - 1 < k) /\ (j - 1) + 1 = j
      BY <1>1, <1>3, <1>6, <2>2
    <3> QED
      BY <1>3, <3>1
  <2> QED
    BY <2>1, <2>2
<1>7. f \in [DOMAIN w -> DOMAIN q]
  BY <1>4
<1> HIDE DEF f
<1>8. \A j \in DOMAIN w : w[j] # o
  BY <1>1, <1>4
<1>9. \A i, j \in DOMAIN w : w[i] = w[j] => i = j
  BY <1>4, <1>5
<1> QED
  BY <1>3, <1>4, <1>5, <1>6, <1>7, <1>8, <1>9
-----------------------------------------------------------------------------
LEMMA SlotsFinite ==
  ASSUME NEW o
  PROVE  IsFiniteSet(SlotsOf(o)) /\ Cardinality(SlotsOf(o)) \in Nat
<1>1. IsFiniteSet(Slot) /\ SlotsOf(o) \subseteq Slot
  BY OpenFilesAssumption DEF OpenFilesAssumption, SlotsOf
<1> QED
  BY <1>1, FS_Subset, FS_CardinalityType

LEMMA FillSlot ==
  ASSUME FilesType, NEW s \in Slot, file_table[s] = None, NEW o \in Obj,
         file_table' = [file_table EXCEPT ![s] = o]
  PROVE  /\ SlotsOf(o)' = SlotsOf(o) \cup {s}
         /\ Cardinality(SlotsOf(o)') = Cardinality(SlotsOf(o)) + 1
         /\ \A p \in Obj \ {o} : SlotsOf(p)' = SlotsOf(p)
         /\ \A r \in Slot \ {s} : file_table'[r] = file_table[r]
         /\ file_table'[s] = o
<1>1. None \notin Obj
  BY OpenFilesAssumption DEF OpenFilesAssumption
<1>2. /\ \A r \in Slot \ {s} : file_table'[r] = file_table[r]
      /\ file_table'[s] = o
  BY DEF FilesType
<1>3. SlotsOf(o)' = SlotsOf(o) \cup {s} /\ s \notin SlotsOf(o)
  BY <1>1, <1>2 DEF SlotsOf
<1>4. \A p \in Obj \ {o} : SlotsOf(p)' = SlotsOf(p)
  BY <1>1, <1>2 DEF SlotsOf
<1> QED
  BY <1>2, <1>3, <1>4, SlotsFinite, FS_AddElement

LEMMA ClearSlot ==
  ASSUME FilesType, NEW s \in Slot, NEW o \in Obj, file_table[s] = o,
         file_table' = [file_table EXCEPT ![s] = None]
  PROVE  /\ SlotsOf(o)' = SlotsOf(o) \ {s} /\ SlotsOf(o) # {}
         /\ Cardinality(SlotsOf(o)') = Cardinality(SlotsOf(o)) - 1
         /\ \A p \in Obj \ {o} : SlotsOf(p)' = SlotsOf(p)
<1>1. None \notin Obj
  BY OpenFilesAssumption DEF OpenFilesAssumption
<1>2. /\ \A r \in Slot \ {s} : file_table'[r] = file_table[r]
      /\ file_table'[s] = None
  BY DEF FilesType
<1>3. SlotsOf(o)' = SlotsOf(o) \ {s} /\ s \in SlotsOf(o)
  BY <1>1, <1>2 DEF SlotsOf
<1>4. \A p \in Obj \ {o} : SlotsOf(p)' = SlotsOf(p)
  BY <1>1, <1>2 DEF SlotsOf
<1> QED
  BY <1>3, <1>4, SlotsFinite, FS_RemoveElement
-----------------------------------------------------------------------------
(* The list of open inodes stays, grows at its front, or loses one.        *)
LEMMA SameList ==
  ASSUME FilesType, ListOK, OpenOK, open_inodes' = open_inodes,
         \A p \in Obj : Listed(p) => /\ mem'[p].i_no = mem[p].i_no /\ mem'[p].i_open_cnts >= 1
                                     /\ mem'[p].i_open_cnts >= Cardinality(SlotsOf(p)'),
         \A k \in DOMAIN open_inodes, i \in Ino : SlotsOf(open_inodes[k])' # {} /\ mem[open_inodes[k]].i_no = i =>
           /\ i \in inode_bitmap' /\ Named(i)'
           /\ SlotsOf(open_inodes[k]) # {} \/ \A j \in Cached(i) : k <= j
  PROVE  ListOK' /\ OpenOK' /\ \A p : Listed(p)' <=> Listed(p)
<1>1. \A p : Listed(p)' <=> Listed(p)
  BY DEF Listed
<1>2. \A k \in DOMAIN open_inodes : open_inodes[k] \in Obj /\ Listed(open_inodes[k])
  BY DEF FilesType, Listed
<1>3. ListOK'
  BY <1>1 DEF ListOK
<1>4. OpenOK'
  <2> SUFFICES ASSUME NEW k \in DOMAIN open_inodes, SlotsOf(open_inodes[k])' # {},
                      NEW i \in Ino, mem[open_inodes[k]].i_no = i
               PROVE  /\ i \in inode_bitmap' /\ Named(i)'
                      /\ \A j \in DOMAIN open_inodes : mem[open_inodes[j]].i_no = i => k <= j
    <3>1. \A l \in DOMAIN open_inodes : mem[open_inodes[l]].i_no \in Ino
      BY <1>2 DEF ListOK
    <3> QED
      BY <1>2, <3>1 DEF OpenOK, Named
  <2> QED
    BY DEF OpenOK, Cached
<1> QED
  BY <1>1, <1>3, <1>4

LEMMA PushList ==
  ASSUME FilesType, ListOK, OpenOK, NEW o \in Obj, ~Listed(o), open_inodes' = <<o>> \o open_inodes,
         UNCHANGED <<dir, inode_bitmap>>,
         \A p \in Obj : Listed(p) => mem'[p] = mem[p] /\ SlotsOf(p)' = SlotsOf(p),
         mem'[o].i_no \in Ino, mem'[o].i_open_cnts >= 1,
         mem'[o].i_open_cnts >= Cardinality(SlotsOf(o)'),
         SlotsOf(o)' # {} => mem'[o].i_no \in inode_bitmap /\ Named(mem'[o].i_no),
         \A p \in Obj : Listed(p) /\ SlotsOf(p) # {} => mem[p].i_no # mem'[o].i_no
  PROVE  /\ ListOK' /\ OpenOK' /\ open_inodes' \in Seq(Obj)
         /\ \A p : Listed(p)' <=> Listed(p) \/ p = o
<1> DEFINE q == open_inodes
<1>0. q \in Seq(Obj) /\ Len(q) \in Nat /\ DOMAIN q = 1 .. Len(q)
  BY DEF FilesType
<1> PICK w : w = <<o>> \o q
  OBVIOUS
<1>1. /\ w \in Seq(Obj) /\ DOMAIN w = 1 .. (Len(q) + 1) /\ w[1] = o
      /\ \A k \in 1 .. Len(q) : w[k + 1] = q[k]
  BY <1>0
<1>2. \A k \in 1 .. (Len(q) + 1) : k = 1 \/ (k - 1 \in DOMAIN q /\ w[k] = q[k - 1])
  BY <1>0, <1>1
<1>3. open_inodes' = w /\ \A k \in DOMAIN q : q[k] \in Obj /\ q[k] # o /\ Listed(q[k])
  BY <1>0 DEF Listed
<1>4. \A p : Listed(p)' <=> Listed(p) \/ p = o
  <2>1. \A p : Listed(p) => Listed(p)'
    <3> SUFFICES ASSUME NEW p, NEW k \in DOMAIN q, q[k] = p PROVE Listed(p)'
      BY DEF Listed
    <3>1. k + 1 \in DOMAIN w /\ w[k + 1] = p
      BY <1>0, <1>1
    <3> QED
      BY <1>3, <3>1 DEF Listed
  <2>2. Listed(o)'
    BY <1>0, <1>1, <1>3 DEF Listed
  <2>3. \A p : Listed(p)' => Listed(p) \/ p = o
    BY <1>1, <1>2, <1>3 DEF Listed
  <2> QED
    BY <2>1, <2>2, <2>3
<1>5. \A j, k \in DOMAIN w : w[j] = w[k] => j = k
  <2> SUFFICES ASSUME NEW j \in DOMAIN w, NEW k \in DOMAIN w, w[j] = w[k] PROVE j = k
    OBVIOUS
  <2>1. CASE j = 1 \/ k = 1
    BY <1>1, <1>2, <1>3, <2>1
  <2>2. CASE j # 1 /\ k # 1
    <3>1. j - 1 = k - 1
      BY <1>1, <1>2, <2>2 DEF ListOK
    <3> QED
      BY <1>0, <1>1, <3>1
  <2> QED
    BY <2>1, <2>2
<1>6. ListOK'
  BY <1>3, <1>4, <1>5 DEF ListOK
<1>7. OpenOK'
  <2> SUFFICES ASSUME NEW k \in DOMAIN w, SlotsOf(w[k])' # {}
               PROVE  /\ mem'[w[k]].i_no \in inode_bitmap /\ Named(mem'[w[k]].i_no)
                      /\ \A j \in DOMAIN w : mem'[w[j]].i_no = mem'[w[k]].i_no => k <= j
    BY <1>3 DEF OpenOK, Named
  <2>1. CASE k = 1
    BY <1>0, <1>1, <2>1
  <2>2. CASE k # 1
    <3>1. k - 1 \in DOMAIN q /\ w[k] = q[k - 1] /\ mem'[w[k]] = mem[w[k]] /\ SlotsOf(w[k]) # {}
          /\ w[k] \in Obj /\ Listed(w[k])
      BY <1>1, <1>2, <1>3, <2>2
    <3>2. ASSUME NEW j \in DOMAIN w, mem'[w[j]].i_no = mem'[w[k]].i_no PROVE k <= j
      <4>1. j # 1
        BY <1>1, <3>1, <3>2
      <4>2. j - 1 \in DOMAIN q /\ w[j] = q[j - 1] /\ mem'[w[j]] = mem[w[j]]
        BY <1>1, <1>2, <1>3, <4>1
      <4>3. k - 1 <= j - 1
        BY <3>1, <3>2, <4>2 DEF OpenOK
      <4> QED
        BY <1>0, <1>1, <4>3
    <3> QED
      BY <3>1, <3>2 DEF OpenOK
  <2> QED
    BY <2>1, <2>2
<1> QED
  BY <1>1, <1>3, <1>4, <1>6, <1>7

LEMMA PopList ==
  ASSUME FilesType, ListOK, OpenOK, NEW o \in Obj, Listed(o), open_inodes' = Without(open_inodes, o),
         UNCHANGED <<dir, inode_bitmap>>,
         \A p \in Obj \ {o} : Listed(p) => mem'[p] = mem[p] /\ SlotsOf(p)' = SlotsOf(p)
  PROVE  /\ ListOK' /\ OpenOK' /\ open_inodes' \in Seq(Obj)
         /\ \A p : Listed(p)' <=> Listed(p) /\ p # o
<1> DEFINE q == open_inodes
<1>0. q \in Seq(Obj) /\ (\A i, j \in DOMAIN q : q[i] = q[j] => i = j) /\ \E j \in DOMAIN q : q[j] = o
  BY DEF FilesType, ListOK, Listed
<1>1. PICK w : w = Without(q, o)
  OBVIOUS
<1>a. open_inodes' = w
  BY <1>1
<1>b. /\ w \in Seq(Obj)
      /\ \A j \in DOMAIN w : w[j] # o
      /\ \A j \in DOMAIN q : q[j] # o => \E i \in DOMAIN w : w[i] = q[j]
      /\ \A i, j \in DOMAIN w : w[i] = w[j] => i = j
      /\ \E f \in [DOMAIN w -> DOMAIN q] :
           /\ \A i \in DOMAIN w : w[i] = q[f[i]]
           /\ \A i, j \in DOMAIN w : i <= j <=> f[i] <= f[j]
  <2> HIDE DEF q
  <2> QED
    BY <1>0, <1>1, WithoutOK
<1>2. /\ w \in Seq(Obj) /\ open_inodes' = w
      /\ \A j \in DOMAIN w : w[j] # o
      /\ \A j \in DOMAIN q : q[j] # o => \E i \in DOMAIN w : w[i] = q[j]
      /\ \A i, j \in DOMAIN w : w[i] = w[j] => i = j
  BY <1>a, <1>b
<1>3. PICK f \in [DOMAIN w -> DOMAIN q] :
        /\ \A i \in DOMAIN w : w[i] = q[f[i]]
        /\ \A i, j \in DOMAIN w : i <= j <=> f[i] <= f[j]
  BY <1>b
<1>4. \A k \in DOMAIN w : w[k] \in Obj \ {o} /\ Listed(w[k])
  BY <1>2, <1>3 DEF Listed
<1>5. \A p : Listed(p)' <=> Listed(p) /\ p # o
  BY <1>2, <1>4 DEF Listed
<1>6. ListOK'
  <2>1. \A p \in Obj : Listed(p)' => /\ mem'[p].i_no \in Ino /\ mem'[p].i_open_cnts >= 1
                                     /\ mem'[p].i_open_cnts >= Cardinality(SlotsOf(p)')
    BY <1>5 DEF ListOK
  <2> QED
    BY <1>2, <2>1 DEF ListOK
<1>7. OpenOK'
  <2> SUFFICES ASSUME NEW k \in DOMAIN w, SlotsOf(w[k])' # {}
               PROVE  /\ mem'[w[k]].i_no \in inode_bitmap /\ Named(mem'[w[k]].i_no)
                      /\ \A j \in DOMAIN w : mem'[w[j]].i_no = mem'[w[k]].i_no => k <= j
    BY <1>2 DEF OpenOK, Named
  <2>1. \A j \in DOMAIN w : mem'[w[j]] = mem[q[f[j]]] /\ SlotsOf(w[j])' = SlotsOf(q[f[j]]) /\ f[j] \in DOMAIN q
    BY <1>3, <1>4
  <2> QED
    BY <1>3, <2>1 DEF OpenOK
<1> QED
  BY <1>2, <1>5, <1>6, <1>7
-----------------------------------------------------------------------------
(* The one process that is inside a call takes its step.                   *)
LEMMA SleepSets ==
  ASSUME FilesType, NEW t \in Proc, \A u \in Proc : u # t => pc[u] = "user",
         NEW p, NEW c \in Calls, Sleep(t, p, c)
  PROVE  /\ pc' = [u \in Proc |-> pc'[u]] /\ call' \in [Proc -> Calls]
         /\ pc'[t] = p /\ call'[t] = c
         /\ \A u \in Proc : u # t => pc'[u] = "user"
BY DEF FilesType, Sleep

LEMMA NoCallOK == NoCall \in Calls
BY DEF NoCall, Calls

LEMMA CallAfter ==
  ASSUME NEW t \in Proc, \A u \in Proc : u # t => pc'[u] = "user", InCall(t)'
  PROVE  CallOK'
<1>1. ASSUME NEW u \in Proc, u # t PROVE InCall(u)'
  BY <1>1 DEF InCall, Making
<1> QED
  BY <1>1 DEF CallOK, OneInside

LEMMA OutsideCall == ASSUME NEW t, pc[t] = "user" PROVE InCall(t)
BY DEF InCall, Making
-----------------------------------------------------------------------------
(* What the pieces that several calls share do to the tables.              *)
LEMMA Install ==
  ASSUME FilesType, NEW t \in Proc, NEW s \in Slot, pcb_fd_install(t, s)
  PROVE  fd_table' \in [Proc -> [Fd -> Slot \cup {None}]]
<1>1. CASE FreeFds(t) = {}
  BY <1>1 DEF pcb_fd_install, FilesType
<1>2. CASE FreeFds(t) # {}
  <2>1. FreeFds(t) \in SUBSET Nat
    BY OpenFilesAssumption DEF OpenFilesAssumption, FreeFds
  <2>2. Least(FreeFds(t)) \in Fd
    BY <1>2, <2>1, LeastOK DEF FreeFds
  <2>3. PICK l \in Fd : fd_table' = [fd_table EXCEPT ![t][l] = s]
    BY <1>2, <2>2 DEF pcb_fd_install
  <2>4. fd_table \in [Proc -> [Fd -> Slot \cup {None}]]
    BY DEF FilesType
  <2> QED
    BY <2>3, <2>4
<1> QED
  BY <1>1, <1>2

LEMMA CountOK ==
  ASSUME mem \in [Obj -> Inodes], NEW o \in Obj, NEW m, m = [mem EXCEPT ![o].i_open_cnts = @ + 1]
  PROVE  /\ m \in [Obj -> Inodes] /\ \A p \in Obj \ {o} : m[p] = mem[p]
         /\ m[o].i_no = mem[o].i_no /\ m[o].i_open_cnts = mem[o].i_open_cnts + 1
<1>1. mem[o].i_open_cnts + 1 \in Nat
  BY DEF Inodes
<1>2. PICK e : e = [mem[o] EXCEPT !.i_open_cnts = mem[o].i_open_cnts + 1]
  OBVIOUS
<1>3. e \in Inodes /\ e.i_no = mem[o].i_no /\ e.i_open_cnts = mem[o].i_open_cnts + 1
  BY <1>1, <1>2 DEF Inodes
<1>4. m = [mem EXCEPT ![o] = e]
  BY <1>2
<1> QED
  BY <1>3, <1>4

LEMMA Opened ==
  ASSUME FilesType, NEW t \in Proc, NEW s \in Slot, NEW o \in Obj, NEW write \in BOOLEAN,
         NEW m \in [Obj -> Inodes], FileOpen(t, s, o, write, m)
  PROVE  /\ file_table' = [file_table EXCEPT ![s] = o]
         /\ file_table' \in [Slot -> Obj \cup {None}]
         /\ mem' \in [Obj -> Inodes]
         /\ \A p \in Obj \ {o} : mem'[p] = m[p]
         /\ mem'[o].i_no = m[o].i_no /\ mem'[o].i_open_cnts = m[o].i_open_cnts
         /\ fd_table' \in [Proc -> [Fd -> Slot \cup {None}]]
         /\ Sleep(t, "user", NoCall)
<1>1. /\ file_table' = [file_table EXCEPT ![s] = o] /\ Sleep(t, "user", NoCall)
      /\ file_table' \in [Slot -> Obj \cup {None}]
  BY DEF FileOpen, Return, FilesType
<1>2. CASE write /\ m[o].write_deny
  BY <1>1, <1>2 DEF FileOpen, FilesType
<1>3. CASE ~(write /\ m[o].write_deny)
  <2>1. fd_table' \in [Proc -> [Fd -> Slot \cup {None}]]
    BY <1>3, Install DEF FileOpen
  <2>2. mem' = [m EXCEPT ![o].write_deny = @ \/ write]
    BY <1>3 DEF FileOpen
  <2>3. (m[o].write_deny \/ write) \in BOOLEAN
    BY DEF Inodes
  <2>4. mem' = [m EXCEPT ![o] = [m[o] EXCEPT !.write_deny = (m[o].write_deny \/ write)]]
    BY <2>2
  <2>5. /\ \A p \in Obj \ {o} : mem'[p] = m[p]
        /\ mem'[o].i_no = m[o].i_no /\ mem'[o].i_open_cnts = m[o].i_open_cnts
        /\ mem' \in [Obj -> Inodes]
    BY <2>3, <2>4 DEF Inodes
  <2> QED
    BY <1>1, <2>1, <2>5
<1> QED
  BY <1>2, <1>3

LEMMA FreeObjOK ==
  ASSUME FilesInv, NEW o \in FreeObjs, \A t \in Proc : ~Making(t)
  PROVE  o \in Obj /\ ~Listed(o) /\ SlotsOf(o) = {}
<1>1. o \in Obj /\ mem[o].i_open_cnts = 0
  BY DEF FreeObjs, NoInode, Inode
<1>2. ~Listed(o)
  BY <1>1 DEF FilesInv, ListOK
<1> QED
  BY <1>1, <1>2 DEF FilesInv, SlotsOK

LEMMA FreeSlotOK ==
  ASSUME FreeSlots # {}
  PROVE  Least(FreeSlots) \in Slot /\ file_table[Least(FreeSlots)] = None
<1>1. FreeSlots \in SUBSET Nat
  BY OpenFilesAssumption DEF OpenFilesAssumption, FreeSlots
<1> QED
  BY <1>1, LeastOK DEF FreeSlots

LEMMA FoundOK ==
  ASSUME FilesInv, NEW n \in Name, Found(n)
  PROVE  /\ InoOf(n) \in Ino /\ <<n, InoOf(n)>> \in dir
         /\ Named(InoOf(n)) /\ InoOf(n) \in inode_bitmap
<1>1. Inos(n) \in SUBSET Nat /\ Inos(n) # {}
  BY OpenFilesAssumption DEF OpenFilesAssumption, Inos, Found
<1>2. InoOf(n) \in Inos(n)
  BY <1>1, LeastOK DEF InoOf
<1> QED
  BY <1>2 DEF Inos, Named, FilesInv, DirOK

LEMMA CachedOK ==
  ASSUME FilesInv, NEW i, Cached(i) # {}
  PROVE  \E k \in DOMAIN open_inodes :
           /\ CachedAt(i) = open_inodes[k] /\ CachedAt(i) \in Obj /\ Listed(CachedAt(i))
           /\ mem[CachedAt(i)].i_no = i
           /\ \A j \in Cached(i) : k <= j
<1>1. Cached(i) \in SUBSET Nat
  BY DEF Cached, FilesInv, FilesType
<1>2. Least(Cached(i)) \in Cached(i) /\ \A j \in Cached(i) : Least(Cached(i)) <= j
  BY <1>1, LeastOK
<1>3. PICK k : k = Least(Cached(i))
  OBVIOUS
<1>4. k \in DOMAIN open_inodes /\ mem[open_inodes[k]].i_no = i /\ CachedAt(i) = open_inodes[k]
  BY <1>2, <1>3 DEF CachedAt, Cached
<1>5. open_inodes[k] \in Obj /\ Listed(open_inodes[k])
  BY <1>4 DEF Listed, FilesInv, FilesType
<1> QED
  BY <1>2, <1>3, <1>4, <1>5

LEMMA AllListed ==
  ASSUME FilesInv, \A t \in Proc : ~Making(t), NEW o \in Obj, SlotsOf(o) # {}
  PROVE  Listed(o)
BY DEF FilesInv, SlotsOK

LEMMA OthersOutside ==
  ASSUME FilesInv, NEW t \in Proc, pc[t] # "user"
  PROVE  \A u \in Proc : u # t => pc[u] = "user"
BY DEF FilesInv, CallOK, OneInside

LEMMA NoneIn == None \notin Obj /\ None \notin Ino /\ None \notin Slot /\ None \notin Name
BY OpenFilesAssumption DEF OpenFilesAssumption

LEMMA EntryNames ==
  ASSUME FilesInv, NEW e \in dir
  PROVE  e[1] \in Name /\ e[2] \in Ino /\ e = <<e[1], e[2]>> /\ Named(e[2])
<1>1. e \in Name \X Ino
  BY DEF FilesInv, FilesType
<1>2. PICK n \in Name, i \in Ino : e = <<n, i>>
  BY <1>1
<1> QED
  BY <1>2 DEF Named
-----------------------------------------------------------------------------
(* Every step keeps FilesInv.                                              *)
LEMMA HaltKeeps == ASSUME FilesInv, NEW why, Halt(why) PROVE FilesInv'
<1>1. /\ UNCHANGED <<dir, inode_bitmap, file_table, mem, open_inodes, fd_table, pc, call>>
  BY DEF Halt
<1>2. (\A o : SlotsOf(o)' = SlotsOf(o)) /\ (\A o : Listed(o)' <=> Listed(o)) /\ (\A i : Cached(i)' = Cached(i))
      /\ (\A i : Named(i)' <=> Named(i)) /\ (\A u : Making(u)' <=> Making(u))
  BY <1>1 DEF SlotsOf, Listed, Cached, Named, Making
<1>3. \A i : Unused(i)' <=> Unused(i)
  BY <1>1, <1>2 DEF Unused
<1>4. \A u : InCall(u)' <=> InCall(u)
  BY <1>1, <1>2, <1>3 DEF InCall
<1>5. FilesType' /\ DirOK' /\ ListOK'
  BY <1>1, <1>2 DEF FilesInv, FilesType, DirOK, ListOK
<1>6. OpenOK' /\ SlotsOK'
  BY <1>1, <1>2 DEF FilesInv, OpenOK, SlotsOK
<1>7. CallOK'
  BY <1>1, <1>4 DEF FilesInv, CallOK, OneInside
<1> QED
  BY <1>5, <1>6, <1>7 DEF FilesInv

(* file_open of an inode that is on the list, for a process that is alone. *)
LEMMA OpenCachedKeeps ==
  ASSUME FilesInv, \A u \in Proc : pc[u] = "user", NEW t \in Proc, NEW s \in Slot, file_table[s] = None,
         NEW i, Cached(i) # {}, i \in inode_bitmap, Named(i), NEW write \in BOOLEAN,
         FileOpen(t, s, CachedAt(i), write, [mem EXCEPT ![CachedAt(i)].i_open_cnts = @ + 1]),
         UNCHANGED <<dir, inode_bitmap, open_inodes, alive>>
  PROVE  FilesInv'
<1> USE DEF FilesInv
<1>1. PICK o \in Obj, k0 \in DOMAIN open_inodes :
        /\ o = CachedAt(i) /\ o = open_inodes[k0] /\ Listed(o) /\ mem[o].i_no = i
        /\ \A j \in Cached(i) : k0 <= j
  BY CachedOK
<1>2. PICK m : m = [mem EXCEPT ![o].i_open_cnts = @ + 1]
  OBVIOUS
<1>3. /\ m \in [Obj -> Inodes] /\ \A p \in Obj \ {o} : m[p] = mem[p]
      /\ m[o].i_no = i /\ m[o].i_open_cnts = mem[o].i_open_cnts + 1
  BY <1>1, <1>2, CountOK DEF FilesType
<1>4. /\ file_table' = [file_table EXCEPT ![s] = o]
      /\ file_table' \in [Slot -> Obj \cup {None}]
      /\ mem' \in [Obj -> Inodes]
      /\ \A p \in Obj \ {o} : mem'[p] = mem[p]
      /\ mem'[o].i_no = i /\ mem'[o].i_open_cnts = mem[o].i_open_cnts + 1
      /\ fd_table' \in [Proc -> [Fd -> Slot \cup {None}]]
      /\ Sleep(t, "user", NoCall)
  <2>1. FileOpen(t, s, o, write, m)
    BY <1>1, <1>2
  <2> QED
    BY <1>3, <2>1, Opened
<1>5. /\ SlotsOf(o)' = SlotsOf(o) \cup {s}
      /\ Cardinality(SlotsOf(o)') = Cardinality(SlotsOf(o)) + 1
      /\ \A p \in Obj \ {o} : SlotsOf(p)' = SlotsOf(p)
  BY <1>4, FillSlot
<1>6. \A p \in Obj : Listed(p) => /\ mem'[p].i_no = mem[p].i_no /\ mem'[p].i_open_cnts >= 1
                                  /\ mem'[p].i_open_cnts >= Cardinality(SlotsOf(p)')
  <2> SUFFICES ASSUME NEW p \in Obj, Listed(p)
               PROVE  /\ mem'[p].i_no = mem[p].i_no /\ mem'[p].i_open_cnts >= 1
                      /\ mem'[p].i_open_cnts >= Cardinality(SlotsOf(p)')
    OBVIOUS
  <2>1. mem[p].i_open_cnts >= 1 /\ mem[p].i_open_cnts >= Cardinality(SlotsOf(p)) /\ mem[p].i_open_cnts \in Nat
    BY DEF ListOK, FilesType, Inodes
  <2>2. Cardinality(SlotsOf(p)) \in Nat
    BY SlotsFinite
  <2>3. CASE p = o
    <3>1. Cardinality(SlotsOf(o)) \in Nat /\ mem[o].i_open_cnts \in Nat
          /\ mem[o].i_open_cnts >= Cardinality(SlotsOf(o))
      BY <2>1, <2>2, <2>3
    <3>2. mem'[o].i_open_cnts >= 1 /\ mem'[o].i_open_cnts >= Cardinality(SlotsOf(o)')
      BY <1>4, <1>5, <3>1
    <3> QED
      BY <1>1, <1>4, <2>3, <3>2
  <2>4. CASE p # o
    BY <1>4, <1>5, <2>1, <2>4
  <2> QED
    BY <2>3, <2>4
<1>7. ASSUME NEW k \in DOMAIN open_inodes, NEW x \in Ino, SlotsOf(open_inodes[k])' # {}, mem[open_inodes[k]].i_no = x
      PROVE  /\ x \in inode_bitmap' /\ Named(x)'
             /\ SlotsOf(open_inodes[k]) # {} \/ \A j \in Cached(x) : k <= j
  <2>1. open_inodes[k] \in Obj
    BY DEF FilesType
  <2>2. \A y : Named(y)' <=> Named(y)
    BY DEF Named
  <2>3. CASE open_inodes[k] = o
    <3>1. k = k0
      BY <1>1, <2>3 DEF ListOK
    <3> QED
      BY <1>1, <1>7, <2>2, <2>3, <3>1
  <2>4. CASE open_inodes[k] # o
    <3>1. SlotsOf(open_inodes[k]) # {}
      BY <1>5, <1>7, <2>1, <2>4
    <3> QED
      BY <1>7, <2>2, <3>1 DEF OpenOK
  <2> QED
    BY <2>3, <2>4
<1>8. ListOK' /\ OpenOK' /\ \A p : Listed(p)' <=> Listed(p)
  BY <1>6, <1>7, SameList
<1>9. FilesType' /\ \A u \in Proc : pc'[u] = "user"
  BY <1>4, SleepSets, NoCallOK DEF FilesType
<1>10. SlotsOK'
  <2>1. \A p \in Obj : SlotsOf(p)' # {} => Listed(p)
    BY <1>1, <1>5, AllListed DEF Making
  <2> QED
    BY <1>8, <2>1 DEF SlotsOK
<1>11. CallOK'
  BY <1>9, CallAfter DEF InCall, Making
<1> QED
  BY <1>8, <1>9, <1>10, <1>11 DEF DirOK

(* A process that is alone goes to sleep, and has changed nothing else.    *)
LEMMA StartKeeps ==
  ASSUME FilesInv, NEW t \in Proc, \A u \in Proc : pc[u] = "user", NEW p, NEW c \in Calls, Sleep(t, p, c),
         p \notin {"creating", "created"}, InCall(t)',
         UNCHANGED <<dir, inode_bitmap, file_table, mem, open_inodes, fd_table>>
  PROVE  FilesInv'
<1> USE DEF FilesInv
<1>1. (\A o : SlotsOf(o)' = SlotsOf(o)) /\ (\A o : Listed(o)' <=> Listed(o)) /\ (\A i : Named(i)' <=> Named(i))
  BY DEF SlotsOf, Listed, Named
<1>2. pc' = [u \in Proc |-> pc'[u]] /\ call' \in [Proc -> Calls]
      /\ \A u \in Proc : u # t => pc'[u] = "user"
  BY SleepSets
<1>3. FilesType' /\ DirOK' /\ ListOK'
  BY <1>1, <1>2 DEF FilesType, DirOK, ListOK
<1>4. OpenOK'
  BY <1>1 DEF OpenOK
<1>5. SlotsOK'
  BY <1>1, AllListed DEF SlotsOK, Making
<1>6. CallOK'
  BY <1>2, CallAfter
<1> QED
  BY <1>3, <1>4, <1>5, <1>6

LEMMA OpenKeeps ==
  ASSUME FilesInv, NEW t \in Proc, NEW n \in Name, NEW write \in BOOLEAN, Open(t, n, write)
  PROVE  FilesInv'
<1>1. CASE ~SearchOK(t, InoOf(n))
  BY <1>1, HaltKeeps DEF Open
<1>2. CASE SearchOK(t, InoOf(n))
  <2>1. PICK i \in Ino, s \in Slot : i = InoOf(n) /\ s = Least(FreeSlots) /\ file_table[s] = None
    BY FoundOK, FreeSlotOK DEF Open
  <2>2. Enter(t) /\ Named(i) /\ i \in inode_bitmap /\ \A u \in Proc : pc[u] = "user"
    BY <2>1, FoundOK DEF Open, Search
  <2>3. CASE Cached(i) # {}
    <3>1. /\ FileOpen(t, s, CachedAt(i), write, [mem EXCEPT ![CachedAt(i)].i_open_cnts = @ + 1])
          /\ UNCHANGED <<dir, inode_bitmap, open_inodes, alive>>
      BY <1>2, <2>1, <2>3 DEF Open
    <3> QED
      BY <2>1, <2>2, <2>3, <3>1, OpenCachedKeeps
  <2>4. CASE Cached(i) = {}
    <3>1. PICK c : c = [NoCall EXCEPT !.ino = i, !.write = write, !.slot = s]
      OBVIOUS
    <3>2. c \in Calls /\ c.ino = i /\ c.write = write /\ c.slot = s
      BY <3>1 DEF NoCall, Calls
    <3>3. Sleep(t, "reading", c) /\ UNCHANGED <<dir, inode_bitmap, file_table, mem, open_inodes, fd_table>>
      BY <1>2, <2>1, <2>4, <3>1 DEF Open
    <3>4. call'[t] = c /\ pc'[t] = "reading"
      BY <2>2, <3>2, <3>3, SleepSets DEF FilesInv
    <3>5. Cached(i)' = {} /\ Named(i)'
      BY <2>2, <2>4, <3>3 DEF Cached, Named
    <3>6. InCall(t)'
      BY <2>1, <3>2, <3>3, <3>4, <3>5 DEF InCall, Making
    <3> QED
      BY <2>2, <3>2, <3>3, <3>6, StartKeeps
  <2> QED
    BY <2>3, <2>4
<1> QED
  BY <1>1, <1>2

(* A new struct inode, in front of the list: the places it needs are free. *)
LEMMA NewInodeOK ==
  ASSUME FilesInv, \A u \in Proc : ~Making(u), NEW o \in FreeObjs, NewInode(o), NEW i \in Ino,
         UNCHANGED <<dir, inode_bitmap>>,
         \A p \in Obj \ {o} : mem'[p] = mem[p] /\ SlotsOf(p)' = SlotsOf(p),
         mem'[o].i_no = i, mem'[o].i_open_cnts = 1, Cardinality(SlotsOf(o)') <= 1,
         SlotsOf(o)' # {} => Named(i),
         \A p \in Obj : Listed(p) /\ SlotsOf(p) # {} => mem[p].i_no # i
  PROVE  /\ ListOK' /\ OpenOK' /\ open_inodes' \in Seq(Obj) /\ SlotsOK'
         /\ \A p : Listed(p)' <=> Listed(p) \/ p = o
<1> USE DEF FilesInv
<1>1. o \in Obj /\ ~Listed(o) /\ SlotsOf(o) = {}
  BY FreeObjOK
<1>2. open_inodes' = <<o>> \o open_inodes
  BY DEF NewInode
<1>3. \A p \in Obj : Listed(p) => mem'[p] = mem[p] /\ SlotsOf(p)' = SlotsOf(p)
  BY <1>1
<1>4. Named(i) => i \in inode_bitmap
  BY DEF Named, DirOK
<1>5. IsFiniteSet(SlotsOf(o)') /\ Cardinality(SlotsOf(o)') \in Nat
  <2>1. IsFiniteSet(Slot) /\ SlotsOf(o)' \subseteq Slot
    BY OpenFilesAssumption DEF OpenFilesAssumption, SlotsOf
  <2> QED
    BY <2>1, FS_Subset, FS_CardinalityType
<1>6. mem'[o].i_open_cnts >= 1 /\ mem'[o].i_open_cnts >= Cardinality(SlotsOf(o)')
  BY <1>5
<1>7. /\ ListOK' /\ OpenOK' /\ open_inodes' \in Seq(Obj)
      /\ \A p : Listed(p)' <=> Listed(p) \/ p = o
  BY <1>1, <1>2, <1>3, <1>4, <1>6, PushList
<1>8. SlotsOK'
  BY <1>7, AllListed DEF SlotsOK
<1> QED
  BY <1>7, <1>8

LEMMA InodeReadKeeps ==
  ASSUME FilesInv, NEW t \in Proc, InodeRead(t)
  PROVE  FilesInv'
<1> USE DEF FilesInv
<1>1. /\ pc[t] = "reading" /\ \A u \in Proc : u # t => pc[u] = "user"
      /\ \A u \in Proc : ~Making(u)
  BY OthersOutside DEF InodeRead, Making
<1>2. PICK c : c = call[t]
  OBVIOUS
<1>3. /\ c.slot \in Slot /\ file_table[c.slot] = None /\ c.ino \in Ino /\ Cached(c.ino) = {} /\ Named(c.ino)
      /\ c.write \in BOOLEAN
  BY <1>1, <1>2 DEF CallOK, InCall
<1>4. PICK o \in FreeObjs :
        /\ NewInode(o)
        /\ FileOpen(t, c.slot, o, c.write, [mem EXCEPT ![o] = Inode(c.ino, 1, "kernel")])
  BY <1>2 DEF InodeRead
<1>5. o \in Obj /\ ~Listed(o) /\ SlotsOf(o) = {}
  BY <1>1, FreeObjOK
<1>6. PICK m : m = [mem EXCEPT ![o] = Inode(c.ino, 1, "kernel")]
  OBVIOUS
<1>7. /\ m \in [Obj -> Inodes] /\ \A p \in Obj \ {o} : m[p] = mem[p]
      /\ m[o].i_no = c.ino /\ m[o].i_open_cnts = 1
  <2>1. PICK e : e = Inode(c.ino, 1, "kernel")
    OBVIOUS
  <2>2. e \in Inodes /\ e.i_no = c.ino /\ e.i_open_cnts = 1
    BY <1>3, <2>1 DEF Inode, Inodes
  <2> QED
    BY <1>5, <1>6, <2>1, <2>2 DEF FilesType
<1>8. /\ file_table' = [file_table EXCEPT ![c.slot] = o]
      /\ file_table' \in [Slot -> Obj \cup {None}]
      /\ mem' \in [Obj -> Inodes]
      /\ \A p \in Obj \ {o} : mem'[p] = mem[p]
      /\ mem'[o].i_no = c.ino /\ mem'[o].i_open_cnts = 1
      /\ fd_table' \in [Proc -> [Fd -> Slot \cup {None}]]
      /\ Sleep(t, "user", NoCall)
  <2>1. FileOpen(t, c.slot, o, c.write, m)
    BY <1>4, <1>6
  <2> QED
    BY <1>3, <1>5, <1>7, <2>1, Opened
<1>9. /\ Cardinality(SlotsOf(o)') = Cardinality(SlotsOf(o)) + 1
      /\ \A p \in Obj \ {o} : SlotsOf(p)' = SlotsOf(p)
  BY <1>3, <1>5, <1>8, FillSlot
<1>10. Cardinality(SlotsOf(o)') <= 1
  BY <1>5, <1>9, FS_EmptySet
<1>11. \A p \in Obj : Listed(p) => mem[p].i_no # c.ino
  BY <1>3 DEF Cached, Listed
<1>12. UNCHANGED <<dir, inode_bitmap>>
  BY DEF InodeRead
<1>13. ListOK' /\ OpenOK' /\ open_inodes' \in Seq(Obj) /\ SlotsOK'
  BY <1>1, <1>3, <1>4, <1>8, <1>9, <1>10, <1>11, <1>12, NewInodeOK
<1>14. FilesType' /\ \A u \in Proc : pc'[u] = "user"
  BY <1>1, <1>8, <1>12, <1>13, SleepSets, NoCallOK DEF FilesType
<1>15. CallOK'
  BY <1>14, CallAfter DEF InCall, Making
<1> QED
  BY <1>12, <1>13, <1>14, <1>15 DEF DirOK

LEMMA CreateKeeps ==
  ASSUME FilesInv, NEW t \in Proc, NEW n \in Name, Create(t, n)
  PROVE  FilesInv'
<1> USE DEF FilesInv
<1>1. CASE inode_bitmap = Ino
  BY <1>1, HaltKeeps DEF Create
<1>2. CASE inode_bitmap # Ino
  <2>1. PICK i, s : i = Least(Ino \ inode_bitmap) /\ s = Least(FreeSlots)
    OBVIOUS
  <2>2. i \in Ino \ inode_bitmap
    <3>1. Ino \ inode_bitmap \in SUBSET Nat /\ Ino \ inode_bitmap # {}
      BY <1>2, OpenFilesAssumption DEF OpenFilesAssumption, FilesType
    <3> QED
      BY <2>1, <3>1, LeastOK
  <2>3. s \in Slot /\ file_table[s] = None
    BY <1>2, <2>1, FreeSlotOK DEF Create
  <2>4. PICK o \in FreeObjs :
          /\ mem' = [mem EXCEPT ![o] = Inode(i, 0, t)]
          /\ file_table' = [file_table EXCEPT ![s] = o]
          /\ Sleep(t, "creating", [name |-> n, ino |-> i, write |-> TRUE, slot |-> s, obj |-> o])
    BY <1>2, <2>1 DEF Create
  <2>5. inode_bitmap' = inode_bitmap \cup {i} /\ UNCHANGED <<dir, open_inodes, fd_table, alive, panic>>
    BY <1>2, <2>1 DEF Create
  <2>6. \A u \in Proc : pc[u] = "user" /\ ~Making(u)
    BY DEF Create, Search, Making
  <2>7. o \in Obj /\ ~Listed(o) /\ SlotsOf(o) = {}
    BY <2>6, FreeObjOK
  <2>8. /\ mem' \in [Obj -> Inodes] /\ \A p \in Obj \ {o} : mem'[p] = mem[p]
        /\ mem'[o].i_no = i /\ mem'[o].heap = t
    <3>1. PICK e : e = Inode(i, 0, t)
      OBVIOUS
    <3>2. e \in Inodes /\ e.i_no = i /\ e.heap = t
      BY <2>2, <3>1 DEF Inode, Inodes
    <3> QED
      BY <2>4, <2>7, <3>1, <3>2 DEF FilesType
  <2>9. /\ SlotsOf(o)' = {s}
        /\ \A p \in Obj \ {o} : SlotsOf(p)' = SlotsOf(p)
    BY <2>3, <2>4, <2>7, FillSlot
  <2>10. PICK c : c = [name |-> n, ino |-> i, write |-> TRUE, slot |-> s, obj |-> o]
    OBVIOUS
  <2>a. c \in Calls
    BY <2>2, <2>3, <2>7, <2>10 DEF Calls
  <2>11. /\ pc' = [u \in Proc |-> pc'[u]] /\ call' \in [Proc -> Calls]
         /\ pc'[t] = "creating" /\ call'[t] = c
         /\ \A u \in Proc : u # t => pc'[u] = "user"
    BY <2>4, <2>6, <2>10, <2>a, SleepSets
  <2>12. \A x : Named(x)' <=> Named(x)
    BY <2>5 DEF Named
  <2>13. ListOK' /\ OpenOK' /\ \A p : Listed(p)' <=> Listed(p)
    <3>1. \A p \in Obj : Listed(p) => mem'[p] = mem[p] /\ SlotsOf(p)' = SlotsOf(p)
      BY <2>7, <2>8, <2>9
    <3>2. \A p \in Obj : Listed(p) => /\ mem'[p].i_no = mem[p].i_no /\ mem'[p].i_open_cnts >= 1
                                      /\ mem'[p].i_open_cnts >= Cardinality(SlotsOf(p)')
      BY <3>1 DEF ListOK
    <3>3. ASSUME NEW k \in DOMAIN open_inodes, NEW x \in Ino, SlotsOf(open_inodes[k])' # {},
                 mem[open_inodes[k]].i_no = x
          PROVE  x \in inode_bitmap' /\ Named(x)' /\ SlotsOf(open_inodes[k]) # {}
      <4>1. open_inodes[k] \in Obj /\ Listed(open_inodes[k])
        BY DEF Listed, FilesType
      <4>2. SlotsOf(open_inodes[k]) # {}
        BY <2>5, <3>1, <3>3, <4>1
      <4> QED
        BY <2>5, <2>12, <3>3, <4>2 DEF OpenOK
    <3> QED
      BY <2>5, <3>2, <3>3, SameList
  <2>14. FilesType' /\ DirOK'
    BY <2>2, <2>4, <2>5, <2>7, <2>8, <2>11 DEF FilesType, DirOK
  <2>15. Making(t)' /\ call'[t].obj = o
    BY <2>10, <2>11 DEF Making
  <2>16. SlotsOK'
    BY <2>6, <2>9, <2>13, <2>15, AllListed DEF SlotsOK
  <2>17. ~Named(i)
    BY <2>2 DEF Named, DirOK
  <2>18. ASSUME NEW p \in Obj \ {o}, SlotsOf(p)' # {} PROVE mem'[p].i_no # i
    <3>1. Listed(p) /\ SlotsOf(p) # {}
      BY <2>6, <2>9, <2>18, AllListed
    <3>2. mem[p].i_no \in inode_bitmap
      BY <3>1 DEF Listed, OpenOK
    <3> QED
      BY <2>2, <2>8, <3>2
  <2>19. InCall(t)'
    <3>1. c.slot = s /\ c.ino = i /\ c.obj = o /\ c.name = n
      BY <2>10
    <3>2. i \in inode_bitmap'
      BY <2>5
    <3>3. ~Listed(o)' /\ ~Named(i)'
      BY <2>7, <2>12, <2>13, <2>17
    <3> QED
      BY <2>3, <2>7, <2>8, <2>9, <2>11, <2>18, <3>1, <3>2, <3>3 DEF InCall
  <2>20. CallOK'
    BY <2>11, <2>19, CallAfter
  <2> QED
    BY <2>13, <2>14, <2>16, <2>20
<1> QED
  BY <1>1, <1>2

LEMMA EntryWrittenKeeps ==
  ASSUME FilesInv, NEW t \in Proc, EntryWritten(t)
  PROVE  FilesInv'
<1> USE DEF FilesInv
<1> PICK c : c = call[t]
  OBVIOUS
<1>1. /\ pc[t] = "creating" /\ Making(t)
      /\ dir' = dir \cup {<<c.name, c.ino>>} /\ Sleep(t, "created", c)
      /\ UNCHANGED <<inode_bitmap, file_table, mem, open_inodes, fd_table, alive, panic>>
  BY DEF EntryWritten, Making
<1>2. /\ c.slot \in Slot /\ c.obj \in Obj /\ c.ino \in inode_bitmap /\ c.name \in Name
      /\ ~Listed(c.obj) /\ SlotsOf(c.obj) = {c.slot} /\ mem[c.obj].i_no = c.ino /\ mem[c.obj].heap = t
      /\ \A p \in Obj \ {c.obj} : SlotsOf(p) # {} => mem[p].i_no # c.ino
  BY <1>1 DEF CallOK, InCall
<1>3. \A u \in Proc : u # t => pc[u] = "user" /\ ~Making(u)
  BY <1>1, OthersOutside DEF Making
<1>4. /\ pc' = [u \in Proc |-> pc'[u]] /\ call' \in [Proc -> Calls]
      /\ pc'[t] = "created" /\ call'[t] = c
      /\ \A u \in Proc : u # t => pc'[u] = "user"
  <2>1. c \in Calls
    BY DEF FilesType
  <2> QED
    BY <1>1, <1>3, <2>1, SleepSets
<1>5. (\A o : SlotsOf(o)' = SlotsOf(o)) /\ (\A i : Named(i) => Named(i)')
      /\ \A o : Listed(o)' <=> Listed(o)
  BY <1>1 DEF SlotsOf, Named, Listed
<1>6. FilesType' /\ DirOK'
  BY <1>1, <1>2, <1>4 DEF FilesType, DirOK
<1>7. ListOK'
  BY <1>1, <1>5 DEF ListOK
<1>8. OpenOK'
  BY <1>1, <1>5 DEF OpenOK
<1>9. SlotsOK'
  <2>1. Making(t)' /\ call'[t] = call[t]
    BY <1>4 DEF Making
  <2> QED
    BY <1>3, <1>5, <2>1 DEF SlotsOK
<1>10. InCall(t)'
  BY <1>1, <1>2, <1>4, <1>5 DEF InCall
<1> QED
  BY <1>4, <1>6, <1>7, <1>8, <1>9, <1>10, CallAfter

LEMMA RollbackKeeps ==
  ASSUME FilesInv, NEW t \in Proc, Rollback(t)
  PROVE  FilesInv'
<1> USE DEF FilesInv
<1> PICK c : c = call[t]
  OBVIOUS
<1>1. /\ pc[t] = "creating" /\ Making(t)
      /\ file_table' = [file_table EXCEPT ![c.slot] = None]
      /\ mem' = [mem EXCEPT ![c.obj] = NoInode]
      /\ inode_bitmap' = inode_bitmap \ {c.ino}
      /\ Sleep(t, "user", NoCall)
      /\ UNCHANGED <<dir, open_inodes, fd_table, alive, panic>>
  BY DEF Rollback, Making, Return
<1>2. /\ c.slot \in Slot /\ c.obj \in Obj /\ c.ino \in inode_bitmap
      /\ ~Listed(c.obj) /\ SlotsOf(c.obj) = {c.slot} /\ mem[c.obj].i_no = c.ino
      /\ \A p \in Obj \ {c.obj} : SlotsOf(p) # {} => mem[p].i_no # c.ino
      /\ ~Named(c.ino)
  BY <1>1 DEF CallOK, InCall
<1>3. \A u \in Proc : u # t => pc[u] = "user" /\ ~Making(u)
  BY <1>1, OthersOutside DEF Making
<1>4. /\ pc' = [u \in Proc |-> pc'[u]] /\ call' \in [Proc -> Calls]
      /\ \A u \in Proc : pc'[u] = "user"
  BY <1>1, <1>3, SleepSets, NoCallOK
<1>5. /\ SlotsOf(c.obj)' = {} /\ \A p \in Obj \ {c.obj} : SlotsOf(p)' = SlotsOf(p)
  <2>1. file_table[c.slot] = c.obj
    BY <1>2 DEF SlotsOf
  <2> QED
    BY <1>1, <1>2, <2>1, ClearSlot
<1>6. /\ mem' \in [Obj -> Inodes] /\ \A p \in Obj \ {c.obj} : mem'[p] = mem[p]
  <2>1. PICK e : e = NoInode
    OBVIOUS
  <2>2. e \in Inodes
    BY <2>1 DEF NoInode, Inode, Inodes
  <2> QED
    BY <1>1, <2>1, <2>2 DEF FilesType
<1>7. \A x : Named(x)' <=> Named(x)
  BY <1>1 DEF Named
<1>8. ListOK' /\ OpenOK' /\ \A p : Listed(p)' <=> Listed(p)
  <2>1. \A p \in Obj : Listed(p) => p # c.obj /\ mem'[p] = mem[p] /\ SlotsOf(p)' = SlotsOf(p)
    BY <1>2, <1>5, <1>6
  <2>2. \A p \in Obj : Listed(p) => /\ mem'[p].i_no = mem[p].i_no /\ mem'[p].i_open_cnts >= 1
                                    /\ mem'[p].i_open_cnts >= Cardinality(SlotsOf(p)')
    BY <2>1 DEF ListOK
  <2>3. ASSUME NEW k \in DOMAIN open_inodes, NEW x \in Ino, SlotsOf(open_inodes[k])' # {},
               mem[open_inodes[k]].i_no = x
        PROVE  x \in inode_bitmap' /\ Named(x)' /\ SlotsOf(open_inodes[k]) # {}
    <3>1. open_inodes[k] \in Obj /\ Listed(open_inodes[k])
      BY DEF Listed, FilesType
    <3>2. SlotsOf(open_inodes[k]) # {} /\ open_inodes[k] # c.obj
      BY <1>1, <2>1, <2>3, <3>1
    <3>3. x # c.ino
      BY <1>2, <2>3, <3>1, <3>2
    <3> QED
      BY <1>1, <1>7, <2>3, <3>2, <3>3 DEF OpenOK
  <2> QED
    BY <1>1, <2>2, <2>3, SameList
<1>9. FilesType'
  BY <1>1, <1>2, <1>4, <1>6 DEF FilesType
<1>10. DirOK'
  BY <1>1, <1>2, EntryNames DEF DirOK
<1>11. SlotsOK'
  BY <1>3, <1>5, <1>8 DEF SlotsOK
<1>12. CallOK'
  BY <1>4, CallAfter DEF InCall, Making
<1> QED
  BY <1>8, <1>9, <1>10, <1>11, <1>12

LEMMA CreatedKeeps ==
  ASSUME FilesInv, NEW t \in Proc, Created(t)
  PROVE  FilesInv'
<1> USE DEF FilesInv
<1> PICK c : c = call[t]
  OBVIOUS
<1>1. /\ pc[t] = "created" /\ Making(t)
      /\ open_inodes' = <<c.obj>> \o open_inodes
      /\ mem' = [mem EXCEPT ![c.obj].i_open_cnts = 1]
      /\ pcb_fd_install(t, c.slot)
      /\ Sleep(t, "user", NoCall)
      /\ UNCHANGED <<dir, inode_bitmap, file_table, alive, panic>>
  BY DEF Created, Making, Return
<1>2. /\ c.slot \in Slot /\ c.obj \in Obj /\ c.ino \in inode_bitmap /\ c.name \in Name
      /\ ~Listed(c.obj) /\ SlotsOf(c.obj) = {c.slot} /\ mem[c.obj].i_no = c.ino
      /\ \A p \in Obj \ {c.obj} : SlotsOf(p) # {} => mem[p].i_no # c.ino
      /\ <<c.name, c.ino>> \in dir
  BY <1>1 DEF CallOK, InCall
<1>3. \A u \in Proc : u # t => pc[u] = "user" /\ ~Making(u)
  BY <1>1, OthersOutside DEF Making
<1>4. /\ pc' = [u \in Proc |-> pc'[u]] /\ call' \in [Proc -> Calls]
      /\ \A u \in Proc : pc'[u] = "user"
  BY <1>1, <1>3, SleepSets, NoCallOK
<1>5. /\ mem' \in [Obj -> Inodes] /\ \A p \in Obj \ {c.obj} : mem'[p] = mem[p]
      /\ mem'[c.obj].i_no = c.ino /\ mem'[c.obj].i_open_cnts = 1
  <2>1. PICK e : e = [mem[c.obj] EXCEPT !.i_open_cnts = 1]
    OBVIOUS
  <2>2. mem' = [mem EXCEPT ![c.obj] = e]
    BY <1>1, <2>1
  <2>3. mem \in [Obj -> Inodes]
    BY DEF FilesType
  <2>4. e \in Inodes /\ e.i_no = c.ino /\ e.i_open_cnts = 1
    BY <1>2, <2>1, <2>3 DEF Inodes
  <2> QED
    BY <1>2, <2>2, <2>3, <2>4
<1>6. \A p : SlotsOf(p)' = SlotsOf(p)
  BY <1>1 DEF SlotsOf
<1>7. Cardinality(SlotsOf(c.obj)') = 1
  BY <1>2, <1>6, FS_Singleton
<1>8. Named(c.ino) /\ c.ino \in Ino
  BY <1>2 DEF Named, FilesType
<1>9. \A p \in Obj : Listed(p) => p # c.obj /\ mem'[p] = mem[p] /\ SlotsOf(p)' = SlotsOf(p)
  BY <1>2, <1>5, <1>6
<1>10. mem'[c.obj].i_open_cnts >= 1 /\ mem'[c.obj].i_open_cnts >= Cardinality(SlotsOf(c.obj)')
  BY <1>5, <1>7
<1>11. /\ ListOK' /\ OpenOK' /\ open_inodes' \in Seq(Obj)
       /\ \A p : Listed(p)' <=> Listed(p) \/ p = c.obj
  BY <1>1, <1>2, <1>5, <1>8, <1>9, <1>10, PushList
<1>12. fd_table' \in [Proc -> [Fd -> Slot \cup {None}]]
  BY <1>1, <1>2, Install
<1>13. FilesType' /\ DirOK'
  BY <1>1, <1>4, <1>5, <1>11, <1>12 DEF FilesType, DirOK
<1>14. SlotsOK'
  BY <1>3, <1>6, <1>11 DEF SlotsOK
<1>15. CallOK'
  BY <1>4, CallAfter DEF InCall, Making
<1> QED
  BY <1>11, <1>13, <1>14, <1>15

(* inode_close of an inode on the list, whose count covers its slots: the  *)
(* slots after the call are r, and one less than before if it is sys_close.*)
LEMMA ClosedOK ==
  ASSUME FilesInv, \A u \in Proc : Making(u) => Making(u)' /\ call'[u] = call[u],
         NEW o \in Obj, Listed(o), NEW deny \in BOOLEAN, inode_close(o, deny), UNCHANGED <<dir, inode_bitmap>>,
         \A p \in Obj \ {o} : SlotsOf(p)' = SlotsOf(p),
         SlotsOf(o)' \subseteq SlotsOf(o),
         Frees(o) => SlotsOf(o)' = {},
         ~Frees(o) => Cardinality(SlotsOf(o)') <= mem[o].i_open_cnts - 1
  PROVE  /\ mem' \in [Obj -> Inodes] /\ open_inodes' \in Seq(Obj)
         /\ ListOK' /\ OpenOK' /\ SlotsOK'
         /\ \A p : (Listed(p)' => Listed(p)) /\ (Listed(p) /\ p # o => Listed(p)')
         /\ \A p \in Obj \ {o} : mem'[p] = mem[p]
         /\ SlotsOf(o)' # {} \/ Listed(o)' => mem'[o].i_no = mem[o].i_no
<1> USE DEF FilesInv
<1>0. \A p \in Obj : SlotsOf(p)' # {} => Listed(p) \/ \E u \in Proc : Making(u)' /\ call'[u].obj = p
  <2>1. \A p \in Obj : SlotsOf(p)' # {} => SlotsOf(p) # {}
    OBVIOUS
  <2> QED
    BY <2>1 DEF SlotsOK
<1>1. CASE Frees(o)
  <2>1. /\ mem' = [mem EXCEPT ![o] = NoInode]
        /\ open_inodes' = Without(open_inodes, o)
    BY <1>1 DEF inode_close
  <2>2. /\ mem' \in [Obj -> Inodes] /\ \A p \in Obj \ {o} : mem'[p] = mem[p]
    <3>1. PICK e : e = NoInode
      OBVIOUS
    <3>2. e \in Inodes
      BY <3>1 DEF NoInode, Inode, Inodes
    <3> QED
      BY <2>1, <3>1, <3>2 DEF FilesType
  <2>3. /\ ListOK' /\ OpenOK' /\ open_inodes' \in Seq(Obj)
        /\ \A p : Listed(p)' <=> Listed(p) /\ p # o
    BY <2>1, <2>2, PopList
  <2>4. SlotsOK'
    BY <1>0, <1>1, <2>3 DEF SlotsOK
  <2> QED
    BY <1>1, <2>2, <2>3, <2>4
<1>2. CASE ~Frees(o)
  <2>1. PICK e : e = [mem[o] EXCEPT !.i_open_cnts = mem[o].i_open_cnts - 1, !.write_deny = deny]
    OBVIOUS
  <2>2. /\ mem' = [mem EXCEPT ![o] = e] /\ open_inodes' = open_inodes
    <3>1. mem' = [mem EXCEPT ![o] = IF Frees(o) THEN NoInode
                                    ELSE [mem[o] EXCEPT !.i_open_cnts = mem[o].i_open_cnts - 1,
                                                        !.write_deny = deny]]
      BY DEF inode_close
    <3>2. mem' = [mem EXCEPT ![o] = e]
      BY <1>2, <2>1, <3>1
    <3> QED
      BY <1>2, <3>2 DEF inode_close
  <2>3. mem \in [Obj -> Inodes] /\ mem[o] \in Inodes /\ mem[o].i_open_cnts >= 1 /\ mem[o].i_open_cnts # 1
    BY <1>2 DEF FilesType, ListOK, Frees
  <2>4. mem[o].i_open_cnts \in Nat /\ mem[o].i_open_cnts - 1 \in Nat /\ mem[o].i_open_cnts - 1 >= 1
    BY <2>3 DEF Inodes
  <2>5. e \in Inodes /\ e.i_no = mem[o].i_no /\ e.i_open_cnts = mem[o].i_open_cnts - 1
    BY <2>1, <2>3, <2>4 DEF Inodes
  <2>6. /\ mem' \in [Obj -> Inodes] /\ mem'[o] = e /\ \A p \in Obj \ {o} : mem'[p] = mem[p]
    BY <2>2, <2>3, <2>5
  <2>7. \A p \in Obj : Listed(p) => /\ mem'[p].i_no = mem[p].i_no /\ mem'[p].i_open_cnts >= 1
                                    /\ mem'[p].i_open_cnts >= Cardinality(SlotsOf(p)')
    <3>1. IsFiniteSet(SlotsOf(o)') /\ Cardinality(SlotsOf(o)') \in Nat
      <4>1. IsFiniteSet(SlotsOf(o))
        BY SlotsFinite
      <4> QED
        BY <4>1, FS_Subset, FS_CardinalityType
    <3>2. mem'[o].i_no = mem[o].i_no /\ mem'[o].i_open_cnts >= 1 /\ mem'[o].i_open_cnts >= Cardinality(SlotsOf(o)')
      BY <1>2, <2>4, <2>5, <2>6, <3>1
    <3>3. ASSUME NEW p \in Obj, p # o, Listed(p)
          PROVE  /\ mem'[p].i_no = mem[p].i_no /\ mem'[p].i_open_cnts >= 1
                 /\ mem'[p].i_open_cnts >= Cardinality(SlotsOf(p)')
      BY <2>6, <3>3 DEF ListOK
    <3> QED
      BY <3>2, <3>3
  <2>8. \A x : Named(x)' <=> Named(x)
    BY DEF Named
  <2>9. ASSUME NEW k \in DOMAIN open_inodes, NEW x \in Ino, SlotsOf(open_inodes[k])' # {},
               mem[open_inodes[k]].i_no = x
        PROVE  x \in inode_bitmap' /\ Named(x)' /\ SlotsOf(open_inodes[k]) # {}
    <3>1. open_inodes[k] \in Obj /\ open_inodes' = open_inodes
      BY <2>2 DEF FilesType
    <3>2. SlotsOf(open_inodes[k]) # {}
      BY <2>9, <3>1
    <3> QED
      BY <2>8, <2>9, <3>2 DEF OpenOK
  <2>10. ListOK' /\ OpenOK' /\ \A p : Listed(p)' <=> Listed(p)
    BY <2>2, <2>7, <2>9, SameList
  <2>11. SlotsOK'
    BY <1>0, <2>10 DEF SlotsOK
  <2>12. open_inodes' \in Seq(Obj)
    BY <2>2 DEF FilesType
  <2> QED
    BY <2>5, <2>6, <2>10, <2>11, <2>12
<1> QED
  BY <1>1, <1>2

LEMMA CloseKeeps ==
  ASSUME FilesInv, NEW t \in Proc, NEW d \in Fd, Close(t, d)
  PROVE  FilesInv'
<1> USE DEF FilesInv
<1> PICK s, o : s = fd_table[t][d] /\ o = file_table[s]
  OBVIOUS
<1>1. CASE s = None \/ o = None \/ Foreign(t, o) \/ (Frees(o) /\ mem[o].heap # "kernel")
  <2>1. \E why : Halt(why)
    BY <1>1 DEF Close
  <2> QED
    BY <2>1, HaltKeeps
<1>2. CASE ~(s = None \/ o = None \/ Foreign(t, o) \/ (Frees(o) /\ mem[o].heap # "kernel"))
  <2>1. /\ inode_close(o, FALSE)
        /\ file_table' = [file_table EXCEPT ![s] = None]
        /\ fd_table' = [fd_table EXCEPT ![t][d] = None]
        /\ UNCHANGED <<dir, inode_bitmap, alive, pc, call, panic>>
    BY <1>2 DEF Close
  <2>2. s \in Slot /\ o \in Obj /\ file_table[s] = o
    BY <1>2 DEF FilesType
  <2>3. ASSUME NEW u \in Proc, Making(u) PROVE call[u].obj # o
    <3>1. u # t
      BY <2>3 DEF Close, Enter, Making
    <3>2. mem[call[u].obj].heap = u
      BY <2>3 DEF CallOK, InCall
    <3> QED
      BY <1>2, <3>1, <3>2 DEF Foreign
  <2>4. /\ SlotsOf(o)' = SlotsOf(o) \ {s} /\ SlotsOf(o) # {}
        /\ Cardinality(SlotsOf(o)') = Cardinality(SlotsOf(o)) - 1
        /\ \A p \in Obj \ {o} : SlotsOf(p)' = SlotsOf(p)
    BY <2>1, <2>2, ClearSlot
  <2>5. Listed(o)
    BY <2>2, <2>3, <2>4 DEF SlotsOK
  <2>6. /\ Cardinality(SlotsOf(o)) \in Nat /\ Cardinality(SlotsOf(o)) <= mem[o].i_open_cnts
        /\ mem[o].i_open_cnts \in Nat
    BY <2>2, <2>5, SlotsFinite DEF ListOK, FilesType, Inodes
  <2>7. Cardinality(SlotsOf(o)') <= mem[o].i_open_cnts - 1
    BY <2>4, <2>6
  <2>8. Frees(o) => SlotsOf(o)' = {}
    <3>1. IsFiniteSet(SlotsOf(o)') /\ Cardinality(SlotsOf(o)') \in Nat
      <4>1. IsFiniteSet(SlotsOf(o)) /\ SlotsOf(o)' \subseteq SlotsOf(o)
        BY <2>4, SlotsFinite
      <4> QED
        BY <4>1, FS_Subset, FS_CardinalityType
    <3>2. Frees(o) => Cardinality(SlotsOf(o)') = 0
      BY <2>6, <2>7, <3>1 DEF Frees
    <3> QED
      BY <3>1, <3>2, FS_EmptySet
  <2>9. /\ mem' \in [Obj -> Inodes] /\ open_inodes' \in Seq(Obj)
        /\ ListOK' /\ OpenOK' /\ SlotsOK'
        /\ \A p : (Listed(p)' => Listed(p)) /\ (Listed(p) /\ p # o => Listed(p)')
        /\ \A p \in Obj \ {o} : mem'[p] = mem[p]
        /\ SlotsOf(o)' # {} \/ Listed(o)' => mem'[o].i_no = mem[o].i_no
    <3>1. /\ UNCHANGED <<dir, inode_bitmap>> /\ SlotsOf(o)' \subseteq SlotsOf(o) /\ FALSE \in BOOLEAN
          /\ \A u \in Proc : Making(u) => Making(u)' /\ call'[u] = call[u]
      BY <2>1, <2>4 DEF Making
    <3> QED
      BY <2>1, <2>2, <2>4, <2>5, <2>7, <2>8, <3>1, ClosedOK
  <2>10. FilesType' /\ DirOK'
    BY <2>1, <2>2, <2>9 DEF FilesType, DirOK
  <2>11. \A p \in Obj : SlotsOf(p)' # {} => SlotsOf(p) # {} /\ mem'[p].i_no = mem[p].i_no
    BY <2>4, <2>9
  <2>12. ASSUME NEW u \in Proc PROVE InCall(u)'
    <3> PICK c : c = call[u]
      OBVIOUS
    <3>1. InCall(u) /\ pc'[u] = pc[u] /\ call'[u] = c /\ (Making(u)' <=> Making(u))
          /\ \A i : Named(i)' <=> Named(i)
      BY <2>1 DEF CallOK, Making, Named
    <3>2. ASSUME pc[u] = "reading" PROVE file_table'[c.slot] = None /\ Cached(c.ino)' = {}
      <4>1. c.slot \in Slot /\ file_table[c.slot] = None /\ Cached(c.ino) = {}
        BY <3>1, <3>2 DEF InCall
      <4>2. file_table'[c.slot] = None
        BY <2>1, <2>2, <4>1 DEF FilesType
      <4>3. \A p \in Obj : Listed(p) => mem[p].i_no # c.ino
        BY <4>1 DEF Listed, Cached
      <4>4. ASSUME NEW k \in DOMAIN open_inodes' PROVE mem'[open_inodes'[k]].i_no # c.ino
        <5>1. PICK x : x = open_inodes'[k]
          OBVIOUS
        <5>2. x \in Obj /\ Listed(x)'
          BY <2>9, <5>1 DEF Listed
        <5>3. mem[x].i_no # c.ino /\ mem'[x].i_no = mem[x].i_no
          BY <2>9, <4>3, <5>2
        <5> QED
          BY <5>1, <5>3
      <4> QED
        BY <3>1, <4>2, <4>4 DEF Cached
    <3>3. ASSUME Making(u)
          PROVE  /\ ~Listed(c.obj)' /\ SlotsOf(c.obj)' = {c.slot} /\ mem'[c.obj] = mem[c.obj]
                 /\ \A p \in Obj \ {c.obj} : SlotsOf(p)' # {} => mem'[p].i_no # c.ino
      <4>1. /\ c.obj \in Obj \ {o} /\ ~Listed(c.obj) /\ SlotsOf(c.obj) = {c.slot}
            /\ \A p \in Obj \ {c.obj} : SlotsOf(p) # {} => mem[p].i_no # c.ino
        BY <2>3, <3>1, <3>3 DEF InCall
      <4> QED
        BY <2>4, <2>9, <2>11, <4>1
    <3>4. Unused(c.ino) => Unused(c.ino)'
      BY <2>11 DEF Unused
    <3>5. ASSUME pc[u] \in {"releasing", "deleting"} PROVE Listed(c.obj)' /\ mem'[c.obj] = mem[c.obj]
      <4>1. c.obj \in Obj /\ Listed(c.obj) /\ mem[c.obj].i_no = c.ino /\ Unused(c.ino)
        BY <3>1, <3>5 DEF InCall
      <4>2. c.obj # o
        BY <2>4, <4>1 DEF Unused
      <4> QED
        BY <2>9, <4>1, <4>2
    <3>6. /\ pc[u] = "reading" => file_table'[c.slot] = None /\ Cached(c.ino)' = {}
          /\ Making(u) => /\ ~Listed(c.obj)' /\ SlotsOf(c.obj)' = {c.slot} /\ mem'[c.obj] = mem[c.obj]
                          /\ \A p \in Obj \ {c.obj} : SlotsOf(p)' # {} => mem'[p].i_no # c.ino
          /\ Unused(c.ino) => Unused(c.ino)'
          /\ pc[u] \in {"releasing", "deleting"} => Listed(c.obj)' /\ mem'[c.obj] = mem[c.obj]
      BY <3>2, <3>3, <3>4, <3>5
    <3>7. UNCHANGED <<dir, inode_bitmap>>
      BY <2>1
    <3> QED
      BY <3>1, <3>6, <3>7 DEF InCall
  <2>13. CallOK'
    BY <2>1, <2>12 DEF CallOK, OneInside
  <2> QED
    BY <2>9, <2>10, <2>13
<1> QED
  BY <1>1, <1>2

LEMMA ForkKeeps ==
  ASSUME FilesInv, NEW t \in Proc, NEW u \in Proc, Fork(t, u)
  PROVE  FilesInv'
<1> USE DEF FilesInv
<1>1. CASE Fds(t, None) # {}
  BY <1>1, HaltKeeps DEF Fork
<1>3. CASE Fds(t, None) = {} /\ \E o \in Obj : Fds(t, o) # {} /\ Foreign(t, o)
  BY <1>3, HaltKeeps DEF Fork
<1>2. CASE Fds(t, None) = {} /\ ~\E o \in Obj : Fds(t, o) # {} /\ Foreign(t, o)
  <2>1. /\ fd_table' = [fd_table EXCEPT ![u] = fd_table[t]]
        /\ mem' = [o \in Obj |-> [mem[o] EXCEPT !.i_open_cnts = @ + Cardinality(Fds(t, o))]]
        /\ UNCHANGED <<dir, inode_bitmap, file_table, open_inodes, pc, call, panic>>
    BY <1>2 DEF Fork
  <2>2. \A v : Making(v)' <=> Making(v)
    BY <2>1 DEF Making
  <2>3. ASSUME NEW o \in Obj
        PROVE  /\ mem'[o] \in Inodes /\ mem'[o].i_no = mem[o].i_no /\ mem'[o].heap = mem[o].heap
               /\ mem'[o].i_open_cnts >= mem[o].i_open_cnts /\ mem[o].i_open_cnts \in Nat
    <3>1. PICK n : n = Cardinality(Fds(t, o))
      OBVIOUS
    <3>2. n \in Nat
      <4>1. IsFiniteSet(Fd) /\ Fds(t, o) \subseteq Fd
        BY OpenFilesAssumption DEF OpenFilesAssumption, Fds
      <4> QED
        BY <3>1, <4>1, FS_Subset, FS_CardinalityType
    <3>3. mem'[o] = [mem[o] EXCEPT !.i_open_cnts = mem[o].i_open_cnts + n]
      BY <2>1, <3>1
    <3>4. mem[o] \in Inodes /\ mem[o].i_open_cnts \in Nat
      BY DEF FilesType, Inodes
    <3>5. mem[o].i_open_cnts + n \in Nat /\ mem[o].i_open_cnts + n >= mem[o].i_open_cnts
      BY <3>2, <3>4
    <3> QED
      BY <3>3, <3>4, <3>5 DEF Inodes
  <2>4. (\A o : SlotsOf(o)' = SlotsOf(o)) /\ \A i : Named(i)' <=> Named(i)
    BY <2>1 DEF SlotsOf, Named
  <2>5. ASSUME NEW p \in Obj, Listed(p)
        PROVE  /\ mem'[p].i_no = mem[p].i_no /\ mem'[p].i_open_cnts >= 1
               /\ mem'[p].i_open_cnts >= Cardinality(SlotsOf(p)')
    <3>1. /\ mem[p].i_open_cnts >= 1 /\ mem[p].i_open_cnts >= Cardinality(SlotsOf(p))
          /\ Cardinality(SlotsOf(p)) \in Nat /\ SlotsOf(p)' = SlotsOf(p)
      BY <2>4, <2>5, SlotsFinite DEF ListOK
    <3>2. mem'[p].i_open_cnts \in Nat
      BY <2>3 DEF Inodes
    <3> QED
      BY <2>3, <3>1, <3>2
  <2>6. ASSUME NEW k \in DOMAIN open_inodes, NEW x \in Ino, SlotsOf(open_inodes[k])' # {},
               mem[open_inodes[k]].i_no = x
        PROVE  x \in inode_bitmap' /\ Named(x)' /\ SlotsOf(open_inodes[k]) # {}
    <3>1. SlotsOf(open_inodes[k]) # {}
      BY <2>1, <2>4, <2>6
    <3> QED
      BY <2>1, <2>4, <2>6, <3>1 DEF OpenOK
  <2>7. ListOK' /\ OpenOK' /\ \A p : Listed(p)' <=> Listed(p)
    BY <2>1, <2>5, <2>6, SameList
  <2>8. mem' \in [Obj -> Inodes]
    BY <2>1, <2>3
  <2>9. fd_table' \in [Proc -> [Fd -> Slot \cup {None}]]
    BY <2>1 DEF FilesType
  <2>10. FilesType' /\ DirOK'
    BY <2>1, <2>8, <2>9 DEF FilesType, DirOK
  <2>11. SlotsOK'
    BY <2>1, <2>2, <2>4, <2>7 DEF SlotsOK
  <2>12. (\A i : Cached(i)' = Cached(i)) /\ \A i : Unused(i)' <=> Unused(i)
    <3>1. \A k \in DOMAIN open_inodes : open_inodes[k] \in Obj
      BY DEF FilesType
    <3> QED
      BY <2>1, <2>3, <2>4, <3>1 DEF Cached, Unused
  <2>13. ASSUME NEW v \in Proc PROVE InCall(v)'
    <3>1. InCall(v)
      BY DEF CallOK
    <3>2. \A o \in Obj : mem'[o].i_no = mem[o].i_no /\ mem'[o].heap = mem[o].heap
      BY <2>3
    <3>3. UNCHANGED <<dir, inode_bitmap, file_table, pc, call>>
      BY <2>1
    <3> QED
      BY <2>2, <2>4, <2>7, <2>12, <3>1, <3>2, <3>3 DEF InCall
  <2>14. CallOK'
    BY <2>1, <2>13 DEF CallOK, OneInside
  <2> QED
    BY <2>7, <2>10, <2>11, <2>14
<1> QED
  BY <1>1, <1>2, <1>3

LEMMA UnlinkKeeps ==
  ASSUME FilesInv, NEW t \in Proc, NEW n \in Name, Unlink(t, n)
  PROVE  FilesInv'
<1> USE DEF FilesInv
<1>1. CASE ~TableOK(t, InoOf(n))
  BY <1>1, HaltKeeps DEF Unlink
<1>2. CASE TableOK(t, InoOf(n))
  <2>1. PICK i \in Ino : i = InoOf(n)
    BY FoundOK DEF Unlink
  <2>2. PICK c : c = [NoCall EXCEPT !.ino = i]
    OBVIOUS
  <2>3. c \in Calls /\ c.ino = i
    BY <2>2 DEF NoCall, Calls
  <2>4. /\ ~InUse(i) /\ Sleep(t, "unlinking", c)
        /\ UNCHANGED <<dir, inode_bitmap, file_table, mem, open_inodes, fd_table>>
    BY <1>2, <2>1, <2>2 DEF Unlink
  <2>5. \A u \in Proc : pc[u] = "user"
    BY DEF Unlink, Search
  <2>6. Unused(i)
    <3> SUFFICES ASSUME NEW o \in Obj, NEW s \in Slot, file_table[s] = o, mem[o].i_no = i PROVE FALSE
      BY DEF Unused, SlotsOf
    <3>1. Uses(s, i)
      BY NoneIn DEF Uses
    <3> QED
      BY <2>4, <3>1 DEF InUse
  <2>7. Unused(i)'
    BY <2>4, <2>6 DEF Unused, SlotsOf
  <2>8. pc'[t] = "unlinking" /\ call'[t] = c
    BY <2>3, <2>4, <2>5, SleepSets
  <2>9. InCall(t)'
    BY <2>1, <2>3, <2>7, <2>8 DEF InCall, Making
  <2> QED
    BY <2>3, <2>4, <2>5, <2>9, StartKeeps
<1> QED
  BY <1>1, <1>2

LEMMA EntryRemovedKeeps ==
  ASSUME FilesInv, NEW t \in Proc, EntryRemoved(t)
  PROVE  FilesInv'
<1> USE DEF FilesInv
<1> PICK i : i = call[t].ino
  OBVIOUS
<1>1. CASE ~SearchOK(t, i)
  BY <1>1, HaltKeeps DEF EntryRemoved
<1>2. CASE SearchOK(t, i)
  <2>1. /\ pc[t] = "unlinking" /\ dir' = {e \in dir : e[2] # i}
        /\ UNCHANGED <<inode_bitmap, file_table, open_inodes, fd_table, alive, panic>>
    BY <1>2 DEF EntryRemoved
  <2>2. i \in Ino /\ Unused(i)
    BY <2>1 DEF CallOK, InCall
  <2>3. \A u \in Proc : u # t => pc[u] = "user"
    BY <2>1, OthersOutside
  <2>4. \A u \in Proc : ~Making(u)
    BY <2>1, <2>3 DEF Making
  <2>5. (\A o : SlotsOf(o)' = SlotsOf(o)) /\ (\A o : Listed(o)' <=> Listed(o))
    BY <2>1 DEF SlotsOf, Listed
  <2>6. (\A x \in Ino : x # i /\ Named(x) => Named(x)') /\ ~Named(i)'
    BY <2>1 DEF Named
  <2>7. \E c, p : /\ c \in Calls /\ Sleep(t, p, c) /\ c.ino = i
                  /\ \/ p = "releasing" /\ c.obj \in Obj /\ Listed(c.obj) /\ mem[c.obj].i_no = i
                     \/ p = "fetching"
                  /\ mem' \in [Obj -> Inodes]
                  /\ \A o \in Obj : mem'[o].i_no = mem[o].i_no /\ mem'[o].i_open_cnts >= mem[o].i_open_cnts
    <3>1. mem \in [Obj -> Inodes]
      BY DEF FilesType
    <3>2. CASE Cached(i) # {}
      <4>1. PICK o : o = CachedAt(i)
        OBVIOUS
      <4>2. o \in Obj /\ Listed(o) /\ mem[o].i_no = i
        BY <3>2, <4>1, CachedOK
      <4>3. PICK c : c = [call[t] EXCEPT !.obj = o]
        OBVIOUS
      <4>4. mem' = [mem EXCEPT ![o].i_open_cnts = @ + 1] /\ Sleep(t, "releasing", c)
        BY <1>2, <3>2, <4>1, <4>3 DEF EntryRemoved
      <4>5. PICK m : m = [mem EXCEPT ![o].i_open_cnts = @ + 1]
        OBVIOUS
      <4>6. /\ m \in [Obj -> Inodes] /\ \A p \in Obj \ {o} : m[p] = mem[p]
            /\ m[o].i_no = mem[o].i_no /\ m[o].i_open_cnts = mem[o].i_open_cnts + 1
        BY <3>1, <4>2, <4>5, CountOK
      <4>7. \A p \in Obj : mem[p].i_open_cnts \in Nat
        BY <3>1 DEF Inodes
      <4>8. \A p \in Obj : m[p].i_no = mem[p].i_no /\ m[p].i_open_cnts >= mem[p].i_open_cnts
        BY <4>2, <4>6, <4>7
      <4>9. c \in Calls /\ c.ino = i /\ c.obj = o
        <5>1. call[t] \in Calls
          BY DEF FilesType
        <5> QED
          BY <4>2, <4>3, <5>1 DEF Calls
      <4> QED
        BY <4>2, <4>4, <4>5, <4>6, <4>8, <4>9
    <3>3. CASE Cached(i) = {}
      <4>1. Sleep(t, "fetching", call[t]) /\ UNCHANGED mem
        BY <1>2, <3>3 DEF EntryRemoved
      <4>2. (\A p \in Obj : mem[p].i_open_cnts \in Nat) /\ call[t] \in Calls
        BY <3>1 DEF Inodes, FilesType
      <4> QED
        BY <3>1, <4>1, <4>2
    <3> QED
      BY <3>2, <3>3
  <2>8. PICK c, p : /\ c \in Calls /\ Sleep(t, p, c) /\ c.ino = i
                    /\ \/ p = "releasing" /\ c.obj \in Obj /\ Listed(c.obj) /\ mem[c.obj].i_no = i
                       \/ p = "fetching"
                    /\ mem' \in [Obj -> Inodes]
                    /\ \A o \in Obj : mem'[o].i_no = mem[o].i_no /\ mem'[o].i_open_cnts >= mem[o].i_open_cnts
    BY <2>7
  <2>9. /\ pc' = [u \in Proc |-> pc'[u]] /\ call' \in [Proc -> Calls]
        /\ pc'[t] = p /\ call'[t] = c
        /\ \A u \in Proc : u # t => pc'[u] = "user"
    BY <2>3, <2>8, SleepSets
  <2>10. FilesType' /\ DirOK'
    BY <2>1, <2>8, <2>9 DEF FilesType, DirOK
  <2>11. ASSUME NEW o \in Obj, Listed(o)
         PROVE  /\ mem'[o].i_no = mem[o].i_no /\ mem'[o].i_open_cnts >= 1
                /\ mem'[o].i_open_cnts >= Cardinality(SlotsOf(o)')
    <3>1. /\ mem[o].i_open_cnts >= 1 /\ mem[o].i_open_cnts >= Cardinality(SlotsOf(o))
          /\ Cardinality(SlotsOf(o)) \in Nat /\ SlotsOf(o)' = SlotsOf(o)
      BY <2>5, <2>11, SlotsFinite DEF ListOK
    <3>2. mem'[o].i_open_cnts \in Nat /\ mem[o].i_open_cnts \in Nat
      BY <2>8 DEF FilesType, Inodes
    <3> QED
      BY <2>8, <3>1, <3>2
  <2>12. ASSUME NEW k \in DOMAIN open_inodes, NEW x \in Ino, SlotsOf(open_inodes[k])' # {},
                mem[open_inodes[k]].i_no = x
         PROVE  x \in inode_bitmap' /\ Named(x)' /\ SlotsOf(open_inodes[k]) # {}
    <3>1. open_inodes[k] \in Obj /\ SlotsOf(open_inodes[k]) # {}
      BY <2>1, <2>5, <2>12 DEF FilesType
    <3>2. x # i
      BY <2>2, <2>12, <3>1 DEF Unused
    <3> QED
      BY <2>1, <2>6, <2>12, <3>1, <3>2 DEF OpenOK
  <2>13. ListOK' /\ OpenOK'
    BY <2>1, <2>11, <2>12, SameList
  <2>14. SlotsOK'
    BY <2>4, <2>5, AllListed DEF SlotsOK
  <2>15. Unused(i)'
    BY <2>2, <2>5, <2>8 DEF Unused
  <2>16. InCall(t)'
    BY <2>2, <2>5, <2>6, <2>8, <2>9, <2>15 DEF InCall, Making
  <2> QED
    BY <2>9, <2>10, <2>13, <2>14, <2>16, CallAfter
<1> QED
  BY <1>1, <1>2

LEMMA InodeFetchedKeeps ==
  ASSUME FilesInv, NEW t \in Proc, InodeFetched(t)
  PROVE  FilesInv'
<1> USE DEF FilesInv
<1> PICK i : i = call[t].ino
  OBVIOUS
<1>1. /\ pc[t] = "fetching" /\ UNCHANGED <<dir, inode_bitmap, file_table, fd_table, alive, panic>>
  BY DEF InodeFetched
<1>2. i \in Ino /\ Unused(i) /\ ~Named(i)
  BY <1>1 DEF CallOK, InCall
<1>3. \A u \in Proc : u # t => pc[u] = "user"
  BY <1>1, OthersOutside
<1>4. \A u \in Proc : ~Making(u)
  BY <1>1, <1>3 DEF Making
<1>5. PICK o \in FreeObjs :
        /\ NewInode(o)
        /\ mem' = [mem EXCEPT ![o] = Inode(i, 1, "kernel")]
        /\ Sleep(t, "releasing", [call[t] EXCEPT !.obj = o])
  BY DEF InodeFetched
<1>6. o \in Obj /\ ~Listed(o) /\ SlotsOf(o) = {}
  BY <1>4, FreeObjOK
<1>7. PICK c : c = [call[t] EXCEPT !.obj = o]
  OBVIOUS
<1>8. c \in Calls /\ c.ino = i /\ c.obj = o
  <2>1. call[t] \in Calls
    BY DEF FilesType
  <2> QED
    BY <1>6, <1>7, <2>1 DEF Calls
<1>9. /\ pc' = [u \in Proc |-> pc'[u]] /\ call' \in [Proc -> Calls]
      /\ pc'[t] = "releasing" /\ call'[t] = c
      /\ \A u \in Proc : u # t => pc'[u] = "user"
  BY <1>3, <1>5, <1>7, <1>8, SleepSets
<1>10. /\ mem' \in [Obj -> Inodes] /\ \A p \in Obj \ {o} : mem'[p] = mem[p]
       /\ mem'[o].i_no = i /\ mem'[o].i_open_cnts = 1
  <2>1. PICK e : e = Inode(i, 1, "kernel")
    OBVIOUS
  <2>2. e \in Inodes /\ e.i_no = i /\ e.i_open_cnts = 1
    BY <1>2, <2>1 DEF Inode, Inodes
  <2> QED
    BY <1>5, <1>6, <2>1, <2>2 DEF FilesType
<1>11. (\A p : SlotsOf(p)' = SlotsOf(p)) /\ \A x : Named(x)' <=> Named(x)
  BY <1>1 DEF SlotsOf, Named
<1>12. SlotsOf(o)' = {} /\ Cardinality(SlotsOf(o)') <= 1
  BY <1>6, <1>11, FS_EmptySet
<1>13. \A p \in Obj : SlotsOf(p) # {} => mem[p].i_no # i
  BY <1>2 DEF Unused
<1>14. /\ ListOK' /\ OpenOK' /\ open_inodes' \in Seq(Obj) /\ SlotsOK'
       /\ \A p : Listed(p)' <=> Listed(p) \/ p = o
  BY <1>1, <1>2, <1>4, <1>5, <1>10, <1>11, <1>12, <1>13, NewInodeOK
<1>15. FilesType' /\ DirOK'
  BY <1>1, <1>9, <1>10, <1>14 DEF FilesType, DirOK
<1>16. Unused(i)'
  BY <1>6, <1>10, <1>11, <1>13 DEF Unused
<1>17. InCall(t)'
  BY <1>2, <1>6, <1>8, <1>9, <1>10, <1>11, <1>14, <1>16 DEF InCall, Making
<1> QED
  BY <1>9, <1>14, <1>15, <1>17, CallAfter

LEMMA InodeReleasedKeeps ==
  ASSUME FilesInv, NEW t \in Proc, InodeReleased(t)
  PROVE  FilesInv'
<1> USE DEF FilesInv
<1> PICK c : c = call[t]
  OBVIOUS
<1>1. /\ pc[t] = "releasing" /\ inode_bitmap' = inode_bitmap \ {c.ino}
      /\ Sleep(t, "deleting", c)
      /\ UNCHANGED <<dir, file_table, mem, open_inodes, fd_table, alive, panic>>
  BY DEF InodeReleased
<1>2. /\ c.ino \in Ino /\ Unused(c.ino) /\ ~Named(c.ino) /\ c.obj \in Obj /\ Listed(c.obj)
      /\ mem[c.obj].i_no = c.ino
  BY <1>1 DEF CallOK, InCall
<1>3. \A u \in Proc : u # t => pc[u] = "user"
  BY <1>1, OthersOutside
<1>4. \A u \in Proc : ~Making(u)
  BY <1>1, <1>3 DEF Making
<1>5. (\A p : SlotsOf(p)' = SlotsOf(p)) /\ (\A x : Named(x)' <=> Named(x)) /\ \A p : Listed(p)' <=> Listed(p)
  BY <1>1 DEF SlotsOf, Named, Listed
<1>6. /\ pc' = [u \in Proc |-> pc'[u]] /\ call' \in [Proc -> Calls]
      /\ pc'[t] = "deleting" /\ call'[t] = c
      /\ \A u \in Proc : u # t => pc'[u] = "user"
  <2>1. c \in Calls
    BY DEF FilesType
  <2> QED
    BY <1>1, <1>3, <2>1, SleepSets
<1>7. FilesType'
  BY <1>1, <1>6 DEF FilesType
<1>8. DirOK'
  BY <1>1, <1>2, EntryNames DEF DirOK
<1>9. ListOK'
  BY <1>1, <1>5 DEF ListOK
<1>10. OpenOK'
  <2>1. \A k \in DOMAIN open_inodes : SlotsOf(open_inodes[k]) # {} => mem[open_inodes[k]].i_no # c.ino
    BY <1>2 DEF Unused, FilesType
  <2> QED
    BY <1>1, <1>5, <2>1 DEF OpenOK
<1>11. SlotsOK'
  BY <1>4, <1>5, AllListed DEF SlotsOK
<1>12. Unused(c.ino)'
  BY <1>1, <1>2, <1>5 DEF Unused
<1>13. InCall(t)'
  BY <1>1, <1>2, <1>5, <1>6, <1>12 DEF InCall, Making
<1> QED
  BY <1>6, <1>7, <1>8, <1>9, <1>10, <1>11, <1>13, CallAfter

LEMMA InodeDeletedKeeps ==
  ASSUME FilesInv, NEW t \in Proc, InodeDeleted(t)
  PROVE  FilesInv'
<1> USE DEF FilesInv
<1> PICK o : o = call[t].obj
  OBVIOUS
<1>1. CASE Frees(o) /\ mem[o].heap # "kernel"
  BY <1>1, HaltKeeps DEF InodeDeleted
<1>2. CASE ~(Frees(o) /\ mem[o].heap # "kernel")
  <2>1. /\ pc[t] = "deleting" /\ inode_close(o, mem[o].write_deny) /\ Sleep(t, "user", NoCall)
        /\ UNCHANGED <<dir, inode_bitmap, file_table, fd_table, alive, panic>>
    BY <1>2 DEF InodeDeleted, Return
  <2>2. /\ Unused(call[t].ino) /\ o \in Obj /\ Listed(o) /\ mem[o].i_no = call[t].ino
    BY <2>1 DEF CallOK, InCall
  <2>3. \A u \in Proc : u # t => pc[u] = "user"
    BY <2>1, OthersOutside
  <2>4. \A u \in Proc : ~Making(u)
    BY <2>1, <2>3 DEF Making
  <2>5. (\A p : SlotsOf(p)' = SlotsOf(p)) /\ SlotsOf(o)' = {}
    BY <2>1, <2>2 DEF SlotsOf, Unused
  <2>6. Cardinality(SlotsOf(o)') <= mem[o].i_open_cnts - 1
    <3>1. mem[o].i_open_cnts \in Nat /\ mem[o].i_open_cnts >= 1
      BY <2>2 DEF ListOK, FilesType, Inodes
    <3> QED
      BY <2>5, <3>1, FS_EmptySet
  <2>7. mem[o].write_deny \in BOOLEAN
    BY <2>2 DEF FilesType, Inodes
  <2>8. /\ mem' \in [Obj -> Inodes] /\ open_inodes' \in Seq(Obj)
        /\ ListOK' /\ OpenOK' /\ SlotsOK'
    <3>1. UNCHANGED <<dir, inode_bitmap>> /\ SlotsOf(o)' \subseteq SlotsOf(o)
      BY <2>1, <2>5
    <3>2. PICK deny \in BOOLEAN : deny = mem[o].write_deny
      BY <2>7
    <3>3. inode_close(o, deny)
      BY <2>1, <3>2
    <3> QED
      BY <2>2, <2>4, <2>5, <2>6, <3>1, <3>3, ClosedOK
  <2>9. /\ pc' = [u \in Proc |-> pc'[u]] /\ call' \in [Proc -> Calls]
        /\ \A u \in Proc : pc'[u] = "user"
    BY <2>1, <2>3, SleepSets, NoCallOK
  <2>10. FilesType' /\ DirOK'
    BY <2>1, <2>8, <2>9 DEF FilesType, DirOK
  <2>11. CallOK'
    BY <2>9, CallAfter DEF InCall, Making
  <2> QED
    BY <2>8, <2>10, <2>11
<1> QED
  BY <1>1, <1>2

LEMMA FilesInvInit == FilesInit => FilesInv
<1> SUFFICES ASSUME FilesInit PROVE FilesInv
  OBVIOUS
<1>1. PICK f \in [Old -> Ino] : dir = {<<n, f[n]>> : n \in Old} /\ inode_bitmap = {f[n] : n \in Old}
  BY DEF FilesInit
<1>2. Old \subseteq Name
  BY OpenFilesAssumption DEF OpenFilesAssumption
<1>3. NoInode \in Inodes
  BY DEF NoInode, Inode, Inodes
<1>4. FilesType
  BY <1>1, <1>2, <1>3, NoCallOK DEF FilesInit, FilesType
<1>5. (\A o : ~Listed(o)) /\ DOMAIN open_inodes = {}
  BY DEF FilesInit, Listed
<1>6. \A o \in Obj : SlotsOf(o) = {}
  BY NoneIn DEF FilesInit, SlotsOf
<1>7. ListOK /\ OpenOK /\ SlotsOK
  BY <1>5, <1>6 DEF ListOK, OpenOK, SlotsOK
<1>8. DirOK
  BY <1>1 DEF DirOK
<1>9. CallOK
  BY DEF FilesInit, CallOK, OneInside, InCall, Making
<1> QED
  BY <1>4, <1>7, <1>8, <1>9 DEF FilesInv

LEMMA FilesInvNext == ASSUME FilesInv, [FilesNext]_fileVars PROVE FilesInv'
<1>1. CASE UNCHANGED fileVars
  <2>1. \E why : Halt(why)
    BY <1>1 DEF Halt, fileVars
  <2> QED
    BY <2>1, HaltKeeps
<1>2. ASSUME NEW t \in Proc, NEW n \in Name, NEW write \in BOOLEAN, Open(t, n, write) PROVE FilesInv'
  BY <1>2, OpenKeeps
<1>3. ASSUME NEW t \in Proc, NEW n \in Name, Create(t, n) PROVE FilesInv'
  BY <1>3, CreateKeeps
<1>4. ASSUME NEW t \in Proc, NEW n \in Name, Unlink(t, n) PROVE FilesInv'
  BY <1>4, UnlinkKeeps
<1>5. ASSUME NEW t \in Proc, NEW n \in Name,
             UnlinkFails(t, n) \/ \E create \in BOOLEAN : OpenFails(t, n, create)
      PROVE  FilesInv'
  BY <1>1, <1>5 DEF UnlinkFails, OpenFails
<1>6. ASSUME NEW t \in Proc, InodeRead(t) PROVE FilesInv'
  BY <1>6, InodeReadKeeps
<1>7. ASSUME NEW t \in Proc, EntryWritten(t) PROVE FilesInv'
  BY <1>7, EntryWrittenKeeps
<1>8. ASSUME NEW t \in Proc, Rollback(t) PROVE FilesInv'
  BY <1>8, RollbackKeeps
<1>9. ASSUME NEW t \in Proc, Created(t) PROVE FilesInv'
  BY <1>9, CreatedKeeps
<1>10. ASSUME NEW t \in Proc, NEW d \in Fd, Close(t, d) PROVE FilesInv'
  BY <1>10, CloseKeeps
<1>11. ASSUME NEW t \in Proc, NEW u \in Proc, Fork(t, u) PROVE FilesInv'
  BY <1>11, ForkKeeps
<1>12. ASSUME NEW t \in Proc, EntryRemoved(t) PROVE FilesInv'
  BY <1>12, EntryRemovedKeeps
<1>13. ASSUME NEW t \in Proc, InodeFetched(t) PROVE FilesInv'
  BY <1>13, InodeFetchedKeeps
<1>14. ASSUME NEW t \in Proc, InodeReleased(t) PROVE FilesInv'
  BY <1>14, InodeReleasedKeeps
<1>15. ASSUME NEW t \in Proc, InodeDeleted(t) PROVE FilesInv'
  BY <1>15, InodeDeletedKeeps
<1> QED
  BY <1>1, <1>2, <1>3, <1>4, <1>5, <1>6, <1>7, <1>8, <1>9, <1>10, <1>11, <1>12, <1>13, <1>14, <1>15
  DEF FilesNext
-----------------------------------------------------------------------------
(* The tables agree with each other after every step of every call, the    *)
(* disk of sys_unlink and file_create included.                            *)
THEOREM OpenFilesInvariant == FilesSpec => []FilesInv
BY FilesInvInit, FilesInvNext, PTL DEF FilesSpec

(* sys_open never makes a second struct inode for a file that is open.     *)
THEOREM OpenFilesInodeOnce == FilesSpec => []InodeOnce
<1>1. FilesInv => InodeOnce
  <2> SUFFICES ASSUME FilesInv, NEW o \in Obj, NEW p \in Obj, SlotsOf(o) # {}, SlotsOf(p) # {},
                      mem[o].i_no = mem[p].i_no
               PROVE  o = p
    BY DEF InodeOnce
  <2> USE DEF FilesInv
  <2>1. CASE Listed(o) /\ Listed(p)
    <3>1. PICK j, k \in DOMAIN open_inodes : open_inodes[j] = o /\ open_inodes[k] = p
      BY <2>1 DEF Listed
    <3>2. j <= k /\ k <= j
      BY <3>1 DEF OpenOK
    <3>3. j \in Nat /\ k \in Nat
      BY DEF FilesType
    <3> QED
      BY <3>1, <3>2, <3>3
  <2>2. ASSUME NEW x \in Obj, NEW y \in Obj, ~Listed(x), SlotsOf(x) # {}, SlotsOf(y) # {},
               mem[x].i_no = mem[y].i_no
        PROVE  x = y
    <3>1. PICK t \in Proc : Making(t) /\ call[t].obj = x
      BY <2>2 DEF SlotsOK
    <3>2. mem[x].i_no = call[t].ino /\ \A q \in Obj \ {x} : SlotsOf(q) # {} => mem[q].i_no # call[t].ino
      BY <3>1 DEF CallOK, InCall
    <3> QED
      BY <2>2, <3>2
  <2> QED
    BY <2>1, <2>2
<1> QED
  BY <1>1, OpenFilesInvariant, PTL

(* inode_close frees a struct inode only when no slot points to it.        *)
THEOREM OpenFilesNoDangling == FilesSpec => []NoDangling
<1>1. FilesInv => NoDangling
  <2> SUFFICES ASSUME FilesInv, NEW o \in Obj, SlotsOf(o) # {}
               PROVE  /\ mem[o] # NoInode
                      /\ \/ Listed(o) /\ mem[o].i_open_cnts >= Cardinality(SlotsOf(o))
                         \/ \E t \in Proc : Making(t) /\ call[t].obj = o
    BY DEF NoDangling, Listed, Making
  <2> USE DEF FilesInv
  <2>1. mem[o].i_no \in Ino => mem[o] # NoInode
    BY NoneIn DEF NoInode, Inode
  <2>2. CASE Listed(o)
    BY <2>1, <2>2 DEF ListOK
  <2>3. CASE ~Listed(o)
    <3>1. PICK t \in Proc : Making(t) /\ call[t].obj = o
      BY <2>3 DEF SlotsOK
    <3>2. mem[o].i_no \in Ino
      BY <3>1 DEF CallOK, InCall, FilesType
    <3> QED
      BY <2>1, <3>1, <3>2
  <2> QED
    BY <2>2, <2>3
<1> QED
  BY <1>1, OpenFilesInvariant, PTL

(* sys_unlink never removes a file that somebody has open, and nobody gets *)
(* its inode number while it is.                                           *)
THEOREM OpenFilesUnlinkedNotOpen == FilesSpec => []UnlinkedNotOpen
<1>1. FilesInv => UnlinkedNotOpen
  BY DEF FilesInv, OpenOK, UnlinkedNotOpen, IsOpen, Named
<1> QED
  BY <1>1, OpenFilesInvariant, PTL
=============================================================================
