----------------------------- MODULE PmpProofs -----------------------------
(***************************************************************************)
(* Proofs about Pmp, for any number of entries, any memory and anything    *)
(* software writes to the registers.                                       *)
(***************************************************************************)
EXTENDS Pmp, TLAPS, WellFoundedInduction

\* What the constants are, without the reasons.
LEMMA Constants ==
    /\ PmpCount \in Nat \ {0} /\ PerReg \in Nat \ {0}
    /\ Entry \subseteq Nat /\ Valid \subseteq Nat /\ Zero \in Config
BY PmpAssumption DEF Entry, Zero, Config, Modes

\* The scan of a check ends at the least entry that applies: CHOOSE finds it.
LEMMA LeastExists ==
    ASSUME NEW S \in SUBSET Nat, S # {}
    PROVE  LET i == CHOOSE j \in S : \A k \in S : j <= k
           IN  i \in S /\ \A k \in S : i <= k
<1> DEFINE R == {ss \in Nat \X Nat : ss[1] < ss[2]}
<1>1. IsWellFoundedOn(R, Nat)
  BY NatLessThanWellFounded DEF OpToRel
<1>2. PICK x \in S : \A y \in S : ~(<<y, x>> \in R)
  <2> HIDE DEF R
  <2> QED BY <1>1, WFMin
<1>3. \A y \in S : x <= y
  <2> SUFFICES ASSUME NEW y \in S PROVE x <= y
    OBVIOUS
  <2>1. x \in Nat /\ y \in Nat /\ <<y, x>> \notin R
    BY <1>2
  <2>2. <<y, x>> \in Nat \X Nat /\ <<y, x>>[1] = y /\ <<y, x>>[2] = x
    BY <2>1
  <2>3. ~(y < x)
    BY <2>1, <2>2
  <2> QED BY <2>1, <2>3
<1> QED BY <1>3

\* A byte and its word have the same place in a range of whole words.
LEMMA WordDiv ==
    ASSUME NEW b \in Nat, NEW c \in Nat, NEW n \in Nat \ {0}, b \div 4 = c \div 4
    PROVE  b \div (4 * n) = c \div (4 * n)
<1> DEFINE q == b \div (4 * n)
           m == n * q
<1>1. 4 * n \in Nat /\ 4 * n > 0
  OBVIOUS
<1>2. q \in Nat
  BY <1>1
<1>3. m \in Nat /\ 4 * n * q = 4 * m
  BY <1>2
<1>4. 4 * m <= b /\ b < 4 * m + 4 * n
  BY <1>1, <1>2, <1>3
<1>5. 4 * m <= c /\ c < 4 * m + 4 * n
  <2> HIDE DEF m
  <2> QED BY <1>3, <1>4
<1>6. (4 * n) * q <= c /\ c < (4 * n) * q + 4 * n => c \div (4 * n) = q
  BY <1>1, <1>2
<1> QED BY <1>3, <1>5, <1>6

\* A range holds all bytes of a word or none.
LEMMA InEntryWord ==
    ASSUME TypeOK, NEW i \in Entry, NEW b \in Nat, NEW c \in Nat, b \div 4 = c \div 4
    PROVE  InEntry(i, b) <=> InEntry(i, c)
<1>1. /\ pmpaddr[i] \in Nat /\ pmpconfig[i].a \in Modes
      /\ i # 0 => pmpaddr[i - 1] \in Nat
  BY Constants DEF TypeOK, Config, Entry
<1>2. CASE pmpconfig[i].a = "OFF"
  BY <1>2 DEF InEntry
<1>3. CASE pmpconfig[i].a = "TOR"
  <2>1. \A m \in Nat : (4 * m <= b <=> 4 * m <= c) /\ (b < 4 * m <=> c < 4 * m)
    OBVIOUS
  <2> QED BY <1>1, <1>3, <2>1 DEF InEntry
<1>4. CASE pmpconfig[i].a = "NA4"
  BY <1>4 DEF InEntry
<1>5. CASE pmpconfig[i].a = "NAPOT"
  <2>1. \A n \in NapotWords(pmpaddr[i]) : n \in Nat \ {0}
    BY <1>1 DEF NapotWords
  <2>2. \A n \in NapotWords(pmpaddr[i]) : b \div (4 * n) = c \div (4 * n)
    BY <2>1, WordDiv
  <2> QED BY <1>5, <2>2 DEF InEntry
<1> QED BY <1>1, <1>2, <1>3, <1>4, <1>5 DEF Modes

\* What a step leaves alone of a locked entry: its configuration, its
\* address, and its neighbour's if that is where its range begins.
LEMMA LockedKept ==
    ASSUME TypeOK, [Next]_vars, NEW i \in Entry, pmpconfig[i].lock
    PROVE  /\ pmpconfig'[i] = pmpconfig[i] /\ pmpaddr'[i] = pmpaddr[i]
           /\ (pmpconfig[i].a = "TOR" /\ i # 0) => pmpaddr'[i - 1] = pmpaddr[i - 1]
<1>1. ~Writable(i)
  BY DEF Writable
<1>2. (pmpconfig[i].a = "TOR" /\ i # 0) => (i - 1 \in Entry /\ ~Writable(i - 1))
  BY Constants DEF Writable, Entry
<1>3. ASSUME NEW w \in AddrWrites, UpdateAddr(w)
      PROVE  pmpconfig' = pmpconfig /\ \A j \in Entry : ~Writable(j) => pmpaddr'[j] = pmpaddr[j]
  <2>1. w.id \in Entry
    BY PmpAssumption
  <2> QED BY <1>3, <2>1 DEF UpdateAddr, TypeOK
<1>4. ASSUME NEW w \in ConfigWrites, UpdateConfig(w)
      PROVE  pmpaddr' = pmpaddr /\ \A j \in Entry : ~Writable(j) => pmpconfig'[j] = pmpconfig[j]
  BY <1>4 DEF UpdateConfig, Writes
<1>5. CASE UNCHANGED vars
  BY <1>5 DEF vars
<1> QED BY <1>1, <1>2, <1>3, <1>4, <1>5 DEF Next

LEMMA RangeKept ==
    ASSUME TypeOK, [Next]_vars, NEW i \in Entry, pmpconfig[i].lock, NEW b \in Nat
    PROVE  InEntry(i, b)' <=> InEntry(i, b)
<1>1. /\ pmpconfig'[i] = pmpconfig[i] /\ pmpaddr'[i] = pmpaddr[i]
      /\ (pmpconfig[i].a = "TOR" /\ i # 0) => pmpaddr'[i - 1] = pmpaddr[i - 1]
  BY LockedKept
<1>2. pmpconfig[i].a \in Modes
  BY DEF TypeOK, Config
<1>3. CASE pmpconfig[i].a = "OFF"
  BY <1>1, <1>3 DEF InEntry
<1>4. CASE pmpconfig[i].a = "TOR"
  BY <1>1, <1>4 DEF InEntry
<1>5. CASE pmpconfig[i].a = "NA4"
  BY <1>1, <1>5 DEF InEntry
<1>6. CASE pmpconfig[i].a = "NAPOT"
  BY <1>1, <1>6 DEF InEntry
<1> QED BY <1>2, <1>3, <1>4, <1>5, <1>6 DEF Modes

(***************************************************************************)
(* The inductive invariant.                                                *)
(***************************************************************************)
\* What is settled stays settled: it rests on locked entries.
LEMMA SealKept ==
    ASSUME TypeOK, [Next]_vars, NEW i \in Entry, NEW b \in Nat, Seals(i, b)
    PROVE  Seals(i, b)'
<1>1. \A j \in 0 .. i : j \in Entry
  BY Constants DEF Entry
<1>2. \A j \in 0 .. i : pmpconfig[j].lock
  BY DEF Seals
<1>3. \A j \in 0 .. i : pmpconfig'[j] = pmpconfig[j] /\ (InEntry(j, b)' <=> InEntry(j, b))
  BY <1>1, <1>2, LockedKept, RangeKept
<1>4. i \in 0 .. i /\ \A j \in 0 .. i - 1 : j \in 0 .. i
  BY Constants DEF Entry
<1> QED BY <1>2, <1>3, <1>4 DEF Seals

LEMMA StepKeepsInv == PmpInv /\ [Next]_vars => PmpInv'
<1> SUFFICES ASSUME PmpInv, [Next]_vars PROVE PmpInv'
  OBVIOUS
<1> USE DEF PmpInv
<1>1. ASSUME NEW w \in AddrWrites, UpdateAddr(w) PROVE TypeOK' /\ IdsMatch' /\ Seal
  <2>1. w.id \in Entry /\ w.val \in Nat
    BY PmpAssumption
  <2>2. pmpaddr' \in [Entry -> Nat]
    BY <1>1, <2>1 DEF UpdateAddr, TypeOK
  <2> QED BY <1>1, <2>2 DEF UpdateAddr, TypeOK, IdsMatch, Seal
<1>2. ASSUME NEW w \in ConfigWrites, UpdateConfig(w) PROVE TypeOK' /\ IdsMatch' /\ Seal
  <2>1. w.base \in Nat /\ w.vals \in [0 .. PerReg - 1 -> Config]
    BY PmpAssumption, Constants
  <2>2. \A i \in Entry : Writes(w, i) => w.vals[i - w.base] \in Config
    BY <2>1, Constants DEF Writes
  <2>3. pmpconfig' \in [Entry -> Config]
    BY <1>2, <2>2 DEF UpdateConfig, TypeOK
  <2>4. TypeOK' /\ Seal
    BY <1>2, <2>3 DEF UpdateConfig, TypeOK, Seal
  <2>5. \A i \in Entry : i \in pmpentry_id' <=> pmpconfig'[i] # Zero
    BY <1>2 DEF UpdateConfig, NewIds, Enters, Leaves, IdsMatch
  <2>6. pmpentry_id' \subseteq Entry
    BY <1>2 DEF UpdateConfig, NewIds, IdsMatch
  <2> QED BY <2>4, <2>5, <2>6 DEF IdsMatch
<1>3. CASE UNCHANGED vars
  <2>1. TypeOK' /\ IdsMatch'
    BY <1>3 DEF vars, TypeOK, IdsMatch
  <2>2. \A b \in sealed' : \E i \in Entry : Seals(i, b)'
    BY <1>3, SealKept, Constants DEF vars, TypeOK
  <2> QED BY <2>1, <2>2
<1>4. ASSUME Seal PROVE \A b \in sealed' : \E i \in Entry : Seals(i, b)'
  <2>1. \A b \in sealed : \E i \in Entry : Seals(i, b)'
    BY SealKept, Constants DEF TypeOK
  <2> QED BY <1>4, <2>1 DEF Seal
<1> QED BY <1>1, <1>2, <1>3, <1>4 DEF Next

LEMMA InitInv == Init => PmpInv
BY Constants DEF Init, PmpInv, TypeOK, IdsMatch

\* PmpInv holds in every state: the list of checked entries is exact and
\* what was settled stays so.
THEOREM InvHolds == Spec => []PmpInv
BY InitInv, StepKeepsInv, PTL DEF Spec

\* The list that dcheck and icheck go through is exactly the entries in use.
THEOREM IdsMatchHolds == Spec => []IdsMatch
<1>1. PmpInv => IdsMatch
  BY DEF PmpInv
<1> QED BY <1>1, InvHolds, PTL

\* No sequence of writes to pmpcfg and pmpaddr changes a locked entry or the
\* bytes it covers.
THEOREM LockedRangeFixedHolds == Spec => LockedRangeFixed
<1>1. ASSUME PmpInv, [Next]_vars
      PROVE  [\A i \in Entry : pmpconfig[i].lock =>
                 /\ pmpconfig'[i] = pmpconfig[i]
                 /\ \A b \in Valid : InEntry(i, b)' = InEntry(i, b)]_vars
  <2> SUFFICES ASSUME NEW i \in Entry, pmpconfig[i].lock
               PROVE  /\ pmpconfig'[i] = pmpconfig[i]
                      /\ \A b \in Valid : InEntry(i, b)' = InEntry(i, b)
    OBVIOUS
  <2>1. TypeOK
    BY <1>1 DEF PmpInv
  <2>2. pmpconfig'[i] = pmpconfig[i]
    BY <1>1, <2>1, LockedKept
  <2>3. \A b \in Valid : InEntry(i, b)' <=> InEntry(i, b)
    BY <1>1, <2>1, RangeKept, Constants
  <2>4. \A b \in Valid : InEntry(i, b) \in BOOLEAN /\ InEntry(i, b)' \in BOOLEAN
    BY <2>1, <2>2 DEF InEntry, TypeOK, Config, Modes
  <2> QED BY <2>2, <2>3, <2>4
<1> QED BY <1>1, InvHolds, PTL DEF Spec, LockedRangeFixed

(***************************************************************************)
(* The checks.                                                             *)
(***************************************************************************)
LEMMA LeastIs ==
    ASSUME NEW S \in SUBSET Nat, NEW i \in S, \A k \in S : i <= k
    PROVE  (CHOOSE j \in S : \A k \in S : j <= k) = i
<1> DEFINE c == CHOOSE j \in S : \A k \in S : j <= k
<1>1. c \in S /\ \A k \in S : c <= k
  BY LeastExists
<1> HIDE DEF c
<1>2. c = i
  BY <1>1
<1> QED BY <1>2 DEF c

\* A check is decided by the first entry that applies.
LEMMA CheckFirst ==
    ASSUME IdsMatch, NEW priv, NEW op, NEW b \in Nat, NEW size \in Nat \ {0},
           NEW i \in Applying(priv, b, b + size - 1),
           \A k \in Applying(priv, b, b + size - 1) : i <= k
    PROVE  Check(priv, op, b, size) <=>
               op \in Rights(pmpconfig[i]) /\ InEntry(i, b) /\ InEntry(i, b + size - 1)
<1>1. Applying(priv, b, b + size - 1) \in SUBSET Nat
  BY Constants DEF Applying, IdsMatch
<1> QED BY <1>1, LeastIs DEF Check

LEMMA CheckNone ==
    ASSUME NEW priv, NEW op, NEW b \in Nat, NEW size \in Nat \ {0},
           Applying(priv, b, b + size - 1) = {}
    PROVE  Check(priv, op, b, size) <=> priv = "M"
BY DEF Check

LEMMA AccessType ==
    ASSUME NEW x \in Accesses
    PROVE  /\ x.addr \in Nat /\ x.size \in {1, 2, 4}
           /\ x.kind \in {"load", "store", "amo", "fetch"}
           /\ x.priv \in {"M", "S", "U"}
BY PmpAssumption DEF Access

\* An aligned access stays within a word.
LEMMA SameWord ==
    ASSUME NEW x \in Accesses, Aligned(x)
    PROVE  /\ \A b \in Bytes(x) : b \in Nat /\ b \div 4 = x.addr \div 4
           /\ x.addr \in Bytes(x) /\ x.addr + x.size - 1 \in Bytes(x)
<1>1. x.addr \in Nat /\ x.size \in {1, 2, 4} /\ x.addr % x.size = 0
  BY AccessType DEF Aligned
<1>2. CASE x.size = 1
  BY <1>1, <1>2 DEF Bytes
<1>3. CASE x.size = 2
  BY <1>1, <1>3 DEF Bytes
<1>4. CASE x.size = 4
  BY <1>1, <1>4 DEF Bytes
<1> QED BY <1>1, <1>2, <1>3, <1>4

\* So an entry holds all bytes of an aligned access or none.
LEMMA EntryOfAccess ==
    ASSUME TypeOK, NEW x \in Accesses, Aligned(x), NEW i \in Entry,
           NEW b \in Bytes(x), NEW c \in Bytes(x)
    PROVE  InEntry(i, b) <=> InEntry(i, c)
<1>1. b \in Nat /\ c \in Nat /\ b \div 4 = c \div 4
  BY SameWord
<1> QED BY <1>1, InEntryWord

\* No store or AMO reaches a settled byte.
LEMMA SealRefuses ==
    ASSUME PmpInv, NEW x \in Accesses, LetThrough(x), x.kind \in {"store", "amo"}
    PROVE  Bytes(x) \cap sealed = {}
<1> SUFFICES ASSUME NEW b \in Bytes(x), b \in sealed PROVE FALSE
  OBVIOUS
<1> DEFINE t == x.addr + x.size - 1
           S == Applying(x.priv, x.addr, t)
<1>1. TypeOK /\ IdsMatch /\ Aligned(x) /\ Check(x.priv, "W", x.addr, x.size)
  BY DEF PmpInv, LetThrough
<1>2. PICK i \in Entry : Seals(i, b)
  BY DEF PmpInv
<1>3. x.addr \in Nat /\ x.size \in Nat \ {0} /\ x.addr \in Bytes(x) /\ t \in Bytes(x)
  BY <1>1, SameWord, AccessType
<1>4. pmpconfig[i].lock /\ InEntry(i, b) /\ "W" \notin pmpconfig[i].rights
  BY <1>2, Constants DEF Seals, Entry
<1>5. i \in S
  <2>1. InEntry(i, x.addr)
    BY <1>1, <1>3, <1>4, EntryOfAccess
  <2>2. i \in pmpentry_id
    BY <1>1, <1>4 DEF IdsMatch, Zero
  <2> QED BY <1>4, <2>1, <2>2 DEF Applying
<1>6. \A k \in S : i <= k
  <2> SUFFICES ASSUME NEW k \in S, ~(i <= k) PROVE FALSE
    OBVIOUS
  <2>1. k \in Entry /\ (InEntry(k, x.addr) \/ InEntry(k, t))
    BY <1>1 DEF Applying, IdsMatch
  <2>2. InEntry(k, b)
    BY <1>1, <1>3, <2>1, EntryOfAccess
  <2>3. k \in 0 .. i - 1
    BY <2>1, Constants DEF Entry
  <2> QED BY <1>2, <2>2, <2>3 DEF Seals
<1>7. "W" \in Rights(pmpconfig[i])
  <2> HIDE DEF S
  <2>1. i \in Applying(x.priv, x.addr, x.addr + x.size - 1)
    BY <1>5 DEF S
  <2>2. \A k \in Applying(x.priv, x.addr, x.addr + x.size - 1) : i <= k
    BY <1>6 DEF S
  <2> QED BY <1>1, <1>3, <2>1, <2>2, CheckFirst
<1> QED BY <1>4, <1>7 DEF Rights

\* A range that M software locked against writing, behind locked entries
\* only, is never written again, in any mode.
THEOREM SealedNotWrittenHolds == Spec => []SealedNotWritten
<1>1. PmpInv => SealedNotWritten
  BY SealRefuses DEF SealedNotWritten
<1> QED BY <1>1, InvHolds, PTL

(***************************************************************************)
(* The checks against the rule of the architecture.                        *)
(***************************************************************************)
OpOf(x) ==
    CASE x.kind \in {"store", "amo"} -> "W" [] x.kind = "load" -> "R"
      [] x.kind = "fetch" -> "X"
Holding(x) == {i \in Entry : \E b \in Bytes(x) : InEntry(i, b)}

LEMMA IsaFirst ==
    ASSUME NEW x \in Accesses, NEW e \in Holding(x), \A k \in Holding(x) : e <= k
    PROVE  IsaAllows(x) <=>
               \/ x.priv = "M" /\ ~pmpconfig[e].lock
               \/ OpOf(x) \in Rights(pmpconfig[e]) /\ \A b \in Bytes(x) : InEntry(e, b)
<1>1. Holding(x) \in SUBSET Nat
  BY Constants DEF Holding
<1>2. (CHOOSE j \in Holding(x) : \A k \in Holding(x) : j <= k) = e
  BY <1>1, LeastIs
<1> QED BY <1>2 DEF IsaAllows, Holding, OpOf

LEMMA IsaNone ==
    ASSUME NEW x \in Accesses, Holding(x) = {}
    PROVE  IsaAllows(x) <=> x.priv = "M"
BY DEF IsaAllows, Holding

\* An entry in use that holds the first byte of an access, and binds its
\* mode, applies to it.
LEMMA HoldingApplies ==
    ASSUME PmpInv, NEW x \in Accesses, Aligned(x), NEW t \in Nat, NEW e \in Holding(x),
           x.priv # "M" \/ pmpconfig[e].lock
    PROVE  e \in Applying(x.priv, x.addr, t)
<1>1. e \in Entry /\ InEntry(e, x.addr)
  BY SameWord, EntryOfAccess DEF Holding, PmpInv
<1>2. pmpconfig[e].a # "OFF"
  BY <1>1 DEF InEntry
<1>3. e \in pmpentry_id
  BY <1>1, <1>2 DEF PmpInv, IdsMatch, Zero
<1> QED BY <1>1, <1>3 DEF Applying

\* A check of at least the bytes of the access lets through only what the
\* architecture allows.
LEMMA CheckSound ==
    ASSUME PmpInv, NEW x \in Accesses, Aligned(x), NEW size \in Nat \ {0},
           Check(x.priv, OpOf(x), x.addr, size)
    PROVE  IsaAllows(x)
<1> DEFINE t == x.addr + size - 1
           S == Applying(x.priv, x.addr, t)
<1>1. x.addr \in Nat /\ t \in Nat /\ x.addr \in Bytes(x) /\ IdsMatch /\ TypeOK
  BY AccessType, SameWord DEF PmpInv
<1>2. S \in SUBSET Nat /\ S \subseteq Entry /\ Holding(x) \in SUBSET Nat
  BY <1>1, Constants DEF Applying, IdsMatch, Holding
<1>3. ASSUME NEW i \in S, \A k \in S : i <= k
      PROVE  OpOf(x) \in Rights(pmpconfig[i]) /\ InEntry(i, x.addr) /\ i \in Holding(x)
  <2>1. OpOf(x) \in Rights(pmpconfig[i]) /\ InEntry(i, x.addr)
    BY <1>1, <1>3, CheckFirst
  <2> QED BY <1>1, <1>2, <2>1 DEF Holding
<1>4. S # {} => \E i \in S : \A k \in S : i <= k
  BY <1>2, LeastExists
<1>5. CASE Holding(x) = {}
  <2> HIDE DEF S
  <2>1. S = {}
    BY <1>3, <1>4, <1>5
  <2>2. x.priv = "M"
    BY <1>1, <2>1, CheckNone DEF S
  <2> QED BY <1>5, <2>2, IsaNone
<1>6. CASE Holding(x) # {}
  <2>1. PICK e \in Holding(x) : \A k \in Holding(x) : e <= k
    BY <1>2, <1>6, LeastExists
  <2>2. CASE x.priv = "M" /\ ~pmpconfig[e].lock
    BY <2>1, <2>2, IsaFirst
  <2>3. CASE x.priv # "M" \/ pmpconfig[e].lock
    <3>1. e \in S
      BY <1>1, <2>3, HoldingApplies
    <3>2. PICK i \in S : \A k \in S : i <= k
      BY <1>4, <3>1
    <3>3. OpOf(x) \in Rights(pmpconfig[i]) /\ InEntry(i, x.addr) /\ i \in Holding(x)
      BY <1>3, <3>2
    <3>4. i = e
      <4>1. i <= e /\ e <= i
        BY <2>1, <3>1, <3>2, <3>3
      <4>2. i \in Nat /\ e \in Nat
        BY <1>2, <3>1
      <4> QED BY <4>1, <4>2
    <3>5. \A b \in Bytes(x) : InEntry(e, b)
      BY <1>1, <1>2, <3>1, <3>3, <3>4, EntryOfAccess
    <3> QED BY <2>1, <3>3, <3>4, <3>5, IsaFirst
  <2> QED BY <2>2, <2>3
<1> QED BY <1>5, <1>6

\* And a store of S or U that the architecture allows passes the check.
LEMMA CheckComplete ==
    ASSUME PmpInv, NEW x \in Accesses, Aligned(x), x.kind = "store", x.priv # "M", IsaAllows(x)
    PROVE  Check(x.priv, "W", x.addr, x.size)
<1> DEFINE t == x.addr + x.size - 1
           S == Applying(x.priv, x.addr, t)
<1>1. /\ x.addr \in Nat /\ x.size \in Nat \ {0} /\ t \in Nat
      /\ x.addr \in Bytes(x) /\ t \in Bytes(x) /\ IdsMatch
  BY AccessType, SameWord DEF PmpInv
<1>2. Holding(x) # {} /\ Holding(x) \in SUBSET Nat
  BY IsaNone, Constants DEF Holding
<1>3. PICK e \in Holding(x) : \A k \in Holding(x) : e <= k
  BY <1>2, LeastExists
<1>4. "W" \in Rights(pmpconfig[e]) /\ InEntry(e, x.addr) /\ InEntry(e, t)
  BY <1>1, <1>3, IsaFirst DEF OpOf
<1>5. e \in S
  BY <1>1, HoldingApplies
<1>6. \A k \in S : e <= k
  <2>1. S \subseteq Holding(x)
    BY <1>1 DEF Applying, IdsMatch, Holding
  <2> QED BY <1>3, <2>1
<1> QED BY <1>1, <1>4, <1>5, <1>6, CheckFirst

\* What dcheck and icheck let through is what the architecture's rule
\* allows, byte by byte; and they refuse S and U no store that it allows.
THEOREM GrantedIsAllowedHolds == Spec => []GrantedIsAllowed
<1>1. ASSUME PmpInv, NEW x \in Accesses, LetThrough(x) PROVE IsaAllows(x)
  <2>1. Aligned(x) /\ x.size \in Nat \ {0} /\ x.kind \in {"load", "store", "amo", "fetch"}
    BY <1>1, AccessType DEF LetThrough
  <2>2. CASE x.kind \in {"store", "amo"}
    <3>1. Check(x.priv, OpOf(x), x.addr, x.size)
      BY <1>1, <2>2 DEF LetThrough, OpOf
    <3> QED BY <1>1, <2>1, <3>1, CheckSound
  <2>3. CASE x.kind \in {"load", "fetch"}
    <3>1. Check(x.priv, OpOf(x), x.addr, 4)
      BY <1>1, <2>3 DEF LetThrough, OpOf
    <3> QED BY <1>1, <2>1, <3>1, CheckSound
  <2> QED BY <2>1, <2>2, <2>3
<1>2. ASSUME PmpInv, NEW x \in Accesses, x.priv # "M", x.kind = "store", Aligned(x), IsaAllows(x)
      PROVE  LetThrough(x)
  BY <1>2, CheckComplete DEF LetThrough
<1>3. PmpInv => GrantedIsAllowed
  BY <1>1, <1>2 DEF GrantedIsAllowed
<1> QED BY <1>3, InvHolds, PTL
=============================================================================
