-------------------------------- MODULE Pmp --------------------------------
(***************************************************************************)
(* Physical memory protection: src/src/pmp.hpp, the CSR writes of exec_seq *)
(* that reach it, and the check that ends dmem_req_seq and imem_req_seq.   *)
(*                                                                         *)
(* An entry's configuration is its lock, its address mode and its rights.  *)
(* Addresses are bytes; pmpaddr counts words.                              *)
(***************************************************************************)
EXTENDS Integers

CONSTANTS
    PmpCount,      \* entries (64)
    PerReg,        \* configurations in one pmpcfg register (4)
    ConfigWrites,  \* what M software writes to pmpcfg registers
    AddrWrites,    \* and to pmpaddr registers
    Accesses,      \* what is asked of memory: mode, kind, address, size
    Valid          \* is_pma_valid

VARIABLES
    pmpaddr, pmpconfig,
    pmpentry_id,   \* the entries a check looks at
    sealed         \* history: bytes that no store may reach any more

vars == <<pmpaddr, pmpconfig, pmpentry_id, sealed>>

Entry == 0 .. PmpCount - 1
Modes == {"OFF", "TOR", "NA4", "NAPOT"}
Config == [lock : BOOLEAN, a : Modes, rights : SUBSET {"R", "W", "X"}]
Zero == [lock |-> FALSE, a |-> "OFF", rights |-> {}]
Access == [priv : {"M", "S", "U"}, kind : {"load", "store", "amo", "fetch"},
           addr : Nat, size : {1, 2, 4}]

ASSUME PmpAssumption ==
    /\ PmpCount \in Nat \ {0} /\ PerReg \in Nat \ {0}
    /\ ConfigWrites \subseteq [base : Entry, vals : [0 .. PerReg - 1 -> Config]]
    /\ \A w \in ConfigWrites : w.base + PerReg <= PmpCount
    /\ AddrWrites \subseteq [id : Entry, val : Nat]
    /\ Accesses \subseteq Access
    /\ Valid \subseteq Nat

(***************************************************************************)
(* dcheck() and icheck(), which are the same.                              *)
(***************************************************************************)
\* Words of the naturally aligned power-of-two range that a denotes: twice
\* the lowest bit that is set in a + 1.
NapotWords(a) ==
    {2 * b : b \in {n \in 1 .. a + 1 : /\ \E k \in 0 .. a + 1 : n = 2 ^ k
                                       /\ (a + 1) % n = 0 /\ (a + 1) % (2 * n) # 0}}

\* base_in and top_in: byte b is in the range of entry i.
InEntry(i, b) ==
    CASE pmpconfig[i].a = "OFF" -> FALSE
      [] pmpconfig[i].a = "TOR" ->
            (IF i = 0 THEN 0 ELSE 4 * pmpaddr[i - 1]) <= b /\ b < 4 * pmpaddr[i]
      [] pmpconfig[i].a = "NA4" -> b \div 4 = pmpaddr[i]
      [] pmpconfig[i].a = "NAPOT" ->
            \E n \in NapotWords(pmpaddr[i]) : b \div (4 * n) = pmpaddr[i] \div n

\* Write permission implies read permission.
Rights(c) == c.rights \cup IF "W" \in c.rights THEN {"R"} ELSE {}

\* The entries that apply: M is bound by locked entries only.
Applying(priv, b, t) ==
    {i \in pmpentry_id : /\ InEntry(i, b) \/ InEntry(i, t)
                         /\ priv # "M" \/ pmpconfig[i].lock}

\* Slip: half an access in the range is enough.
SlipCheck(priv, op, b, size) ==
    LET t == b + size - 1
        S == Applying(priv, b, t)
        i == CHOOSE j \in S : \A k \in S : j <= k
    IN IF S = {} THEN priv = "M" ELSE op \in Rights(pmpconfig[i])

Check(priv, op, b, size) ==
    LET t == b + size - 1
        S == Applying(priv, b, t)
        i == CHOOSE j \in S : \A k \in S : j <= k
    IN IF S = {} THEN priv = "M"
       ELSE op \in Rights(pmpconfig[i]) /\ InEntry(i, b) /\ InEntry(i, t)

(***************************************************************************)
(* The end of dmem_req_seq and imem_req_seq.  priv is the mode that        *)
(* pmp_dcheck and pmp_icheck settle on: MPP under MPRV.  LR is an "amo".   *)
(* A load is checked as four bytes, a fetch always is four.                *)
(***************************************************************************)
Aligned(x) == x.addr % x.size = 0 /\ x.addr \in Valid

LetThrough(x) ==
    /\ Aligned(x)
    /\ CASE x.kind \in {"store", "amo"} -> Check(x.priv, "W", x.addr, x.size)
         [] x.kind = "load" -> Check(x.priv, "R", x.addr, 4)
         [] x.kind = "fetch" -> Check(x.priv, "X", x.addr, 4)

Bytes(x) == x.addr .. x.addr + x.size - 1

(***************************************************************************)
(* update_addr() and update_config().  An entry cannot be written when it  *)
(* is locked, nor when the next one is a locked top-of-range entry, whose  *)
(* base it is.                                                             *)
(***************************************************************************)
\* Slip: the entry above is not looked at.
SlipWritable(i) == ~pmpconfig[i].lock

Writable(i) ==
    /\ ~pmpconfig[i].lock
    /\ i = PmpCount - 1 \/ ~(pmpconfig[i + 1].lock /\ pmpconfig[i + 1].a = "TOR")

\* The bytes of entry i of which it is settled for good that no store gets
\* there: i and all entries before it are locked, i is the first of them to
\* hold the byte, and i does not grant writing.
Seals(i, b) ==
    /\ \A j \in 0 .. i : pmpconfig[j].lock
    /\ InEntry(i, b) /\ "W" \notin pmpconfig[i].rights
    /\ \A j \in 0 .. i - 1 : ~InEntry(j, b)

Seal == sealed' = sealed \cup {b \in Valid : \E i \in Entry : Seals(i, b)'}

UpdateAddr(w) ==
    /\ pmpaddr' = IF Writable(w.id) THEN [pmpaddr EXCEPT ![w.id] = w.val] ELSE pmpaddr
    /\ UNCHANGED <<pmpconfig, pmpentry_id>>
    /\ Seal

\* Slip: the lock holds for the address only.
SlipWrites(w, i) == w.base <= i /\ i < w.base + PerReg

Writes(w, i) == w.base <= i /\ i < w.base + PerReg /\ Writable(i)

\* An entry enters the list when it is first given a configuration, and
\* leaves it when that is taken away.
Enters(w, i) == Writes(w, i) /\ pmpconfig[i] = Zero /\ w.vals[i - w.base] # Zero
Leaves(w, i) == Writes(w, i) /\ pmpconfig[i] # Zero /\ w.vals[i - w.base] = Zero

\* Slip: an entry that is switched off stays in the list.
SlipNewIds(w) == pmpentry_id \cup {i \in Entry : Enters(w, i)}

NewIds(w) ==
    (pmpentry_id \ {i \in Entry : Leaves(w, i)}) \cup {i \in Entry : Enters(w, i)}

UpdateConfig(w) ==
    /\ pmpconfig' = [i \in Entry |-> IF Writes(w, i) THEN w.vals[i - w.base] ELSE pmpconfig[i]]
    /\ pmpentry_id' = NewIds(w)
    /\ UNCHANGED pmpaddr
    /\ Seal

Init ==
    /\ pmpaddr = [i \in Entry |-> 0]
    /\ pmpconfig = [i \in Entry |-> Zero]
    /\ pmpentry_id = {}
    /\ sealed = {}

Next ==
    \/ \E w \in AddrWrites : UpdateAddr(w)
    \/ \E w \in ConfigWrites : UpdateConfig(w)

Spec == Init /\ [][Next]_vars

(***************************************************************************)
(* What protection promises.                                               *)
(***************************************************************************)

\* The list that checks go through is exactly the entries in use, after any
\* sequence of writes that locks let through or not.
IdsMatch == pmpentry_id = {i \in Entry : pmpconfig[i] # Zero}

\* Nothing changes the configuration of a locked entry or the bytes it
\* covers, of which a top-of-range entry takes one end from its neighbour.
LockedRangeFixed ==
    [][\A i \in Entry : pmpconfig[i].lock =>
          /\ pmpconfig'[i] = pmpconfig[i]
          /\ \A b \in Valid : InEntry(i, b)' = InEntry(i, b)]_vars

\* The rule of the privileged architecture, byte by byte: the first entry
\* that holds any byte of the access must hold them all and grant it, unless
\* it is not locked and the access is M's.
IsaAllows(x) ==
    LET S == {i \in Entry : \E b \in Bytes(x) : InEntry(i, b)}
        i == CHOOSE j \in S : \A k \in S : j <= k
        op == CASE x.kind \in {"store", "amo"} -> "W" [] x.kind = "load" -> "R"
                [] x.kind = "fetch" -> "X"
    IN IF S = {} THEN x.priv = "M"
       ELSE \/ x.priv = "M" /\ ~pmpconfig[i].lock
            \/ op \in Rights(pmpconfig[i]) /\ \A b \in Bytes(x) : InEntry(i, b)

\* What is let through is allowed; and a store of S or U that is allowed is
\* let through.  (M is also held to locked entries behind one that is not,
\* and a narrow load at the end of a range is refused.)
GrantedIsAllowed ==
    \A x \in Accesses :
        /\ LetThrough(x) => IsaAllows(x)
        /\ (x.priv # "M" /\ x.kind = "store" /\ Aligned(x) /\ IsaAllows(x)) => LetThrough(x)

\* Once M software has locked a range against writing behind locked entries
\* only, no store in any mode ever reaches it, whatever is written to the
\* PMP registers afterwards.
SealedNotWritten ==
    \A x \in Accesses :
        (LetThrough(x) /\ x.kind \in {"store", "amo"}) => Bytes(x) \cap sealed = {}

\* Types of the registers.
TypeOK ==
    /\ pmpaddr \in [Entry -> Nat]
    /\ pmpconfig \in [Entry -> Config]
    /\ sealed \subseteq Valid

\* The inductive invariant: whatever was once settled is settled now, by an
\* entry that is in the list.
PmpInv == TypeOK /\ IdsMatch /\ \A b \in sealed : \E i \in Entry : Seals(i, b)
=============================================================================
