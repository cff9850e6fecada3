------------------------------- MODULE MCPmp -------------------------------
(***************************************************************************)
(* Four entries in two registers over four words of memory.                 *)
(***************************************************************************)
EXTENDS Pmp, TLC

C(l, a, r) == [lock |-> l, a |-> a, rights |-> r]

\* The first register: open and locked, with a base in the entry below.
MCLow == {Zero, C(TRUE, "NA4", {}), C(FALSE, "TOR", {"W", "X"}), C(TRUE, "TOR", {"R"})}
\* The second: a large range under a locked or an open top-of-range entry.
MCHigh == {Zero, C(TRUE, "NAPOT", {"R"}), C(FALSE, "NAPOT", {"R", "W"}), C(TRUE, "TOR", {"W"})}

MCConfigWrites ==
    {[base |-> 0, vals |-> (0 :> c @@ 1 :> d)] : c \in MCLow, d \in MCLow} \cup
    {[base |-> 2, vals |-> (0 :> c @@ 1 :> d)] : c \in MCHigh, d \in MCHigh}

MCAddrWrites == [id : 0 .. 3, val : {1, 3}]
MCValid == 0 .. 15
MCAccesses ==
    {[priv |-> p, kind |-> k, addr |-> a, size |-> n] :
        p \in {"M", "S"}, k \in {"load", "store"}, a \in {0, 3, 4, 8, 12}, n \in {1, 4}}
    \cup {[priv |-> "U", kind |-> "fetch", addr |-> a, size |-> 4] : a \in {0, 4, 12}}
=============================================================================
