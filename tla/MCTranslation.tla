---------------------------- MODULE MCTranslation ----------------------------
(***************************************************************************)
(* Two address spaces whose roots share a second-level table, with a       *)
(* megapage of each and a global one.  Tables have two entries, the TLB    *)
(* three slots.                                                             *)
(***************************************************************************)
EXTENDS Translation

Pte(f, n) == [flags |-> f, ppn |-> n]

MCZero == Pte({}, 0)
MCResidue == Pte({"R", "W", "A"}, 6)
Pointer == Pte({"V"}, 3)
Clean == Pte({"V", "R", "W", "A"}, 5)
Dirty == Pte({"V", "R", "W", "A", "D"}, 5)
Code == Pte({"V", "R", "X", "A", "U"}, 7)
Global == Pte({"V", "R", "X", "A", "G"}, 9)
MegaOwn == Pte({"V", "R", "W", "X", "A", "D"}, 4)
MegaOdd == Pte({"V", "R", "W", "X", "A", "D"}, 7)
MCPtes == {MCZero, MCResidue, Pointer, Clean, Dirty, Code, Global, MegaOwn, MegaOdd}

MCTables == {1, 2, 3}
MCSatps == {[asid |-> 1, root |-> 1], [asid |-> 2, root |-> 2]}

MCFirst ==
    {[l \in Locs |->
        CASE l = <<1, 0>> -> Pointer [] l = <<2, 0>> -> Pointer
          [] l = <<1, 1>> -> MegaOwn [] l = <<2, 1>> -> MCZero
          [] l = <<3, 0>> -> Clean   [] l = <<3, 1>> -> Code]}

MCStores ==
    {<< <<1, 1>>, MegaOdd>>, << <<1, 0>>, MCZero>>,
     << <<3, 0>>, Dirty>>, << <<3, 0>>, Clean>>, << <<3, 1>>, Global>>}

Req(o, p, v) == [op |-> o, priv |-> p, sum |-> p = "S", mxr |-> p = "S", vpn |-> v]
V(h, l) == [hi |-> h, lo |-> l]
MCReqs ==
    {Req("fetch", "S", V(0, 1)), Req("fetch", "S", V(1, 1)),
     Req("store", "S", V(0, 0)), Req("lr", "S", V(0, 0)), Req("load", "U", V(0, 1)),
     Req("amo", "S", V(1, 0))}
=============================================================================
