--------------------------- MODULE MCFetchBuffer ---------------------------
(***************************************************************************)
(* FetchBufferEnv on eight parcels of memory.  "c" and "d" are compressed  *)
(* instructions, "l" and "m" start a long one, "z" is the zero payload.    *)
(***************************************************************************)
EXTENDS FetchBufferEnv

Mem(bits) == [a \in Addr |-> [bits |-> bits[a + 1], pf |-> FALSE, af |-> FALSE]]

\* word: an even address; its two parcels fault and read as zero
Faulting(im, word, pf) ==
    [a \in Addr |-> IF a \in {word, word + 1}
                    THEN [bits |-> "z", pf |-> pf, af |-> ~pf] ELSE im[a]]

Mixed == Mem(<<"c", "l", "d", "m", "c", "c", "l", "d">>)
AllLong == Mem(<<"l", "c", "m", "d", "l", "m", "c", "l">>)
PageFaulting == Faulting(Mem(<<"c", "l", "z", "z", "c", "l", "m", "d">>), 2, TRUE)
AccessFaulting == Faulting(AllLong, 0, FALSE)

MCImages == {Mixed, AllLong, PageFaulting, AccessFaulting}
MCParcel == {"c", "d", "l", "m", "z", "garbled"}
MCLong == {"l", "m"}

=============================================================================
