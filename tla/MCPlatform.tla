----------------------------- MODULE MCPlatform -----------------------------
(***************************************************************************)
(* A ring of three slots: a line of two characters fills it, a line that   *)
(* comes before the first was read is cut off, and the indices wrap.       *)
(***************************************************************************)
EXTENDS Platform

MCChar == {"a", "b"}
\* M's threshold stays 0 and the priority, once set, 1.
MCConfigs ==
    {st \in ConfigStores : /\ st.reg = "THRESHOLD" => st.ctx = "S"
                           /\ st.reg = "PRIORITY" => st.val = 1}
MCLines == {<<"a">>, <<"b", "a">>, <<"a", "b", "b">>}
=============================================================================
