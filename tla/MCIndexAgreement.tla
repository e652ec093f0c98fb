--------------------------- MODULE MCIndexAgreement ---------------------------
EXTENDS IndexAgreement, MCIndexPool

(* Two files that the builders must swap or leave, or whose paths differ   *)
(* in case only; one file of three types, with an ordinary path or not;    *)
(* and one file with every fallback and configuration reference.           *)
MCInputs ==
  CallsWithout(UNION {TwoFiles({<<"b">>}, {<<"a">>}, Contents(1, 2), Contents(1, 2)),
                      TwoFiles({<<"a">>}, {<<"A">>, <<"b">>}, Contents(1, 1), Contents(1, 2)),
                      OneFile({<<"a">>, <<"a", "b">>}, Contents(0, 3))})
  \cup {Call(files, f, c) : files \in OneFile({<<"a">>}, Contents(0, 2)),
                            f \in Optional, c \in Optional}
==============================================================================
