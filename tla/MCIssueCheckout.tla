--------------------------- MODULE MCIssueCheckout ---------------------------
(* TLC instance of IssueCheckout: the agent a1 has two runs, so that one    *)
(* can adopt the checkout of the other, and competes with a run of a2.      *)
EXTENDS IssueCheckout, TLC
CONSTANTS a1, a2, r1, r2, r3

MCAgentOf == [r \in {r1, r2, r3} |-> IF r = r3 THEN a2 ELSE a1]
(* A patch gives the issue back to a2, or hands it to a user.               *)
MCPatches == {[NoPatch EXCEPT !.status = "todo", !.agent = a2],
              [NoPatch EXCEPT !.agent = NoAgent, !.user = "user"]}
(* A patch sets one column.                                                 *)
MCAllPatches ==
  {[NoPatch EXCEPT !.status = s] : s \in Status}
    \cup {[NoPatch EXCEPT !.agent = a] : a \in {a2, NoAgent}}
    \cup {[NoPatch EXCEPT !.user = "user"]}
Symmetry == Permutations(Requests) \cup Permutations({r1, r2})
=============================================================================
