------------------------------ MODULE MCSubmit ------------------------------
(* Instances of Submit for TLC.                                            *)
EXTENDS MCLedger, Submit

CONSTANTS r1, r2

(* A delegated J, then revoked it without having seen J's correction 3;    *)
(* on that correction A itself delegated K: a grant in force whose issuing *)
(* event is not in the past of the head.                                   *)
OffBranch == <<Genesis(A), Delegate(A, 1, 1, J), Correct(J, 2, 2),
               Revoke(A, 1, 2, 2, FALSE), Delegate(A, 1, 3, K)>>

Submitting(signed, keys, max, known, flags, runs) ==
    Setup(signed, keys, max, 0, TRUE, 0)
    @@ [known |-> known, dirs |-> 1, flags |-> flags, runs |-> runs]
SubmitSetups ==
    {Submitting(OffBranch, {L}, 7, {1..5}, {FALSE}, 1),
     Submitting(JustGenesis, {J, L}, 3, {{}, {1}}, BOOLEAN, 2)}

PermutedRuns == Permutations(Runs)
=============================================================================
