----------------------------- MODULE MCPostProc -----------------------------
EXTENDS PostProc, TLC

Shot(raw, total, shots, outs, fails) ==
    [raw |-> raw, total |-> total, shots |-> shots, outs |-> outs, longshot |-> FALSE, save |-> FALSE, fails |-> fails]
LongShot(total, outs, save_, fails) ==
    [raw |-> FALSE, total |-> total, shots |-> 1, outs |-> outs, longshot |-> TRUE, save |-> save_, fails |-> fails]

(* Two pictures reprocessed side by side, one reprocessed twice, raw ones     *)
(* with and without a reprocess, and long shots with too few output buffers. *)
MCModes == {Shot(FALSE, 1, 2, 2, TRUE), Shot(FALSE, 2, 1, 1, TRUE), Shot(TRUE, 0, 2, 0, TRUE),
            Shot(TRUE, 1, 1, 1, TRUE), LongShot(1, 1, FALSE, TRUE), LongShot(1, 1, TRUE, FALSE)}
=============================================================================
