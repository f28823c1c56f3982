---------------------------- MODULE MCMmChannel ----------------------------
(* Model-checking values for MmChannel. *)
EXTENDS MmChannel

CONSTANTS meta, snapshot

MCStreams == {meta, snapshot}
MCCb == {meta}

Cmd(type, arg) == [type |-> type, arg |-> arg]
Request1(n, r) == Cmd("REQ_DATA_CB", <<n, r>>)

(* Pictures of one and two frames, retro-active or not, bracketed, of a long shot, and their end.         *)
MCPictures ==
    {<<Request1(2, 0)>>, <<Request1(2, 1)>>, <<Request1(0, 0)>>,
     <<Cmd("BRACKETING", TRUE), Request1(2, 0)>>, <<Cmd("BRACKETING", FALSE), Request1(0, 0)>>,
     <<Cmd("FLASH_BRACKETING", TRUE), Request1(2, 0)>>, <<Cmd("FLASH_BRACKETING", FALSE), Request1(0, 0)>>,
     <<Cmd("ZOOM_1X", TRUE), Request1(1, 0)>>, <<Cmd("ZOOM_1X", FALSE), Request1(0, 0)>>,
     <<Cmd("START_ZSL", TRUE), Request1(1, 0)>>, <<Request1(0, 0), Cmd("STOP_ZSL", TRUE)>>,
     <<Cmd("FLUSH_QUEUE", 2)>>}

Zsl ==
    [streams |-> MCStreams, notify_mode |-> "BURST", look_back |-> 1, post_frame_skip |-> 1,
     water_mark |-> 2, max_unmatched_frames |-> 1, priority |-> "NORMAL", linked |-> {},
     operations |-> <<MCPictures>>]

(* A picture taken while frames come, and cancelled at any moment. *)
ZslCancelled == [Zsl EXCEPT !.operations = <<{<<Request1(2, 0)>>, <<Cmd("START_ZSL", TRUE), Request1(1, 0)>>},
                                             {<<Request1(0, 0)>>}>>]
Capture ==
    [Zsl EXCEPT !.notify_mode = "CONTINUOUS", !.look_back = 0, !.post_frame_skip = 0, !.water_mark = 0,
                !.operations = <<{<<Cmd("BRACKETING", TRUE)>>, <<Cmd("BRACKETING", FALSE)>>}>>]
Live ==
    [Zsl EXCEPT !.notify_mode = "CONTINUOUS", !.priority = "LOW", !.linked = {meta}, !.operations = <<>>]
MCProfiles == {Zsl, ZslCancelled, Capture, Live}

MCInfo ==
    {NoInfo, [NoInfo EXCEPT !.prep = "NEED_FUTURE_FRAME"], [NoInfo EXCEPT !.prep = "DO_NOT_NEED_FUTURE_FRAME"],
     [NoInfo EXCEPT !.good = <<0, 1>>], [NoInfo EXCEPT !.crop1x = TRUE], [NoInfo EXCEPT !.divert = <<1>>],
     [NoInfo EXCEPT !.divert = <<-1>>]}
=============================================================================
