----------------------------- MODULE MCCameraApi -----------------------------
(* Model-checking values for CameraApi. *)
EXTENDS CameraApi

CONSTANTS c1, c2

MCClients == {c1, c2}

(* Applications record without ZSL. *)
MCModes == {<<TRUE, FALSE>>, <<FALSE, FALSE>>, <<FALSE, TRUE>>}
MCNone == {}

(* The camera service serialises its own calls; the recorder gives frames   *)
(* back on a thread of its own.  The application does not cancel a picture:  *)
(* a live snapshot that fails does, on its thread, and callers share no      *)
(* request.                                                                  *)
MCFilming ==
    c1 :> {"START_NODISPLAY_PREVIEW", "STOP_PREVIEW", "START_RECORDING", "STOP_RECORDING",
           take_picture}
    @@ c2 :> {"RELEASE_RECORDING_FRAME"}

(* One application thread that changes modes, so that pictures are taken in  *)
(* ZSL mode, with retro-active frames, live and over the preview.           *)
MCOne == {c1}
MCPatient ==
    c1 :> {"SET_PARAMS", "START_NODISPLAY_PREVIEW", "STOP_PREVIEW", "CANCEL_PICTURE", take_picture}

(* Pictures and recordings over a daemon that dies. *)
MCRecorder ==
    c1 :> {"START_NODISPLAY_PREVIEW", "STOP_PREVIEW", "START_RECORDING", "STOP_RECORDING",
           "CANCEL_PICTURE", take_picture}

(* What the post-processor queues when it has all it needs of a capture. *)
MCLoose == {"STOP_CAPTURE_CHANNEL"}
=============================================================================
