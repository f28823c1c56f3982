------------------------ MODULE MCCameraStateMachine ------------------------
(***************************************************************************)
(* CameraStateMachine with two clients, one per behaviour.  The constants  *)
(* of the module are those of a client that sends what it likes and        *)
(* changes modes where it likes, to a daemon that may refuse; the careful  *)
(* one changes modes only without a capture or a recording, and of what it *)
(* asks for only the live snapshot thread may fail.                        *)
(***************************************************************************)
EXTENDS CameraStateMachine

VARIABLE careful   \* which client it is

MCModes == BOOLEAN \X BOOLEAN

(* Preview frame messages touch no channel and no state. *)
MCEvts == AllEvts \ {"ENABLE_MSG_TYPE", "DISABLE_MSG_TYPE"}

Careful == INSTANCE CameraStateMachine WITH
               Evts <- AllEvts, SetStates <- {"PREVIEW_STOPPED", "PREVIEW_READY", "PREVIEWING"},
               HwMayFail <- FALSE, PreviewRestart <- FALSE

(* States are told apart by what a later step can see; out is only what the *)
(* last step left to be signalled.                                          *)
Core == <<m_state, hw, msgs, bRetroPicture, careful>>

ClientsInit == careful \in BOOLEAN /\ Init
ClientsNext == (IF careful THEN Careful!Next ELSE Next) /\ UNCHANGED careful
ClientsSpec == ClientsInit /\ [][ClientsNext]_<<vars, careful>>

-----------------------------------------------------------------------------
(* Where no preview is believed to run nothing of a capture or a recording   *)
(* cut short runs on, for a client that changes modes between them.          *)
StoppedIsStoppedIfCareful == careful => StoppedIsStopped

(* For such a client the streams that run fit each other: one of ZSL,        *)
(* preview and capture, under a recording the preview, and no request for    *)
(* preview frames is held back once a recording runs.                        *)
StreamsFit == careful => OneStreamingChannel /\ RecordingOverPreview /\ FramesWhileRecording
=============================================================================
