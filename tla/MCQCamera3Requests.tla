------------------------- MODULE MCQCamera3Requests -------------------------
(* QCamera3Requests with a preview and a jpeg stream.                       *)
EXTENDS QCamera3Requests

MCStreams == {"preview", "jpeg"}
MCBlob == "jpeg"
MCOutputSets == {{"preview"}, {"preview", "jpeg"}}
=============================================================================
