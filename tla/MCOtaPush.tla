----------------------------- MODULE MCOtaPush -----------------------------
(* A file of three chunks, the last one short, whose bytes begin with a line
   feed, hold a full stop and the prompt, as the second version of the test
   application does, and end a line: each could be taken for something else by
   whoever reads it at the wrong moment.  And a file that ends in an "OK". *)
EXTENDS OtaPush

MCFirmware == <<"LF", ".", "prompt", "BS", "CR">>
MCOkFile   == <<"LF", ".", "text", "CR", "OK">>
=============================================================================
