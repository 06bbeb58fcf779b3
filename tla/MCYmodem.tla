------------------------------ MODULE MCYmodem ------------------------------
(* Instance of Ymodem: its constants are numbers, given in Upload.cfg.       *)
EXTENDS Ymodem
=============================================================================
