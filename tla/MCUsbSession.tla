---------------------------- MODULE MCUsbSession ----------------------------
EXTENDS UsbSession

(* Two mode commands with another one between them, as in
   smid_make_semantic_init, and one that is answered by nobody. *)
MCScript == << "mode", "post", "plain", "mode" >>
=============================================================================
