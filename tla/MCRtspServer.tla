---------------------------- MODULE MCRtspServer ----------------------------
(* RtspServer with a few registrations of each stream.                     *)
EXTENDS RtspServer
=============================================================================
