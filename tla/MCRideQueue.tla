----------------------------- MODULE MCRideQueue -----------------------------
(* Three requests after three rides of one match, enough for three            *)
(* auto-resolutions that each hold a row the next one waits for.              *)
EXTENDS MCRideService

CONSTANTS r3, s3
=============================================================================
