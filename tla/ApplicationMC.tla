---------------------------- MODULE ApplicationMC ----------------------------
(***************************************************************************)
(* Three entries: of the HTTP app alone, or of hosts that share the app.   *)
(***************************************************************************)
EXTENDS Application

AllSetups == [kind : [Hosts -> Kinds], disturbed : {"no", "yes"}]

=============================================================================
