----------------------------- MODULE MCResources ------------------------------
(***************************************************************************)
(* Resources, instantiated for TLC with a part of the tree of main(): an   *)
(* aggregate in an aggregate, a child that is omitted when it is null, a   *)
(* resource that can be asked for itself, too.                             *)
(***************************************************************************)
EXTENDS Resources

Of(name, res, omit) == [name |-> name, res |-> res, omit |-> omit]

MCChildren ==
  [res \in {"/", "/firmware", "/wifi"} |->
     CASE res = "/" ->
            <<Of("firmware", "/firmware", FALSE),
              Of("wifi", "/wifi", FALSE)>>
       [] res = "/firmware" ->
            <<Of("update_URI", "/firmware/update_uri", TRUE),
              Of("running_image", "/firmware_version", FALSE)>>
       [] res = "/wifi" ->
            <<Of("status", "/wifi/status", FALSE)>>]

=============================================================================
