----------------------------- MODULE MCListing -----------------------------
(* Two descriptors for three visits; one directory may be missing or empty.   *)
EXTENDS Listing

Pages == {"music", "pic"}
Dirs == [music |-> {<<"other", "a">>}, pic |-> {<<"other">>, <<"b", "other">>}]
Lost == {{}, {"pic"}}
=============================================================================
