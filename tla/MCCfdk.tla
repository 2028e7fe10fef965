-------------------------------- MODULE MCCfdk --------------------------------
(* Cfdk with screens of two by two bytes and a listing of several pages.     *)
EXTENDS Cfdk

=============================================================================
