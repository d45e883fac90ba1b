----------------------------- MODULE MCStartup -----------------------------
(* Startup with compositors that have everything, no subcompositor, no shm,  *)
(* or neither a seat nor a data device manager.                              *)
EXTENDS Startup

MCAdverts ==
  {<<"shm", "compositor", "seat", "wm_base", "subcompositor", "data_device_manager">>,
   <<"shm", "compositor", "seat", "wm_base", "data_device_manager">>,
   <<"compositor", "seat", "wm_base", "subcompositor">>,
   <<"shm", "compositor", "wm_base", "subcompositor">>}
=============================================================================
